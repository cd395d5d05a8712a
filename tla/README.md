# TLA+ models of the tvsc flight software

The repository is the software of a small satellite: a C++20 program for STM32L4
microcontrollers built around a cooperative scheduler of coroutines, a hardware
abstraction layer that powers peripherals by reference counting, a CAN bus with
message queues, a programmer that flashes other boards over SWD, and a simulation
of the hardware that runs on a desktop. Almost everything runs on one thread, with
interrupt handlers beside it; the ring buffer of `buffer/` is lock-free and meant
for several threads. Paths below are relative to the root of the repository.

## The system

| Part | State it keeps | Operations | What is hard | Correct when |
|---|---|---|---|---|
| Scheduler and tasks (`system/`) | array of coroutine handles, the instant each waits for, a stop flag | `add_task`, `remove_task`, `run_tasks_once`, `start`, `stop`; `co_yield`, `co_return` | tasks change the array in the middle of a pass over it; one wakeup time for all | each frame has one owner, no due task is passed over, no sleep is too long, `stop` ends `start` |
| Embedded clock (`time/`, `hal/systick`, `hal/timer`, `hal/power`) | `uwTick`, `is_running_`, the hardware timer | `sleep_us`, `wait_us`, two interrupt handlers | interrupts between any two statements; WFI; rounding | calls return, last as long as asked, the clock shows the time |
| Peripherals (`hal/peripheral.h` and every driver) | `ref_count_`, the handles a driver owns | `access`, copy, move, assign, destroy, `invalidate`; `enable`, `disable` | nested enabling, shared dependencies, copy assignment | a peripheral is on exactly while used, and what it needs is on with it |
| Paged ring buffer (`buffer/`) | two monotone counters, pages of elements | `supply`, `consume`, `peek`, `pop`, two callbacks | lock-free threads, dropping old elements under a reader | it is a bounded queue |
| Message queue (`message/`) | begin and end counters, elements, processors | `enqueue`, `process_next_message`, `attach_processor` | processors hold references into the queue | each message is offered to the processors once, in order |
| Satellite application (`bringup/`) | five coroutines, one queue | announce, receive, process, flash a target | order in which tasks take and drop the CAN controller | announced and received messages are not lost silently |
| CAN driver (`hal/can_bus`) | mailboxes, FIFOs (hardware) | `transmit`, `receive`, `available_message_count` | overrun, full mailboxes, disabling with messages queued | as above |
| I2C driver (`hal/i2c`) | a pending callback | blocking and asynchronous transfers | completion in interrupt context, overlapping transfers | each callback runs once, for its own transfer |
| ADC, DMA, DAC (`hal/adc`, `hal/dma`, `hal/dac`) | conversion state, a callback, a circular buffer | measurements, streams, outputs | completion in interrupt context; a trigger that runs by itself; settling | no stale sample is returned |
| SWD programmer (`serial_wire/`, `hal/programmer`) | cached SELECT register, who drives the line, debug port state | read and write registers, power up and down, memory access | acknowledgements, retries, sticky errors, turnarounds | the cache agrees with the port, both sides are at the same bit |
| Flash programming (`serial_wire/flash.cc`, `bringup/flash_target.h`) | lock bit, progress, the last status | unlock, erase, write, lock | failure of any step | the flash holds the image or an error is reported |
| Clock tree (`hal/rcc`) | oscillators, voltage, wait states | three speeds, restore | order of steps | never too fast for the voltage |
| Watchdog, random numbers (`hal/watchdog`, `hal/random`) | oscillators, a down counter, a seed | feed; draw | tasks and sleeps delay the feeding | no reset while the scheduler runs |
| Pins (`hal/gpio`) | registers of a port, shared by 16 pins | modes, levels, toggling | bit fields of neighbours, two registers of alternate functions | each pin is as its driver asked |
| Radio (`comms/radio`, `hal/spi`) | mode (twice), FIFO, fragments, settings | transmit, receive, fields of a fragment, settings | mode changes and transfers from interrupts | both modes agree, fragments arrive whole |
| Sensors (`hal/power_monitor`, `hal/imu`) | configuration, handles | open, measure, put in standby | averaging takes time, transfers fail | a reading was measured since it was asked for |
| Board identification (`hal/board_identification`) | none | resistors, dividers, id of a voltage | tolerances, a divider that has not settled | a board is taken for itself or for none |
| Simulation (`hal/simulation`, `time/scaled_clock.h`) | event queue, two threads | reactor loop, interrupt generation | condition variables | every simulated interrupt is delivered |
| Control (`control/`) | values or a range | builders, size, membership | reversed ranges, excluded bounds | a domain has what was asked for |
| Identifiers (`hash/`, `string/base64.h`) | none | hash, combine, encode, decode | overflow | identifiers differ where numbers do |

The parts call each other downwards: the application runs as tasks of the
scheduler; the scheduler sleeps with the embedded clock, which owns a handle of the
sleep timer for ever; tasks take handles of peripherals for a block or for their
whole life; drivers take handles of pins, pins of ports. Interrupt handlers
(`hal/mcu/stm32l4xx.cc`) call upwards into the drivers. `PROJECT.json` lists every
part with its status, and under `hazards` each place where this code is hard to
test, with the properties that watch it.

## Modules

| Module | Models | Role |
|---|---|---|
| `Scheduler` | `system/scheduler.h`, `system/task.h` | one action per loop iteration, split where control leaves the scheduler |
| `CooperativeTasks` | what a program's tasks rely on | abstract specification, implemented by `Scheduler` |
| `EmbeddedClock` | `time/embedded_clock.cc`, LPTIM1, SysTick, WFI | one action per statement, interrupt handlers in between |
| `Peripherals` | `hal/peripheral.h` with the drivers' `enable`/`disable` | one action per operation on a handle and per nested call |
| `PagedRing` | `buffer/ring_buffer.h`, `buffer/buffer.h` | one action per access to shared memory |
| `BoundedFifo` | a bounded queue | abstract specification, implemented by `PagedRing` and by the queue in `CanNode` |
| `DebugPort` | `serial_wire/serial_wire.cc`, `serial_wire/target.cc` | one action per command on the wire; the debug port is external |
| `FlashTarget` | `bringup/flash_target.h`, `serial_wire/flash.cc` | one action per access to the target's memory; the flash controller is external |
| `MessageQueue` | `message/queue.h`, `message/ring_buffer.h` | operations of the bounded queue, a part of `CanNode`, which shows that it implements `BoundedFifo` |
| `CanNode` | the CAN tasks of `bringup/`, `hal/can_bus` | the satellite's tasks, the queue and the controller composed |
| `Radio` | `comms/radio/rf69hcw.h`, `transceiver.h`, the echo programs | one action per SPI transaction of two programs and their interrupts |
| `RadioSettings` | the settings in `rf69hcw.h` | one action per public function |
| `Spi` | `hal/spi`, `comms/radio/fragment.h` | one action per byte on the bus |
| `MockRadio` | `comms/radio/mock_radio.h` | one action per call and per change of the clock |
| `BoardIdentification` | `hal/board_identification` | pure operators |
| `Adc` | `hal/adc`, `hal/dma`, `bringup/read_board_id.{cc,h}` | statements of the task, the interrupt in between; extends `BoardIdentification` |
| `AnalogOutput` | `hal/dac`, `bringup/dac_demo.h`, `adc_demo.cc` | one action per part of a task between two waits |
| `StreamingAdc` | `bringup/streaming_adc.cc` | the task, the timer and the DMA controller |
| `Sensors` | `hal/power_monitor`, `hal/imu`, `bringup/monitor_*.h` | one action per part of a task between two `co_yield`s |
| `ClockTree` | `hal/rcc/stm32l4xx_rcc.cc` | one action per step of the vendor's library |
| `Watchdog` | `hal/watchdog`, `hal/random`, `bringup/watchdog.h` and the programs with them | tasks, sleep and the down counter |
| `Simulation` | `hal/simulation/reactor.h` on a mock clock | two threads |
| `SwdWire` | `serial_wire/serial_wire.cc`, `hal/programmer` | one action per clock on the wire |
| `WholeFlash` | the rest of `serial_wire/flash.cc` | one action per access to the target's memory |
| `Pins` | `hal/gpio/stm_gpio.cc`, the satellite's drivers and pins | one action per call of a driver |
| `RingSignals` | the callbacks of `buffer/ring_buffer.h` | one action per access to a pointer |
| `Buffers` | `buffer/buffer.h` | one action per member function, for both implementations at once |
| `Messages` | `message/`, the processors of `bringup/satellite.cc` | one action per call |
| `CanEcho` | `bringup/can_bus_transmit.cc`, `can_bus_receive.cc` | two boards on a disturbed bus |
| `ParameterDomains` | `control/parameter_domain.h` | one action per call of a builder |
| `Identifiers` | `hash/`, `string/base64.h` | pure operators, and their loops as actions |
| `SchedulerProofs`, `PeripheralsProofs`, `PagedRingProofs`, `CanNodeProofs`, `FlashTargetProofs`, `DebugPortProofs` | the module of the same name | theorems and proofs |
| `ClockProofs` | `EmbeddedClock` | theorems and proofs |
| `Drivers` | the modules from `Radio` on | composes them |
| `DriversProofs` | `Drivers` | theorems and proofs |
| `MC*` | | values and symmetry for TLC, where a module needs them |

The modules from `Radio` on share nothing with each other in the code, or too
little to compose them: `Drivers` composes them all the same, in one
specification whose constant variable `driver` says which of them a behaviour is
about. The others keep their initial state, so the states of the run are the sum of
the states of the systems and not their product, and each property speaks of the
driver it belongs to. `Init` narrows some initial states of drivers that stand
still, so that they do not multiply those of the one that moves.

Definitions whose comment begins with "Fault:" are not part of a specification.
Each is a variant of the definition that follows it with a plausible mistake, kept
to show that the property named beside it in `PROJECT.json` (`mutants`) fails when
the mistake is made.

### Scheduler

`queue` is `task_queue_`, `cursor` the index of the loop in `run_tasks_once`, `pc`
the place `start()` has reached. Time is relative: `delay[t]` is how far
`wait_until_` lies ahead, 0 once it has passed, so instants never grow. `Tick`
lets time pass at every point. While `pc = "run"` the task at the cursor executes:
it may add tasks, remove others, stop the scheduler, and ends with `Yield` or
`Return`. `due` and `missed` are history variables. `missed` holds the tasks added
during a pass to a slot behind the cursor: the code computes no wakeup time for
them, so they may wait out the sleep of up to 5 s, and `NoOversleep` exempts exactly
those. `Wake` allows the sleep to end up to `ClockError` early, which is what the
embedded clock guarantees (`EmbeddedClock`): the timer rounds down.

A running task that removes itself destroys the frame it executes in. The language
leaves that undefined, no caller does it, and `RemoveTask` excludes it.

### EmbeddedClock

`Sleep`, `MarkRunning`, `StartTimer`, `CheckTimer`, `EnterSleepMode`, `LoadTicks`
and `StoreTicks` are the statements of `sleep_us`; the increment of `uwTick` is two
of them, because SysTick may strike in between. `SysTickInterrupt` and
`TimerInterrupt` are the handlers. Nothing in the code masks interrupts, so a
handler runs before the next statement (`At`). `OtherInterrupt` is any other
interrupt (CAN, DMA): it ends WFI and nothing else. Only differences of `uwTick`
are kept. The external parts are the oscillators, the compare match of LPTIM1 as a
one-shot timer and WFI itself. A compare value of 0, which intervals of 25 to 31 us
give, matches at once or after a turn of the counter. The 32-bit width of `uwTick`
is the vendor's and not modelled.

`ClockKeepsUp` is about the ticks that `uwTick += us` loses: when a call returns, the
clock has fallen behind the time of the call by less than a period, as a clock that only
SysTick moves would. It holds for two reasons: no more than one tick is lost between load
and store, and the sleep that is added was counted by SysTick too (`clock_drift`). It is a
property of one call. A tick of 1000 us that is lost in a sleep of 500 us leaves the clock
500 us short, and that adds up over the calls in which SysTick strikes there, as does what
the clock gains in all the others.

`CallsReturn` and `WakesWithinATick` document why the TODO of
`time/embedded_clock.cc:32` needs care: with `enter_stop_mode`, where SysTick
stands still (the fault `TickInStopMode`), the timer interrupt that arrives between
`is_running()` and WFI is the last one, and the sleep overruns without limit.

### Peripherals

`handle[h]` is `peripheral_` of a handle, `held[p]` the handles that the driver of
`p` owns, `phase[p]` where `p` is between off and on. A handle operation runs to the
virtual call; `TakeNeed`, `TurnOn`, `GiveUpNeed` and `FinishDisable` are the body of
the driver's `enable()` and `disable()`, one nested call at a time, because
interrupt handlers see the states in between. The body of `TurnOn` and
`FinishDisable` is mapped to the CAN driver, the one with most needs; the I2C
driver, the pins, the low-power timer and the programmer have the same shape. The
order in which needs are taken is left free, which covers every driver.

### PagedRing

An operation is its loads, its copy (element by element) and its compare-and-swap.
`gone` is a history variable: what was consumed, popped or dropped. The refinement
maps the elements between the two pointers to the queue of `BoundedFifo`, whose
operations take effect at the compare-and-swap. The callbacks at the end of an
operation are in `RingSignals`; `peek` returns a pointer and changes nothing.
`prioritize_old` is the template parameter of that name, a variable that is chosen
at the start and never changes, so that one run looks at both kinds of ring. With
two suppliers, which the class comment rules out, `supply` would overwrite elements
before it loses the race, and throw what line 254 says it never throws.

### CanNode

`handles` are the handles on the controller, which is on while there is one;
`running` is the task between two of its `co_yield`s, during which the bus goes on
but no other task runs. `TransmitAccess`, `Transmit` and `TransmitEnd` are the three
statements of a round of `periodic_transmit`; `Receive` is one round of the inner
loop of `can_bus_receive`, from one resumption to the next, which is also what the
blinking in between amounts to. `ProcessNext` asks the processors in turn; the
satellite attaches the sniffer only, which declines everything, and the model lets a
program attach others. Resumptions come in any order: periods are not modelled.
External: the controller's receive FIFO, of which a new frame overwrites the newest
when it is full, its mailboxes, sent in the order of the requests, and what stopping
it does, namely to lose both, but for the message on its way out. What a message
says is in `Messages`; that `satellite.cc:124` passes references to temporaries,
dead when the coroutine first runs, is undefined behaviour and in neither.

### DebugPort

`pc` is the place a `Target` has reached: `NewTarget` is its constructor,
`InitializeSwd` to `Poll` its `initialize_target`, `power_off` with `clear_errors`
share the loop `Poll`/`Abort`/`EndRound`, whose three instances differ in the bits
they look at (`Seen`, `Achieved`). A memory access is a list of commands
(`Commands`) that `SelectBank` and `SendCommand` work off. `Exchange` is
`send_command` with its retries and the word that follows; `noise` counts what the
wire spoils: a command that nobody answers, a word read with bad parity, a word
written with bad parity, a memory access that fails on the bus.

The port is external and follows the ARM debug interface specification the code
cites: it acknowledges a memory access and makes it afterwards (`RunAccess`),
answers WAIT meanwhile, answers FAULT to everything but DPIDR, CTRL/STAT and ABORT
while a sticky error is set, and keeps SELECT and sticky errors through the reset of
the line. A reply to a read of the access port carries the result of the access
before it. A Target that could not be initialized or was powered off is dropped, as
`flash_target` does; a new one may be made at any time between two calls.
`select_ap` with another access port is left out: nobody passes one but 0.

### FlashTarget

`pc` names the access that comes next in a session of `flash_target`:
`read_build_time`, `halt`, the two keys, then for each page wait, erase, wait, clear,
set up, program, poll, acknowledge and clear, at the end wait, lock and finish.
`Access` is an access that succeeds, or fails with or without an effect. That an
access which reports success took effect is what `DebugPort` shows (`WritesAreExact`,
`ReadsAreTrue`). `status` is the global `flash_operation_status`, which keeps its
value between polls and sessions. `Finish` includes the reset of the target, which
locks the flash and clears its registers. The flash controller is external: keys in
the wrong order jam it until a reset, programming needs an erased page and no
pending error, EOP is raised only under EOPIE, the bus stalls while it is busy. A
page is one of old, erased, torn (partly written, or erased partly) and new.

### Radio, RadioSettings

`Radio` is two stations with one chip each. `pc[s]` is where the program of `s` is,
`goal` the mode it is changing to, `chip` the mode of the chip and `op_mode` the
driver's note of it. `WriteOpMode` and `AssignOpMode` are the two halves of a mode
change, with interrupts between them; `Interrupt` is `handle_interrupt`. The client
sends fragments numbered modulo 2^16 (`Word`) and the server sends them back; packets
get lost and transmissions take too long, `MaxFaults` times. Two constants are
assumptions about time: `AtomicBlock`, that the platform defines
`ATOMIC_BLOCK_START` (for others `rf69hcw.h:22` leaves it empty, and TLC finds an echo
torn between two fragments), and `WindowIsShort`. `heard` and `counted` are history
variables: which fragments the server read, and at which of them it counted a loss.

`RadioSettings` has one action per setter and getter. What a getter decodes is compared
with what was asked for last. `get_modulation_scheme` is left out of that: it throws for
FSK and GFSK, because the constant of FSK is 0x00 and `(value & 0x00) != 0` is never
true. `BeginRssi` and `EndRssi` are a measurement, which lowers the threshold and puts it
back. A power set during a transmission (`PowerAnytime`) would leave the boost on in the
receiver; nothing in the repository does it.

### Spi, MockRadio

`Spi` has the bytes of each call, of the program and of the interrupt handler on the same
bus. A transaction masks the interrupt of every pin given to `using_interrupt`; with
`UsingInterrupt = FALSE`, which is what forgetting that call means, TLC finds a register
write that lands in the FIFO. The fields of a fragment are written and read as the bytes
of `fragment.h`.

`MockRadio` is what tests put in place of a radio. Arrivals and ends of transmissions are
found at the next `update()`, in the order of the code (`Update`, `Outcome`), whatever
their times. The clock that replaces another as base class leaves a `Clockable` behind
that is registered twice, and `current->first` is read before the test for `end()`;
neither changes the fate of a fragment.

### Adc, BoardIdentification, AnalogOutput, StreamingAdc

`BoardIdentification` computes the dividers from the E96 series as the code does, in
integers, and the interval of measurements of each. `Adc` is the task that reads the
board id with an interrupt that may come between any two of its statements, and the
blocking function of the satellite, which polls. `Settle` is the time the divider takes
after its pin is turned on, and `Waited` says whether the pause covers it.

In `AnalogOutput` the DAC's data register holds a value in its alignment (`Register`);
the property compares the voltage with the fraction of the full scale that was asked for.
The converter has 12 bits, so 16 bits are put out left-aligned, and the property allows for
one step of the coarser scale. Resolutions between those of the three alignments would not
reach the full scale; no program asks for one.
`adc_demo` waits for `dma_complete` only, like the board id task, so that an error leaves
it waiting.

`StreamingAdc` shows two mistakes that make up for each other. The timer's period is
divided by `CLOCK_DIVIDER`, but `ClockDivision` does not slow the counter: the trigger
comes every 125 ms and not every 500 ms. Because of that every value is measured, although
the task's clock may run up to twice as fast as the timer's; at 500 ms
(`TriggerIntervalWhole`) TLC finds a value that is not. Besides, the length given to the
stream is twice the size of the array and each transfer writes a word, so that the second
half of `BufferSize` lies behind `values_read`; the DMA flags are never looked at, and TIM2
goes on after the stream has stopped.

### Sensors

Two tasks, each with a sensor; `device` is what the sensor will tell and when, `held` the
handles. `StartupDelay` is computed from the configuration as the drivers do, in
microseconds, and the clock of `co_yield` may run `ClockRate` times too fast. A reading
that is reported good was measured since the sensor was opened, and the sensor is in
standby while its task waits for the next.

### ClockTree, Watchdog

`ClockTree` holds the steps of a speed change as a list (`todo`) that `Do` works off, so
that the CPU runs between any two of them. The PLL may not start, whose error the code
ignores; the regulator and the other oscillators, which the vendor's functions wait for,
do what they are told.

In `Watchdog` time is in tenths of a second, the unit of `reset_interval`. The watchdog's
handle lives in a task that never ends, so `disable()` and its `error()` are never
reached; `EmbeddedClock::clock()` holds the sleep timer for good; the engine's seed is
indeterminate if the generator fails. After `stop()` the watchdog resets the board, which
is how the demonstration ends.

### Simulation

`Generation` is one round of the generation thread, which holds the mutex from
`GenerateInterrupt` to `EndOfRound`; `IncrementCurrentTime`, `Cap` and `SetTime` are the
core thread moving the clock, where `Cap` takes the mutex and the other two do not.
`InterruptsAreExact` says that each generator's handler has run once for each multiple of
its interval since it was added, and never after its time.

### SwdWire, WholeFlash

`SwdWire` is the layer below `DebugPort`: each action is one clock, with what host and
target drive during it. `spoiled` is set when an acknowledgement is misread and before the
first `initialize_swd`, since nothing can be said then; `initialize_swd` clears it.

`WholeFlash` interprets each function as a `Script` of accesses of which any may be lost.
`ap_read_mem` and `ap_write_mem` set CSW and TAR anew in each call (`target.cc:258`, 292,
328, 371), so that no access depends on the increment that a block of words left on, and the
model keeps no CSW.
It shows what becomes of functions that no program calls yet. `write_entire_flash` clears
FSTPG after the first batch of a page and never sets it again, and its loop runs four
times too far, so that it can never report success. An erase with an error flag
pending is silently not done. A call that fails leaves the flash unlocked, and the keys of
the next one jam it until a reset. What holds is the direction that callers would rely
on: whatever failed before, a call that reports success has done what it says.

### Pins

`registers` are those of each port as sets of bits, `modes` what each pin was last asked
for. `SetPinMode` writes them one by one as `stm_gpio.cc` does, with its bit fields;
`PinsAreAsAsked` decodes them again. Drivers share ports: the programmer and the CAN bus
have pins next to each other.

### RingSignals, Buffers

In `RingSignals` each party gives a callback that sets a flag, or one that calls the ring
again on the caller's stack (`stack`). If both call, they drive each other until the
source is dry; otherwise a call nests at most once per page. With a single page source
and sink may wait for each other, since a partial page is announced to neither.

`Buffers` does the same to a buffer whose elements are copied in loops and to one that
uses `memcpy`, and compares all answers. Two differences are left out of `agreed`: the
sign of `compare` for elements of several bytes, and what a failed call has written
before it failed (`torn`). `offset + count - 1` that wraps around `size_t` is excluded.

### Messages, CanEcho

`Messages` builds messages as `announce.h` and `leds.h` do. The size is lost on the bus
and the identifier masked (`AsReceived`). The overwriting ring keeps the latest messages,
but `size()` and `peek()` lose track of them once it overwrites: the property reads it
by index. `LedControl` is never attached in `satellite.cc`; the model attaches it.

`CanEcho` lets the bus be disturbed at any tick. `EchoesAddUp` accounts for every
identifier: what is missing between two that were heard in turn, counted around the range
of the register, is no more than was refused or overwritten. A burst of three mailboxes and a fourth message may overrun the FIFO, which
nobody is told of. `TransmitFifoPriority` sends in the order of requests; its comment says
"lower-ID messages first". The client's `while (error_code != 0) {}` never reads the code
again, and the model starts after it.

### ParameterDomains, Identifiers

`ParameterDomains` asks builders for domains in any order, and reuses them. Ranges that
are reversed or excluded at both ends have a negative size, duplicates are counted, and
floating point domains ignore exclusion and precision; the property is about the ranges
and values for which `size()` and membership make sense.

`Identifiers` scales the words of `integer_hash` and `hash_combine` down and keeps what
makes them one-to-one: odd factors and rotations. `decode` is a loop of `DecodeNext`, and
throws for a character that is not one of the 64; a number that is too large for the word
wraps around without notice.

## Runs

| Run | Bounds | Shows |
|---|---|---|
| `scheduler` | 3 tasks, 3 slots, delays to 3, sleeps to 2 | the array runs full, tasks are added and removed before and behind the cursor; delays longer and shorter than the longest sleep |
| `clock` | SysTick every 5, sleeps to 11, long from 3, prescalers 1, 2, 4 | every rung of the prescaler ladder, sleeps shorter and longer than two SysTicks, instants in the past; at most 2 units of delay between statements, enough to move an interrupt into each gap; `MaxElapsed` is longer than any call |
| `clock_drift` | the same | finding: time counted twice |
| `peripherals` | 3 handles, a CAN controller and an I2C bus with three pins on two ports | shared ports, nesting of depth 3, copies, moves, self-assignment |
| `ring` | 1 supplier, 2 consumers, 2 pages of 2, batches to 2, 5 elements in all, both policies | the ring wraps around, batches meet the end of a page, readers race each other and the dropping supplier |
| `debug_port` | memory of 2 words of 2 values, blocks of 1 and 2 words, 2 attempts, 2 rounds, 2 spoiled words or commands | reads and writes after any earlier call that failed anywhere, over Targets in succession; two faults are enough for a failed access, its failed clean-up and what comes after |
| `debug_port_reinit` | 1 fault | finding |
| `flash` | 2 pages, 2 faults in all | sessions that fail anywhere, followed by a session that fails anywhere, followed by clean ones |
| `flash_version` | 2 pages, 1 fault | finding |
| `can_node` | 2 transmitters, FIFO, mailboxes and queue of 2, counters of the queue modulo 4, 5 frames, 3 transmissions, 3 processors on 2 places | all buffers run full, the counters wrap around, the controller stops before and not after the receiver has its handle |
| `drivers` | twenty small systems, see below | each driver does what its callers rely on |
| `imu_sign` | registers of 1, 300 and 40000, 1 failed transfer | finding |

The systems of `drivers` have between a few hundred and some hundred thousand
states each. Their bounds:

| Driver | Bounds | Enough because |
|---|---|---|
| `radio` | 4 fragments, sequence numbers modulo 3, 1 fault | numbers wrap around, a packet is lost or a transmission takes too long; 2 faults (119,000 states of this driver alone) give the same |
| `settings` | 7 powers on both sides of each step of the amplifiers, 3 lengths, 2 thresholds | lengths beyond the register, powers beyond the chip |
| `board id` | all boards, each with three voltages | each interval is tried at both ends and in the middle |
| `sensors` | 2 times, 2 averages, samples of one and two bytes, 2 failed transfers | a failure while opening and one while measuring |
| `clock tree` | all orders of the three speeds and both sleeps | complete |
| `simulation` | 2 generators of intervals 2 and 3, steps of 1, 3 and 5 to time 10 | events that coincide, and more than one in a step |
| `wire` | 3 attempts; acknowledgements may be misread at any time | retries run out |
| `pins` | the drivers of 6 groups of pins | every two that share a port |
| `ring` | 2 pages of 2, 7 elements, both policies, both kinds of callback | the ring runs full and wraps around |
| `spi` | 7 bytes to a fragment, one of payload | a frame with each field |
| `mock radio` | times to 4, a transmission takes 2, 3 fragments | arrivals before, during and after a transmission |
| `can echo` | 7 messages every 8 ms, 3 mailboxes and a FIFO of 3, identifiers modulo 6 | the mailboxes run full, a burst overruns the FIFO; larger bounds (14 messages) give the same |
| `buffers` | 2 elements of 2 bits, other buffers of 1 and 3, `size_t` modulo 16 | every range in and out of bounds |
| `messages` | 3 bytes, identifiers modulo 8, 4 types, 2 kept messages, counters modulo 4 | counters wrap around |
| `domains` | bounds 0, 1, 3, categories 2, 4 | empty, single, reversed and doubly excluded ranges |
| `identifiers` | words of 4 bits, base 8, 2 digits | all words |
| `whole flash` | 2 pages of 2 batches, 1 lost access | every access may be the lost one, before any sequence of further calls |
| `analog` | 2 channels, all values and resolutions of the demonstrations | complete |
| `watchdog` | passes of up to 0.2 s, sleeps up to 0.1 s late | the slowest pass the interval of feeding allows for |
| `streaming` | waits that end after half their time to 1/16 s late | a value is out for the shortest and the longest time |

`CHECK_DEADLOCK FALSE` is set where the system may stop: after `stop()` the
scheduler is done, the ring's counters are bounded by `MaxPointer`, and after the
last `Target` of `DebugPort` nobody uses the port. `drivers` sets it because many of
its systems end: a measurement, a simulation, a list of fragments.

### Fairness

`Scheduler`: the loop is straight-line code, so it goes on (`WF(Loop)`); tasks are
cooperative, so the running one yields or returns (`WF(GiveUpCpu)`), which is what
the design demands of a task; the clock runs (`WF(Tick)`). No fairness is assumed of
adding, removing or stopping. `EmbeddedClock`: the CPU runs its statements, pending
handlers run, and time passes however often interrupts wake the CPU (strong fairness
of `Tick`, since time does not stop).
`DebugPort`: the code goes on, the port finishes accesses and switches power, and a
Target that was dropped is followed by another. `FlashTarget`: the task is resumed
every minute, and the flash finishes what it began. That faults are bounded is an
assumption: `SessionsEnd` fails on a link that stays dead while the last status read
was busy, because the poll of `write_pages` has no limit. `CanNode`: the bus comes
free for the controller again and again; nothing is assumed of the tasks. `Radio`: the
programs go on, a pending interrupt is served and a transmission ends; nothing is
assumed of packets, which may all be lost. `Adc`: the task is resumed, and a
conversion ends. `Simulation`: both threads go on; the core thread gets the mutex
again and again (strong fairness of `Cap`), which the generation thread gives up in
every round. The other drivers have safety properties only and need no fairness.

## Findings

* `clock_drift`: `sleep_us` adds the length of a long sleep to `uwTick`, as its
  comment says, for the time in stop mode. It enters sleep mode, where SysTick
  counted that time already.
* `debug_port_reinit`: `power_on` neither looks at WDATAERR nor clears it, so one
  spoiled word locks all later Targets out.
* `flash_version`: the time stamp is written with the first page, so an interrupted
  session is not repeated.
* `imu_sign`: `bmi323_imu.cc:116` shifts the high byte of an acceleration without its
  sign, so a negative one becomes a large positive float, next to a raw value that is
  negative.

Smaller disagreements are in the models without a run of their own; those of the
drivers are in their sections above. Of the rest: `clear_errors` reports too many attempts when its last
permitted round finds no error, against its comment (`EndRound`), and two faults, a
batch that fails and the lost read of its status, make `flash_target` report success
wrongly, of which `OneFaultIsNoticed` shows that one is not enough.

## Proofs

Each theorem holds for every value of the constants that the named assumptions of the
component's module allow; what else it needs stands in its statement. Each rests on an
inductive invariant, called `IInv` where the module has only one, which was checked with
TLC on the component's run before it was proved.

`SchedulerProofs` proves for every number of tasks and slots and every choice of the
delays, from the three assumptions in `Scheduler`:

* the inductive invariant `IInv`: the type invariant, `SingleOwner` (a frame is in
  one slot), `DueIsAhead` (a task due since the pass began is still ahead of the
  cursor and still due), `WakeupCoversVisited` (the wakeup time accounts for every
  slot behind the cursor, but for `missed`) and `SleepAfterLastSlot`. The checked
  properties speak of the end of a pass; they are not inductive without what is known
  in the middle of it.
* `TypeCorrectness`, `FramesHaveOneOwner`, `SleepIsShortEnough`, `PassIsFair` follow.
* `Refinement`: under `IInv` every step maps to a step of `CooperativeTasks` or to
  none, one case per action.

`PeripheralsProofs` proves for every finite set of handles and devices and every
dependency relation, from the assumptions in `Peripherals`, that `ref_count_` is the
number of holders (`CountIsExact`), that needs are on at every instant
(`DependenciesArePowered`), and that nothing stays on unused (`NothingStaysOn`). The
invariant relates count, phase and owned handles; the count argument rests on lemmas
about cardinalities of the two kinds of holders. That nested calls end, which
needs an acyclic dependency relation, is clear from the calls and no property.

`PagedRingProofs` proves, for pages and rings of any size, any set of consumers, batches of
any length and either policy, that the ring stays sound (`RingStaysSound`) and that it
implements `BoundedFifo` (`RingIsAQueue`). The hypothesis `OneSupplier` is the class
comment's "single optional source"; with two, TLC finds elements overwritten. A loaded
pointer may be old when it is used, so the invariant says per thread what an old value is
still good for: a supplier that knows an old `read_pointer_` sees too little room, never
too much (`SupplyInv`); what a consumer has copied are the elements of the ring for as long
as `read_pointer_` is what it loaded, which is when its compare-and-swap succeeds
(`ConsumeInv`). `ElementsInPlace` ties each pointer to the number of the element behind it.
The refinement maps each swap to the queue's operation and everything else to a stutter;
the arithmetic of pages is in lemmas about `%` for any size.

`CanNodeProofs` proves, for any numbers of transmitters, processors and frames and any
sizes, that processors are offered the frames in order (`FramesAreOfferedInOrder`), that a
frame is lost only to a full buffer (`NoFrameIsLost`), and that the queue implements
`BoundedFifo` (`MessagesAreQueued`). The order of what a processor has seen is inductive
only together with the order along the whole way a frame takes: the frames in the queue
are older than those in the controller, and all of them newer than what was seen
(`FramesInOrder`, `SeenInOrder`), and `AttachedFirst` for the processors after another.
`SlotsStayInOrder` is the hypothesis that `message/ring_buffer.h` relies on silently: the
capacity divides the range of its counters, or they have not wrapped around yet. The
satellite has five places and counters of 32 bits, so for it the theorems are about the
first 2^32 frames; after that, two messages would share a place.

`FlashTargetProofs` proves for any number of pages and any number of faults that the key
register is never jammed (`KeysAreWrittenInTurn`) and that the flash changes only while the
core is halted (`CoreIsHalted`), and, for sessions with at most one fault, that a reported
success is one (`SuccessIsTrue`). Besides the steps at which the flash is locked and the
core halted, the invariant says what is true of the page in work at every step (`OnTheWay`):
it is as the last operation should have left it, or an error flag is up and the one fault
is spent. With two faults it is not true (see Findings).

`DebugPortProofs` proves, for blocks of any length in a memory of any size, any number of
attempts and retries and any number of spoiled commands and words, that the cached SELECT
is right (`BankIsRemembered`), that reads that succeed return what is in the memory
(`ReadsTellTheTruth`), and that writes that succeed are made, and failed ones made nowhere
else (`WritesArriveOrFail`). The checked properties are about the end of a call. What makes
them true is how far the port has got in the middle of one (`PortFollows`): one access
behind the commands, with the transfer address at the word that is under way, its result in
RDBUFF afterwards, and all words before it in their places, as long as no sticky error is
set. A sticky error may leave them anywhere, but then the port refuses to answer, and the
call cannot succeed; this is why a write ends with a read. `BankIsKnown` needs that only the
last `Target` reads an id, since a later one would start with the wrong idea of the bank.
`Framed`, `TransferCommands` and `NextCommand` say which command comes at which place of an
access.

`ClockProofs` proves for any resolution of the sleep timer and any prescaler, interval and
delay between statements (`PeriodAssumption`) that the wakeup is never lost for longer than
a tick (`WakeupIsNotLost`), that `sleep_us` never returns early (`SleepIsLongEnough`), and
that the clock keeps up with the time (`ClockIsNotLeftBehind`).
The race is the timer's interrupt between `is_running()` and WFI; the invariant relates the
flag, the pending interrupt and the time left (`TimerIsTold`, `TimerIsNotEarly`), and how
long the CPU may have been halted with nothing to wait for but SysTick (`HaltedNotLong`).
For the clock, `CountsTime` says that SysTick has counted all whole periods of a call, a
pending one included, and that what was lost since the load is at most a period and the
time spent since. `ClockIsNotLeftBehind` assumes `MaxLag < StopThreshold`: the statements of
a call, with the handlers that run between them, take less than the 500 us from which
`sleep_us` adds its interval by hand. The code has no such check.

`DriversProofs` is about `Drivers`, the composition. `OnlyOneMoves` says that a step of the
whole is a step or a stutter of each driver, so that an invariant of one driver, proved
about its own actions, is one of the whole:

* `RadioStaysSound`, all of `RadioIsSound`, for packets of any number of fragments and any
  numbers of faults and sequence numbers. That `op_mode_` is the chip's mode outside of a
  mode change rests on what holds within one (`Undisturbed`): no interrupt is waiting, and
  the chip is in the mode the program is about to note. That echoes are whole and a gap is
  counted (`PacketsInv`) rests on the roles (the client never listens, `RolesAreKept`), on a
  payload in the FIFO having its interrupt waiting (`PayloadIsTold`), and on the order along
  the way: what has come further, from the air over FIFO, buffer and copy to what was read,
  is not older (`FragmentsInOrder`, `PreviousIsLast`). `GapIsSeen` is the arithmetic of the
  numbers of 16 bits: after a gap of less than a full circle the next number is never the
  expected one. The theorem assumes `WindowIsShort`: no packet is sent or received between
  the moment the chip is in its new mode and the assignment of `op_mode_`, some
  microseconds later; without it TLC finds a server that never listens again. It assumes
  `AtomicBlock`, that the platform masks the interrupt during the copy of a fragment, for
  `EchoIsWhole`, which is about nothing else, and `Numbers`, that the bounds are numbers.
* `SettingsAreKept`, all of `SettingsHold`, for any `Powers` of integers, any `Lengths` of
  positive ones and any `Thresholds`, if no power is set during a transmission. The
  invariant (`SettingsInv`) ties every register to what was asked for last. `WidestFilter`
  is the arithmetic behind `FitsReceiver`: the table of bandwidths is in other units than
  the bit rate, so that the search always ends at the widest.
* `NoInterruptIsLate`, all of `InterruptsAreExact`, for any set of generators with positive
  intervals and any positive steps of the clock (`Forward`). The invariant says that the
  time the core thread is about to set lies between the present and the first event,
  although it computes that time and sets it without holding the mutex in between.

* `FragmentsHaveOneFate`, all of `FragmentsAreAccountedFor`, for any times of arrival and
  any number of fragments. The mock radio notices everything late, at its next `update()`;
  the invariant (`MockInv`) adds that what was sent is older than what is in the buffer
  (`SentBefore`) and that a buffered fragment has been in TX since `switched`
  (`InTxSince`), which makes the check of `FRAGMENT_TRANSMIT_TIME_US` one of the time that
  it really spent there. Sums over the fragments that arrive are cardinalities
  (`DroppedIsCounted`).
* `ClockStaysSound`, all of `ClockIsSound`. For the clock tree the invariant (`ClockInv`)
  says at which step of which of the three settings the program is, and what the steps
  before it have reached: a failed step leaves less, never something else (`Reached`). What
  the vendor's library refuses, such as to turn off the oscillator in use, is part of the
  effects (`StepEffects`). For the watchdog (`WatchdogInv`) the time left on its counter is
  related to the wait of the task that feeds it and to that task's place in the pass
  (`InPass`, `InSleep`): a task that becomes runnable just behind the cursor waits for the
  rest of this pass and the beginning of the next, or for a sleep that ends late. The sleep
  itself is never longer than the shortest wait (`EndPassKeeps`).
* `ReadingsStayTrue`, all of `MonitorsAreSound`, for any configuration. An open sensor is on,
  and its first result is still ahead until the first read (`Awaited`), for which the wait
  is long enough (`WaitIsEnough`); the tables that the setters search have an entry
  nearest to everything (`NearestIsAnEntry`).
* `EchoesStayCounted`, all of `EchoesAddUp`, for any number of messages. The identifiers on
  the way, from the mailboxes over the FIFO to what the server heard, grow, and each leaves
  room for the ones behind it (`InOrder`); `GapWraps` takes that to the remainders that are
  transmitted. That a message is overwritten only after all mailboxes were full needs an
  account of who is due first (`RoomIsMade`): whenever a fourth message may come, the
  server empties the FIFO before the client sends it.
* `ConversionsStaySound`, all of `ConversionsAreSound`: for board identification, that the
  power is on and settled from before the conversion until its result is in (`AdcInv`); for
  the DAC, that each data register holds what was asked for in the alignment it was asked
  for (`Faithful`) and that the converter measures while that is out (`InTheLoop`); for the
  stream, that the timer triggers before the value has been out for as long as the shortest
  `co_yield` (`StreamInv`). What no invariant is about, that the measurements of each
  configured board identify it, has no parameters and is the assumption
  `BoardsAssumption` in `Drivers`, which TLC evaluates.
* `ProgrammerStaysSound`, all of `ProgrammerIsSound`, for any number of attempts and any size
  of flash. On the wire the invariant (`WireInv`) has one case for each place in a call and
  says at which bit of a packet the target then is. What makes it recover is
  `TargetLosesIn`: wherever an earlier call left the target, the ones that `initialize_swd`
  begins with are enough to make it lose the protocol, and a target that has lost it listens
  to nothing but a line reset. For the flash (`FlashInv`) it says of each step of each
  script which of lock, mode bits and rows are settled already; an error flag on a locked
  flash means that everything is erased (`ErrorMeansErased`). `write_entire_flash` cannot
  succeed as long as fewer accesses are lost than it has batches left after the first (31
  with pages of 8, `FewFaults`), and that is proved by counting (`WritingGoesOn`).
* `SignalsAreSeen`, `SignalsAreNotMissed` for a ring of any size and all the ways to give
  callbacks. While there is a page to read and the flag of the sink is down, some call has
  `check_data_available` ahead of it (`SinkIsTold`), and that check sees the page: its read
  pointer is at most the real one. For the source it is the other way round: a check with a
  stale read pointer may find no room (`SourceIsTold`), but then the call that moved the
  pointer has its own check still to come, or a call waits on the stack for its own. A flag
  is lowered only by its owner, who then makes both checks. With a sink that calls, a call
  on the stack and the whole pages that are left are together no more than `NumPages + 2`
  (`Depth`), for each reads to the end of a page before it calls again.

`Arguments`, `Forward` and `RingSizes` in the theorems' statements are what the code's types give:
integers, unsigned lengths, positive intervals; so is `Takes`, that a transmission takes
some time, which `FRAGMENT_TRANSMIT_TIME_US` is, so is `Paces`, and `ChannelsAssumed`, that
the DAC has a first channel. Two are about the clock by which tasks wait, which may gain:
`ClockIsClose`, that its gain does not use up the 5 ms that the power monitor waits beyond
the time of its measurement, and `TriggersInTime`, that it is not as fast as the timer,
which triggers four times in the time that a value is to be out. `PassIsShort` says that a quarter of the
watchdog's interval plus the tasks of two passes, or of one and what a sleep lasts longer,
is less than that interval. The code has no such check; with slower tasks the board is reset,
as it should be.

Only model-checked:

* liveness and everything else that rests on fairness, which is out of the prover's reach:
  `EventuallyResumed` and `StopEndsStart` of the scheduler, `CallsReturn` of the clock,
  `AcceptedIsSent`, `EventuallyStamped` and `SessionsEnd`,
  `NobodyWaitsForever` of the drivers;
* the invariants of the other drivers in `Drivers`: `PinsAreAsAsked`, `TransfersAreWhole`;
* what loops over data compute for every input (`Identifiers`, `Buffers`, `Messages`): there
  is no induction over data.

## Plan

What would add most, in this order:

1. A proof that `spi` transfers are whole (`TransfersAreWhole`), the longest of the
   invariants that are left.
2. The asynchronous transfers of the I2C driver, once something calls them.
3. `Scheduler` and `EmbeddedClock` in one specification: `ClockError` is what links
   them so far.
4. `CanNode` with the flashing task beside it.

## Not modelled

* `flash_firmware` (`serial_wire/firmware.cc`): it is in no target of
  `serial_wire/BUILD.bazel` and nobody calls it. Read beside `firmware.h:10`, "Flash the
  given bytes as firmware to the target board", it does something else: it writes both
  halves of a double word to the same address (lines 81 to 91), so that no double word is
  programmed; it takes each read of FLASH_SR (lines 60 and 98) for the status, though a
  read of the access port returns the result of the access before; it looks at no error
  flag; and it never sets CSW, so that after a block of `target.cc` that left the address
  increment on, its second key goes to the next register and the flash stays locked. In
  each case it may return true. `Target` and `Flash` have replaced it.
* The wrap of TAR's auto-increment after 1 KB: `DebugPort` and `FlashTarget` let a block
  run on to its end, though `write_pages` sends blocks of 2 KB.
* The timeout of `HAL_ADC_PollForConversion`, whose result `measure_value` ignores
  (`stm32l4xx_adc.cc:199`): in `Adc` the conversion ends before it.
* The construction of the reactor: `generation_thread_` is declared before the mutex, the
  condition variable and the flag that it uses (`hal/simulation/reactor.h:31`), and so may
  run before they are initialized. `Simulation` begins after that.

* The asynchronous transfers of the I2C driver: nothing calls them, their interrupt
  handler is wired to no vector, and `read_fifo_async` forgets to store its callback.
* Timers with an interrupt of their own (`bringup/timer_demo.cc`), the 32-bit product in
  the start of LPTIM1, the width of `uwTick`, which is the vendor's.
* Encryption and telemetry of the radio, whose encoding is commented out.
* `buffer/blocking_data_sink.h` and the file sources derive from nested types that
  `RingBuffer` does not have any more; `hal/eeprom` has no implementation.
* The boards other than the satellite's (`hal/board/nucleo_*`, `feature_bringup_board`),
  of which some do not fit their base classes any more. Tables of pins are data.
* The parity of a packet and the values of its bits; `send()` computes its mask as
  `1U << 32` for a whole word. The instant within `set_pin_mode` in which MODER is
  written before OTYPER, so that an open-drain pin drives.
* Undefined behaviour: a task that removes its own slot (`system/scheduler.h:50`),
  references to temporaries (`bringup/can_tx.h:35`), a comparison with `<=` given to
  `std::sort` (`hal/simulation/reactor.h:45`), which `Simulation` reads as `<`.
* `block_core_thread_until_irq` of the reactor, whose wait has no predicate and which
  nothing calls; clocks that run by themselves; error and bus-off interrupts of the CAN
  controller, which are never activated; the self test of the IMU.
* Desktop utilities (flags, io, filesystem, strings but for base64, formatting of
  times), build files, electronics and third-party code: they keep next to no state,
  or TLC cannot say anything about them.
