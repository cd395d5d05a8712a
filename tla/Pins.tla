-------------------------------- MODULE Pins --------------------------------
(***************************************************************************)
(* hal/gpio: the pins of the satellite board.  Each driver holds a few     *)
(* pins, and through them the clocks of their ports; the 16 pins of a port *)
(* share its registers, of which each pin has a bit field.  A register is  *)
(* the set of its bits that are 1.  A step is a call of a driver.          *)
(***************************************************************************)
EXTENDS Naturals, Sequences

CONSTANT PinDrivers    \* the drivers that the instance looks at

VARIABLES
  enabled,       \* the drivers that are on and hold their pins
  clocked,       \* the ports that have a clock
  registers,     \* registers[port][name]
  swdio,         \* current_swdio_drive_state_
  modes,         \* history: the mode that each pin was last asked for
  levels         \* history: the level last asked for, of pins that were written

vars == <<enabled, clocked, registers, swdio, modes, levels>>

(* pinout/satellite_pinout.h: pins are <<port, pin>>. *)
DEBUG_LED == <<2, 13>>
I2C1_SCL == <<1, 6>>
I2C1_SDA == <<1, 7>>
I2C2_SCL == <<1, 10>>
I2C2_SDA == <<1, 11>>
CAN1_TX == <<0, 12>>
CAN1_RX == <<0, 11>>
CAN1_SHUTDOWN == <<0, 9>>
CAN1_SILENT == <<0, 10>>
SWDIO == <<1, 15>>
SWCLK == <<1, 13>>
NRST == <<1, 14>>
BOARD_ID_POWER == <<0, 6>>
BOARD_ID_SENSE == <<0, 7>>

Held ==
  [led        |-> {DEBUG_LED},
   can        |-> {CAN1_TX, CAN1_RX, CAN1_SHUTDOWN, CAN1_SILENT},
   i2c1       |-> {I2C1_SCL, I2C1_SDA},
   i2c2       |-> {I2C2_SCL, I2C2_SDA},
   programmer |-> {SWDIO, SWCLK, NRST},
   board_id   |-> {BOARD_ID_POWER, BOARD_ID_SENSE}]

Ports == 0..2
AllPins == UNION {Held[d] : d \in DOMAIN Held}
PortsOf(drivers) == {r[1] : r \in UNION {Held[d] : d \in drivers}}

-----------------------------------------------------------------------------
(* bits/bits.h *)
BitsOf(v) == {i \in 0..3 : (v \div 2^i) % 2 = 1}
BitMask(n, offset) == offset..(offset + n - 1)
Shift(b, offset) == {i + offset : i \in b}

GetBitField(value, n, offset) == {i - offset : i \in value \intersect BitMask(n, offset)}

ModifyBitField(value, field, n, offset) ==
  (Shift(field, offset) \intersect BitMask(n, offset)) \union (value \ BitMask(n, offset))

(* hal/register.h *)
SetField(bank, name, n, offset, v) ==
  [bank EXCEPT ![name] = ModifyBitField(@, BitsOf(v), n, offset)]

-----------------------------------------------------------------------------
(* PinMode: what drives the pin, with which type of output, which resistor. *)
PinMode(function, type, pull) == [function |-> function, type |-> type, pull |-> pull]
UNUSED == PinMode("unused", "push pull", "none")
ANALOG == PinMode("analog", "push pull", "none")
INPUT_WITH_PULL_UP == PinMode("input", "push pull", "up")
OUTPUT_PUSH_PULL == PinMode("output", "push pull", "none")
OUTPUT_PUSH_PULL_WITH_PULL_DOWN == PinMode("output", "push pull", "down")
OUTPUT_OPEN_DRAIN == PinMode("output", "open drain", "none")
OUTPUT_OPEN_DRAIN_WITH_PULL_UP == PinMode("output", "open drain", "up")
ALTERNATE_FUNCTION_PUSH_PULL == PinMode("alternate", "push pull", "none")
ALTERNATE_FUNCTION_OPEN_DRAIN_WITH_PULL_UP == PinMode("alternate", "open drain", "up")

MODER(mode) ==
  CASE mode.function = "input" -> 0
    [] mode.function = "output" -> 1
    [] mode.function = "alternate" -> 2
    [] OTHER -> 3
OTYPER(mode) == IF mode.type = "open drain" THEN 1 ELSE 0
OPUPDR(mode) == CASE mode.pull = "none" -> 0 [] mode.pull = "up" -> 1 [] OTHER -> 2

HasDriver(mode) == mode.function \notin {"input", "analog"}

(* Fault: AFRH is addressed as if it followed AFRL in one register. *)
AlternateFunctionUnsplit(bank, pin, af) ==
  SetField(bank, IF pin < 8 THEN "AFRL" ELSE "AFRH", 4, 4 * pin, af)

SetAlternateFunction(bank, pin, af) ==
  IF pin < 8 THEN SetField(bank, "AFRL", 4, 4 * pin, af)
             ELSE SetField(bank, "AFRH", 4, 4 * (pin - 8), af)

(* set_pin_mode: inputs and analog pins keep their type and speed. *)
SetPinMode(bank, pin, mode, speed, af) ==
  LET moder == SetField(bank, "MODER", 2, 2 * pin, MODER(mode))
      driver == IF ~HasDriver(mode) THEN moder
                ELSE SetField(SetField(moder, "OTYPER", 1, pin, OTYPER(mode)),
                              "OSPEEDR", 2, 2 * pin, speed)
      pull == SetField(driver, "OPUPDR", 2, 2 * pin, OPUPDR(mode))
  IN  IF mode.function = "alternate" THEN SetAlternateFunction(pull, pin, af) ELSE pull

(* BSRR: the lower half sets bits of ODR, the upper half resets them. *)
WriteBsrr(bank, value) ==
  [bank EXCEPT !.ODR = {i \in @ : i + 16 \notin value} \union (value \intersect 0..15)]

WritePin(bank, pin, on) == WriteBsrr(bank, {IF on THEN pin ELSE pin + 16})

TogglePin(bank, pin) ==
  WriteBsrr(bank, {i + 16 : i \in bank.ODR \intersect {pin}} \union ({pin} \ bank.ODR))

-----------------------------------------------------------------------------
(* Calls on pins, and what a port makes of them while it has a clock. *)
Speed == [LOW |-> 0, MEDIUM |-> 1, HIGH |-> 2]
Set(r, mode, speed, af) ==
  [call |-> "mode", pin |-> r, mode |-> [mode |-> mode, speed |-> Speed[speed], af |-> af]]
Put(r, on) == [call |-> "write", pin |-> r, on |-> on]
Toggle(r) == [call |-> "toggle", pin |-> r]

OnBank(bank, c) ==
  CASE c.call = "mode" -> SetPinMode(bank, c.pin[2], c.mode.mode, c.mode.speed, c.mode.af)
    [] c.call = "write" -> WritePin(bank, c.pin[2], c.on)
    [] OTHER -> TogglePin(bank, c.pin[2])

(* The calls of a driver, in order, while the ports in clock have one. *)
Perform(calls, clock) ==
  LET c(k) == calls[k]
      p(k) == calls[k].pin
      banks[k \in 0..Len(calls)] ==
        IF k = 0 THEN registers
        ELSE IF p(k)[1] \notin clock THEN banks[k - 1]
        ELSE [banks[k - 1] EXCEPT ![p(k)[1]] = OnBank(@, c(k))]
      mode[k \in 0..Len(calls)] ==
        IF k = 0 THEN modes
        ELSE IF c(k).call # "mode" THEN mode[k - 1]
        ELSE [mode[k - 1] EXCEPT ![p(k)] = c(k).mode]
      level[k \in 0..Len(calls)] ==
        IF k = 0 THEN levels
        ELSE IF c(k).call = "mode" THEN level[k - 1]
        ELSE [level[k - 1] EXCEPT ![p(k)] = IF c(k).call = "write" THEN c(k).on ELSE ~@]
  IN  /\ registers' = banks[Len(calls)]
      /\ modes' = mode[Len(calls)]
      /\ levels' = level[Len(calls)]

(* The debug port of the board itself has its pins from reset on. *)
Init ==
  /\ enabled = {} /\ clocked = {} /\ swdio = "float"
  /\ registers = [p \in Ports |->
       [MODER |-> CASE p = 0 -> (0..31) \ {26, 28, 30} [] p = 1 -> (0..31) \ {6, 8} [] OTHER -> 0..31,
        OTYPER |-> {},
        OSPEEDR |-> IF p = 0 THEN {26, 27} ELSE {},
        OPUPDR |-> CASE p = 0 -> {26, 29, 30} [] p = 1 -> {8} [] OTHER -> {},
        ODR |-> {}, AFRL |-> {}, AFRH |-> {}]]
  /\ modes = [r \in AllPins |-> [mode |-> UNUSED, speed |-> 0, af |-> 0]]
  /\ levels = [r \in AllPins |-> FALSE]

-----------------------------------------------------------------------------
(* What enable() does once it has its pins. *)
EnableLed == <<Set(DEBUG_LED, OUTPUT_PUSH_PULL, "LOW", 0)>>

EnableCan ==
  <<Set(CAN1_TX, ALTERNATE_FUNCTION_PUSH_PULL, "MEDIUM", 9),
    Set(CAN1_RX, ALTERNATE_FUNCTION_PUSH_PULL, "MEDIUM", 9),
    Set(CAN1_SHUTDOWN, OUTPUT_PUSH_PULL_WITH_PULL_DOWN, "LOW", 0),
    Set(CAN1_SILENT, OUTPUT_PUSH_PULL_WITH_PULL_DOWN, "LOW", 0),
    Put(CAN1_SHUTDOWN, FALSE), Put(CAN1_SILENT, FALSE)>>

EnableI2c(scl, sda) ==
  <<Set(scl, ALTERNATE_FUNCTION_OPEN_DRAIN_WITH_PULL_UP, "HIGH", 4),
    Set(sda, ALTERNATE_FUNCTION_OPEN_DRAIN_WITH_PULL_UP, "HIGH", 4)>>

EnableProgrammer == <<Set(SWCLK, OUTPUT_PUSH_PULL, "LOW", 0)>>

ReadBoardId ==
  <<Set(BOARD_ID_POWER, OUTPUT_PUSH_PULL, "LOW", 0),
    Set(BOARD_ID_SENSE, ANALOG, "LOW", 0), Put(BOARD_ID_POWER, TRUE)>>

OnEnable(d) ==
  CASE d = "led" -> EnableLed
    [] d = "can" -> EnableCan
    [] d = "i2c1" -> EnableI2c(I2C1_SCL, I2C1_SDA)
    [] d = "i2c2" -> EnableI2c(I2C2_SCL, I2C2_SDA)
    [] d = "programmer" -> EnableProgrammer
    [] d = "board_id" -> ReadBoardId

Enable(d) ==
  /\ d \notin enabled
  /\ enabled' = enabled \union {d}
  /\ clocked' = PortsOf(enabled')
  /\ Perform(OnEnable(d), clocked')
  /\ UNCHANGED swdio

(* turnaround: nothing if SWDIO is in that state already. *)
Pulse == <<Put(SWCLK, TRUE), Put(SWCLK, FALSE)>>
ToFloat == <<Set(SWDIO, INPUT_WITH_PULL_UP, "LOW", 0)>> \o Pulse
ToDrive ==
  IF swdio = "drive" THEN <<>>
  ELSE Pulse \o <<Set(SWDIO, OUTPUT_OPEN_DRAIN_WITH_PULL_UP, "LOW", 0)>>

(* What comes before disable() gives its pins up; disable() of CAN and I2C *)
(* leaves the pins as they are, and so does read_board_id.                 *)
DisableLed == <<Put(DEBUG_LED, FALSE), Set(DEBUG_LED, UNUSED, "LOW", 0)>>

DisableProgrammer ==
  ToDrive \o <<Put(SWDIO, FALSE)>> \o Pulse \o ToFloat
    \o <<Set(NRST, UNUSED, "LOW", 0), Set(SWCLK, UNUSED, "LOW", 0), Set(SWDIO, UNUSED, "LOW", 0)>>

OnDisable(d) ==
  CASE d = "led" -> DisableLed
    [] d = "programmer" -> DisableProgrammer
    [] d = "board_id" -> <<Put(BOARD_ID_POWER, FALSE)>>
    [] OTHER -> <<>>

Disable(d) ==
  /\ d \in enabled
  /\ enabled' = enabled \ {d}
  /\ Perform(OnDisable(d), clocked)
  /\ clocked' = PortsOf(enabled')
  /\ swdio' = IF d = "programmer" THEN "float" ELSE swdio

Call(d, calls) == d \in enabled /\ Perform(calls, clocked) /\ UNCHANGED <<enabled, clocked>>

(* on, off and toggle of the LED *)
Light(on) == Call("led", <<Put(DEBUG_LED, on)>>) /\ UNCHANGED swdio
ToggleLight == Call("led", <<Toggle(DEBUG_LED)>>) /\ UNCHANGED swdio

(* initiate_target_board_reset, conclude_target_board_reset *)
InitiateReset ==
  Call("programmer", <<Set(NRST, OUTPUT_OPEN_DRAIN, "LOW", 0), Put(NRST, FALSE)>>) /\ UNCHANGED swdio
ConcludeReset ==
  Call("programmer", <<Put(NRST, TRUE), Set(NRST, UNUSED, "LOW", 0)>>) /\ UNCHANGED swdio

(* A bit of send_no_parity, and the turnaround before the first. *)
SendBit(bit) ==
  /\ swdio' = "drive"
  /\ Call("programmer", ToDrive \o <<Put(SWDIO, bit)>> \o Pulse)

TurnaroundToFloat ==
  swdio = "drive" /\ swdio' = "float" /\ Call("programmer", ToFloat)

Next ==
  \/ \E d \in PinDrivers : Enable(d) \/ Disable(d)
  \/ ToggleLight \/ InitiateReset \/ ConcludeReset \/ TurnaroundToFloat
  \/ \E on \in BOOLEAN : Light(on) \/ SendBit(on)

-----------------------------------------------------------------------------
Field(r, name, n, offset) == GetBitField(registers[r[1]][name], n, offset)

(* The registers say of a pin what its driver last asked for. *)
IsAsAsked(r) ==
  LET asked == modes[r]
      p == r[2]
  IN  /\ Field(r, "MODER", 2, 2 * p) = BitsOf(MODER(asked.mode))
      /\ Field(r, "OPUPDR", 2, 2 * p) = BitsOf(OPUPDR(asked.mode))
      /\ HasDriver(asked.mode) =>
           /\ Field(r, "OTYPER", 1, p) = BitsOf(OTYPER(asked.mode))
           /\ Field(r, "OSPEEDR", 2, 2 * p) = BitsOf(asked.speed)
      /\ asked.mode.function = "alternate" =>
           Field(r, IF p < 8 THEN "AFRL" ELSE "AFRH", 4, 4 * (p % 8)) = BitsOf(asked.af)
      /\ Field(r, "ODR", 1, p) = IF levels[r] THEN {0} ELSE {}

(* Drivers never disturb each other's pins, nor the pins of the debug port *)
(* of the board, and no call is lost on a port without a clock; the LED    *)
(* and the programmer, once off, leave their pins at rest.                 *)
PinsAreAsAsked ==
  /\ \A r \in AllPins : IsAsAsked(r)
  /\ \A p \in {13, 14, 15} : Field(<<0, p>>, "MODER", 2, 2 * p) = {1}
  /\ \A p \in {3, 4} : Field(<<1, p>>, "MODER", 2, 2 * p) = {1}
  /\ \A d \in {"led", "programmer"} \ enabled, r \in AllPins :
       r \in Held[d] => modes[r].mode = UNUSED

=============================================================================
