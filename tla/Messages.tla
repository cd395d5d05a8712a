------------------------------ MODULE Messages ------------------------------
(***************************************************************************)
(* What CAN messages say (message/message.h, announce.h, leds.h): built by *)
(* one board, sent as a frame, received and processed by another, where    *)
(* CanBusSniffer keeps the latest ones in the overwriting variant of       *)
(* message/ring_buffer.h and LedControl (both in bringup/satellite.cc)     *)
(* obeys commands.                                                         *)
(***************************************************************************)
EXTENDS Naturals, Sequences

CONSTANTS
  MessageSize,     \* MTU: 8
  IdRange,         \* 0x800, a multiple of TypeRange
  TypeRange,       \* 256, the range of Type
  Capacity,        \* of latest_can_bus_messages
  CounterRange     \* the range of end_

VARIABLES
  message, said,       \* a message in the making; history: the bytes appended to it
  latest, latest_end,  \* latest_can_bus_messages
  led,                 \* led_ of LedControl: "invalid", "on", "off"
  sniffed,             \* history: the messages processed last, oldest first
  told                 \* history: what the last command to the LED said

vars == <<message, said, latest, latest_end, led, sniffed, told>>

COMMAND == 2
ANNOUNCE == 3
LED == 1
MAGNETORQUER == 2

Message(identifier, size, payload) == [identifier |-> identifier, size |-> size, payload |-> payload]
Blank == [i \in 1..MessageSize |-> 0]
retrieve_type(m) == m.identifier % TypeRange

Init ==
  /\ message = Message(0, 0, Blank) /\ said = <<>>
  /\ latest = [i \in 0..(Capacity - 1) |-> Message(0, 0, Blank)] /\ latest_end = 0
  /\ led = "invalid" /\ sniffed = <<>> /\ told = "nothing"

-----------------------------------------------------------------------------
set_type(m, type) == [m EXCEPT !.identifier = type]
clear_payload(m) == [m EXCEPT !.size = 0, !.payload = Blank]

(* Fault: memcpy always starts at the front. *)
append_payload_front(m, data) ==
  LET n == IF MessageSize - m.size < Len(data) THEN MessageSize - m.size ELSE Len(data) IN
  [m EXCEPT !.size = @ + n,
            !.payload = [i \in 1..MessageSize |-> IF i <= n THEN data[i] ELSE m.payload[i]]]

(* What does not fit is left out. *)
append_payload(m, data) ==
  LET n == IF MessageSize - m.size < Len(data) THEN MessageSize - m.size ELSE Len(data) IN
  [m EXCEPT !.size = @ + n,
            !.payload = [i \in 1..MessageSize |->
                           IF i \in (m.size + 1)..(m.size + n) THEN data[i - m.size] ELSE m.payload[i]]]

Build(type, first, second) ==
  /\ message' = append_payload(append_payload(clear_payload(set_type(message, type)), first), second)
  /\ said' = first \o second
  /\ UNCHANGED <<latest, latest_end, led, sniffed, told>>

(* The board's id has two bytes. *)
create_announce_message(mcu_id, board_id) == Build(ANNOUNCE, <<mcu_id>>, board_id)
create_led_command(turn_on) == Build(COMMAND, <<LED>>, <<IF turn_on THEN 1 ELSE 0>>)

(* Others append to what is there, or take another type of command. *)
Extend(data) ==
  /\ message' = append_payload(message, data)
  /\ said' = said \o data
  /\ UNCHANGED <<latest, latest_end, led, sniffed, told>>
create_other_command(subsystem) == Build(COMMAND, <<subsystem>>, <<1>>)

-----------------------------------------------------------------------------
(* transmit and receive: a frame has all bytes of the payload and 11 bits  *)
(* of the identifier, but not the size.                                    *)
AsReceived(m) == Message(m.identifier % IdRange, MessageSize, m.payload)

(* CanBusSniffer: push never fails. *)
Sniff(m) ==
  /\ latest' = [latest EXCEPT ![latest_end % Capacity] = m]
  /\ latest_end' = (latest_end + 1) % CounterRange

(* LedControl: an LED that was never turned on is not accessed for off. *)
IsForLed(m) == retrieve_type(m) = COMMAND /\ m.payload[1] = LED
LedControl(m) ==
  led' = CASE IsForLed(m) /\ m.payload[2] = 1 -> "on"
           [] IsForLed(m) /\ m.payload[2] = 0 /\ led # "invalid" -> "off"
           [] OTHER -> led

(* A message goes from board to board, and to both processors. *)
Deliver ==
  LET m == AsReceived(message) IN
  /\ Sniff(m) /\ LedControl(m)
  /\ sniffed' = IF Len(sniffed) < Capacity THEN Append(sniffed, m) ELSE Append(Tail(sniffed), m)
  /\ told' = CASE message.identifier # COMMAND \/ said[1] # LED -> told
               [] said[2] = 1 -> "on"
               [] said[2] = 0 -> "off"
               [] OTHER -> told
  /\ UNCHANGED <<message, said>>

Next ==
  \/ \E mcu_id \in {LED, 5} : create_announce_message(mcu_id, <<1, 2>>)
  \/ \E turn_on \in BOOLEAN : create_led_command(turn_on)
  \/ create_other_command(MAGNETORQUER)
  \/ Len(said) < MessageSize /\ Extend(<<8, 9>>)
  \/ said # <<>> /\ Deliver

Spec == Init /\ [][Next]_vars

-----------------------------------------------------------------------------
(* A payload is what was appended, as far as it fits, and zeros.  The LED  *)
(* is on exactly if the last command to it said so, whatever was sent in   *)
(* between.  The sniffer has the latest messages, also when its counter    *)
(* starts again, though size() and peek() lose track of them.              *)
MessagesAreObeyed ==
  /\ \A i \in 1..MessageSize : message.payload[i] = IF i <= Len(said) THEN said[i] ELSE 0
  /\ message.size = IF Len(said) < MessageSize THEN Len(said) ELSE MessageSize
  /\ led = "on" <=> told = "on"
  /\ \A k \in 1..Capacity :
       k <= Len(sniffed) => latest[(latest_end + CounterRange - k) % Capacity]
                              = sniffed[Len(sniffed) + 1 - k]

=============================================================================
