------------------------------ MODULE CanEcho ------------------------------
(***************************************************************************)
(* Two boards on a CAN bus: bringup/can_bus_transmit.cc counts identifiers *)
(* up and sends each once, bringup/can_bus_receive.cc polls for messages.  *)
(* Both run one task on a scheduler; a tick is a millisecond.  While the   *)
(* bus is disturbed the controller keeps trying, and its mailboxes fill.   *)
(*                                                                         *)
(* No notification is activated (stm32l4xx_can_bus.cc:113), so neither the *)
(* handlers nor the flags of the receiver ever come into it.               *)
(***************************************************************************)
EXTENDS Naturals, Sequences

CONSTANTS
  Period,            \* the 250ms between two messages
  MaxIdentifier,     \* bound on the messages
  IdentifierRange    \* 0x800

VARIABLES
  identifier, tx_count, error_count,   \* of the client
  client, client_wait,                 \* where it is, the time until it is resumed
  mailboxes,                           \* of its controller, oldest request first
  disturbed,                           \* the bus
  fifo,                                \* RX FIFO 0 of the server's controller
  rx_count,                            \* of the server
  server, server_wait,
  received,                            \* history: what the server took for identifiers
  overruns, jams                       \* history: messages overwritten; times that all
                                       \* mailboxes became full

sender == <<identifier, tx_count, error_count, client, client_wait>>
receiver == <<rx_count, server, server_wait, received>>
vars == <<sender, mailboxes, disturbed, fifo, receiver, overruns, jams>>

Mailboxes == 3
FifoSize == 3
Lit == 2             \* the LED shows a message for 2ms

(* enable() has started both controllers, and error_code() was 0. *)
Init ==
  /\ identifier = 0 /\ tx_count = 0 /\ error_count = 0
  /\ client = "transmit" /\ client_wait = 0
  /\ mailboxes = <<>> /\ disturbed \in BOOLEAN /\ fifo = <<>>
  /\ rx_count = 0 /\ server = "poll" /\ server_wait = 0
  /\ received = <<>> /\ overruns = 0 /\ jams = 0

-----------------------------------------------------------------------------
(* Fault: the status of HAL_CAN_AddTxMessage is not looked at. *)
transmitUnchecked(id, accepted) ==
  /\ accepted
  /\ mailboxes' = IF Len(mailboxes) < Mailboxes
                  THEN Append(mailboxes, id % IdentifierRange) ELSE mailboxes
  /\ jams' = IF Len(mailboxes) = Mailboxes - 1 THEN jams + 1 ELSE jams

(* HAL_CAN_AddTxMessage: requests are served in order, the meaning of      *)
(* TransmitFifoPriority; its comment has it that lower identifiers are.    *)
transmit(id, accepted) ==
  /\ accepted = (Len(mailboxes) < Mailboxes)
  /\ mailboxes' = IF accepted THEN Append(mailboxes, id % IdentifierRange) ELSE mailboxes
  /\ jams' = IF accepted /\ Len(mailboxes) = Mailboxes - 1 THEN jams + 1 ELSE jams

Transmit ==
  /\ client = "transmit" /\ client_wait = 0 /\ identifier < MaxIdentifier
  /\ identifier' = identifier + 1
  /\ \E accepted \in BOOLEAN :
       /\ transmit(identifier', accepted)
       /\ tx_count' = tx_count + IF accepted THEN 1 ELSE 0
       /\ error_count' = error_count + IF accepted THEN 0 ELSE 1
  /\ client' = "lit" /\ client_wait' = Lit
  /\ UNCHANGED <<disturbed, fifo, receiver, overruns>>

Pause ==
  /\ client = "lit" /\ client_wait = 0
  /\ client' = "transmit" /\ client_wait' = Period
  /\ UNCHANGED <<identifier, tx_count, error_count, mailboxes, disturbed, fifo, receiver, overruns, jams>>

(* A frame on the bus: ReceiveFifoLocked is off, so a full FIFO loses its  *)
(* newest message.                                                         *)
Frame ==
  /\ ~disturbed /\ mailboxes # <<>>
  /\ mailboxes' = Tail(mailboxes)
  /\ fifo' = IF Len(fifo) < FifoSize THEN Append(fifo, Head(mailboxes))
             ELSE [fifo EXCEPT ![FifoSize] = Head(mailboxes)]
  /\ overruns' = overruns + IF Len(fifo) < FifoSize THEN 0 ELSE 1
  /\ UNCHANGED <<sender, disturbed, receiver, jams>>

available_message_count == Len(fifo)

(* receive: it fails for an empty FIFO only, so rx_error_count stays 0.    *)
(* The task goes on with the next message when it has shown this one.      *)
Receive ==
  /\ server_wait = 0 /\ available_message_count > 0
  /\ received' = Append(received, Head(fifo))
  /\ fifo' = Tail(fifo)
  /\ rx_count' = rx_count + 1
  /\ server' = "lit" /\ server_wait' = Lit
  /\ UNCHANGED <<sender, mailboxes, disturbed, overruns, jams>>

Poll ==
  /\ server_wait = 0 /\ available_message_count = 0
  /\ server' = "poll" /\ server_wait' = 1
  /\ UNCHANGED <<sender, mailboxes, disturbed, fifo, rx_count, received, overruns, jams>>

(* The 1Mbit/s of the bus are enough for all mailboxes in a millisecond.   *)
Less(n) == IF n = 0 THEN 0 ELSE n - 1
Tick ==
  /\ client_wait > 0 /\ server_wait > 0
  /\ disturbed \/ mailboxes = <<>>
  /\ client_wait' = Less(client_wait) /\ server_wait' = Less(server_wait)
  /\ disturbed' \in BOOLEAN
  /\ UNCHANGED <<identifier, tx_count, error_count, client, mailboxes, fifo, rx_count,
                 server, received, overruns, jams>>

Next == Transmit \/ Pause \/ Frame \/ Receive \/ Poll \/ Tick

Spec == Init /\ [][Next]_vars

-----------------------------------------------------------------------------
(* The boards' counters add up: every identifier was refused, is on its    *)
(* way, was received or overwritten, in order and never twice.  Messages   *)
(* are overwritten only behind a disturbance that filled all mailboxes,    *)
(* and then at most one: the FIFO has room for what they hold.             *)
EchoesAddUp ==
  LET way == received \o fifo \o mailboxes IN
  /\ tx_count + error_count = identifier
  /\ rx_count = Len(received) /\ tx_count = Len(way) + overruns
  /\ \A i \in 1..(Len(way) - 1) :
       (way[i + 1] + IdentifierRange - way[i]) % IdentifierRange
         \in {d % IdentifierRange : d \in 1..(1 + error_count + overruns)}
  /\ overruns <= jams

=============================================================================
