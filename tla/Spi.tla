-------------------------------- MODULE Spi --------------------------------
(***************************************************************************)
(* hal/spi and what the RF69HCW driver does over it: the bytes of each     *)
(* call of SpiPeripheral, one step per byte, of a program and of the       *)
(* interrupt handler that shares bus and chip with it; and the fragments   *)
(* of comms/radio/fragment.h that these bytes carry.  Radio.tla has the    *)
(* modes in full; here a transmission leaves the chip at once.             *)
(***************************************************************************)
EXTENDS Naturals, Sequences

CONSTANTS
  MTU,             \* max_mtu() of the radio
  UsingInterrupt   \* using_interrupt() was called for the pin of the radio

VARIABLES
  todo,            \* the calls that program and handler are to make, first one first
  open,            \* who is in a transaction
  selected,        \* the chip select is asserted
  command,         \* where the chip is in an access
  registers, fifo, \* of the chip
  edge,            \* the interrupt pin rose and the handler has not run
  rx_mode,         \* op_mode_ is RX
  rx_buffer, rx_buffer_valid,
  received, sent,  \* history: the frame in rx_buffer, what was sent last
  wrong            \* history: a read returned something else than the register

vars == <<todo, open, selected, command, registers, fifo, edge, rx_mode, rx_buffer,
          rx_buffer_valid, received, sent, wrong>>

Parties == {"program", "handler"}

FIFO == 0
OPMODE == 1
FRFMSB == 7
IRQFLAGS1 == 39
IRQFLAGS2 == 40
SYNCVALUE1 == 47
Registers == {OPMODE} \union FRFMSB..(FRFMSB + 2) \union {SYNCVALUE1, SYNCVALUE1 + 1}
STANDBY == 4
RX == 16
WriteMask == 128

-----------------------------------------------------------------------------
(* Fragment<MTU>.  Offsets count from 0 there, and from 1 here. *)
SENDER_ID == 1
DESTINATION_ID == 2
FRAGMENT_INDEX == 3
SEQUENCE_NUMBER == 4
HEADER_SIZE == 5

payload_size_bytes_required ==
  CASE MTU - HEADER_SIZE < 2^7 -> 1 [] MTU - HEADER_SIZE < 2^15 -> 2
    [] MTU - HEADER_SIZE < 2^23 -> 3 [] OTHER -> 4
PAYLOAD_DATA == HEADER_SIZE + payload_size_bytes_required
max_payload_size == MTU - PAYLOAD_DATA

Cleared == [i \in 1..MTU |-> 0]

set_sequence_number(d, n) ==
  [d EXCEPT ![SEQUENCE_NUMBER] = (n \div 256) % 256, ![SEQUENCE_NUMBER + 1] = n % 256]
sequence_number(d) == 256 * d[SEQUENCE_NUMBER] + d[SEQUENCE_NUMBER + 1]

(* The top bit of the index is the continuation flag. *)
set_fragment_index(d, index) ==
  [d EXCEPT ![FRAGMENT_INDEX] = index + IF @ >= 128 /\ index < 128 THEN 128 ELSE 0]
fragment_index(d) == d[FRAGMENT_INDEX] % 128
set_continuation_flag(d) == [d EXCEPT ![FRAGMENT_INDEX] = (@ % 128) + 128]
clear_continuation_flag(d) == [d EXCEPT ![FRAGMENT_INDEX] = @ % 128]
is_continued(d) == d[FRAGMENT_INDEX] >= 128

set_payload_size(d, size) ==
  [i \in 1..MTU |-> IF i \in (HEADER_SIZE + 1)..PAYLOAD_DATA
                    THEN (size \div 256^(PAYLOAD_DATA - i)) % 256 ELSE d[i]]
payload_size(d) ==
  LET size[i \in HEADER_SIZE..PAYLOAD_DATA] ==
        IF i = HEADER_SIZE THEN 0 ELSE 256 * size[i - 1] + d[i]
  IN  size[PAYLOAD_DATA]

total_length(d) == PAYLOAD_DATA + payload_size(d)

(* What a sender says of a fragment, in the order in which it says it; the *)
(* payload is all ones.                                                    *)
Fields == [sender : {1}, destination : {255}, sequence : {258}, index : {127},
           continued : BOOLEAN, size : {0, max_payload_size}]

Compose(f) ==
  LET ids == [Cleared EXCEPT ![SENDER_ID] = f.sender, ![DESTINATION_ID] = f.destination]
      flagged == IF f.continued THEN set_continuation_flag(ids) ELSE clear_continuation_flag(ids)
      indexed == set_fragment_index(flagged, f.index)
      sized == set_payload_size(set_sequence_number(indexed, f.sequence), f.size)
  IN  [i \in 1..MTU |-> IF i \in (PAYLOAD_DATA + 1)..(PAYLOAD_DATA + f.size) THEN 1 ELSE sized[i]]

FieldsOf(d) ==
  [sender |-> d[SENDER_ID], destination |-> d[DESTINATION_ID], sequence |-> sequence_number(d),
   index |-> fragment_index(d), continued |-> is_continued(d), size |-> payload_size(d)]

(* Frames on the air: whole ones, and others whose size does not fit. *)
Frames ==
  {SubSeq(Compose(f), 1, n) : f \in {g \in Fields : ~g.continued},
                              n \in {0, PAYLOAD_DATA, MTU}}

-----------------------------------------------------------------------------
(* A call: the bytes it has yet to transfer, those that came back, and its *)
(* argument: the room for a FIFO, the mode waited for, the fields sent.    *)
Call(op, a, bytes) == [op |-> op, address |-> a, bytes |-> bytes, got |-> <<>>, arg |-> 0]
Zeros(n) == [i \in 1..n |-> 0]

read(a) == Call("read", a, <<a, 0>>)
write(a, v) == Call("write", a, <<a + WriteMask, v>>)
burst_read(a, count) == Call("read", a, <<a>> \o Zeros(count))
burst_write(a, data) == Call("write", a, <<a + WriteMask>> \o data)
fifo_read(count) == [Call("fifo read", FIFO, <<FIFO, 0>>) EXCEPT !.arg = count]
fifo_write(data, count) ==
  Call("fifo write", FIFO, <<FIFO + WriteMask, count>> \o SubSeq(data, 1, count))

(* set_op_mode: the other bits of OPMODE are 0. *)
set_op_mode(mode) == <<read(OPMODE), write(OPMODE, mode),
                       [read(IRQFLAGS1) EXCEPT !.op = "poll", !.arg = mode]>>

NothingSent == [fields |-> "none", bytes |-> <<>>]

Init ==
  /\ todo = [p \in Parties |-> <<>>] /\ open = {}
  /\ selected = FALSE /\ command = [at |-> "command", address |-> 0, writing |-> FALSE]
  /\ registers = [a \in Registers |-> IF a = OPMODE THEN STANDBY ELSE 0]
  /\ fifo = <<>> /\ edge = FALSE /\ rx_mode = FALSE
  /\ rx_buffer = Cleared /\ rx_buffer_valid = FALSE
  /\ received = <<>> /\ sent = NothingSent /\ wrong = FALSE

(* The handler runs as soon as it may, and to its end. *)
Running(p) ==
  /\ todo[p] # <<>>
  /\ p = "program" => todo["handler"] = <<>> /\ (edge => p \in open)
Current(p) == Head(todo[p])

(* begin_transaction selects the chip, and keeps the handlers of registered *)
(* pins away until the transaction ends.                                    *)
Begin(p) ==
  /\ Running(p) /\ p \notin open
  /\ open' = open \union {p}
  /\ selected' = TRUE
  /\ command' = [command EXCEPT !.at = "command"]
  /\ UNCHANGED <<todo, registers, fifo, edge, rx_mode, rx_buffer, rx_buffer_valid, received, sent, wrong>>

(* The chip: a command, then registers in sequence; the FIFO stays.        *)
InData(writing) == selected /\ command.at = "data" /\ command.writing = writing

Answer ==
  IF ~InData(FALSE) THEN 0
  ELSE CASE command.address = FIFO -> IF fifo = <<>> THEN 0 ELSE Head(fifo)
         [] command.address = IRQFLAGS1 -> 128
         [] command.address = IRQFLAGS2 -> IF fifo # <<>> THEN 4 ELSE 0
         [] OTHER -> registers[command.address]

ChipTakes(byte) ==
  LET access == command.address
  IN
  /\ command' =
       CASE ~selected -> command
         [] command.at = "command" ->
              [at |-> "data", address |-> byte % WriteMask, writing |-> byte >= WriteMask]
         [] OTHER -> [command EXCEPT !.address = IF @ = FIFO THEN FIFO ELSE @ + 1]
  /\ registers' = IF InData(TRUE) /\ access \in Registers
                  THEN [registers EXCEPT ![access] = byte] ELSE registers
  /\ fifo' = CASE InData(TRUE) /\ access = FIFO -> Append(fifo, byte)
               [] InData(FALSE) /\ access = FIFO /\ fifo # <<>> -> Tail(fifo)
               [] InData(TRUE) /\ access = OPMODE /\ byte = RX -> <<>>
               [] OTHER -> fifo

(* transfer.  fifo_read learns from the first byte how many are to come.   *)
Transfer(p) ==
  LET c == Current(p)
      counted == c.op = "fifo read" /\ Len(c.got) = 1
      more == IF counted /\ Answer <= c.arg THEN Zeros(Answer) ELSE Tail(c.bytes)
  IN
  /\ Running(p) /\ p \in open /\ c.bytes # <<>>
  /\ ChipTakes(Head(c.bytes))
  /\ todo' = [todo EXCEPT ![p][1] = [c EXCEPT !.bytes = more, !.got = Append(@, Answer)]]
  /\ UNCHANGED <<open, selected, edge, rx_mode, rx_buffer, rx_buffer_valid, received, sent, wrong>>

(* ~SpiTransaction *)
EndTransaction(p) ==
  /\ Running(p) /\ p \in open /\ Current(p).bytes = <<>>
  /\ open' = open \ {p}
  /\ selected' = FALSE
  /\ UNCHANGED <<command, registers, edge>>

(* read, write and the end of set_op_mode *)
EndAccess(p) ==
  LET c == Current(p) IN
  /\ EndTransaction(p)
  /\ c.op \in {"read", "write", "poll"} /\ c.address # IRQFLAGS2
  /\ todo' = [todo EXCEPT ![p] = Tail(@)]
  /\ rx_mode' = IF c.op = "poll" THEN c.arg = RX ELSE rx_mode
  /\ wrong' = (wrong \/ (c.op = "read" /\ \E i \in 2..Len(c.got) :
                            c.got[i] # registers[c.address + i - 2]))
  /\ UNCHANGED <<fifo, rx_buffer, rx_buffer_valid, received, sent>>

(* The FIFO is written; what is in it leaves the chip. *)
EndFifoWrite ==
  /\ EndTransaction("program") /\ Current("program").op = "fifo write"
  /\ todo' = [todo EXCEPT !["program"] = Tail(@)]
  /\ sent' = [fields |-> Current("program").arg, bytes |-> fifo]
  /\ fifo' = <<>>
  /\ UNCHANGED <<rx_mode, rx_buffer, rx_buffer_valid, received, wrong>>

(* handle_interrupt has read IRQFLAGS2. *)
EndFlags ==
  LET expected == rx_mode /\ Current("handler").got[2] = 4 IN
  /\ EndTransaction("handler") /\ Current("handler").address = IRQFLAGS2
  /\ todo' = [todo EXCEPT !["handler"] =
                IF expected THEN set_op_mode(STANDBY) \o <<fifo_read(MTU)>> ELSE <<>>]
  /\ UNCHANGED <<fifo, rx_mode, rx_buffer, rx_buffer_valid, received, sent, wrong>>

(* read_fifo: what is beyond the bytes read is left from earlier frames.   *)
EndFifoRead ==
  LET bytes == SubSeq(Current("handler").got, 3, Len(Current("handler").got)) IN
  /\ EndTransaction("handler") /\ Current("handler").op = "fifo read"
  /\ todo' = [todo EXCEPT !["handler"] = <<>>]
  /\ rx_buffer' = [i \in 1..MTU |-> IF i <= Len(bytes) THEN bytes[i] ELSE rx_buffer[i]]
  /\ rx_buffer_valid' = (Len(bytes) = total_length(rx_buffer'))
  /\ received' = IF rx_buffer_valid' THEN received ELSE <<>>
  /\ UNCHANGED <<fifo, rx_mode, sent, wrong>>

-----------------------------------------------------------------------------
(* Calls of the program. *)
Start(calls) ==
  /\ todo = [p \in Parties |-> <<>>] /\ ~edge
  /\ todo' = [todo EXCEPT !["program"] = calls]
  /\ sent' = NothingSent
  /\ UNCHANGED <<open, selected, command, registers, fifo, edge, rx_mode, wrong>>

Keep == UNCHANGED <<rx_buffer, rx_buffer_valid, received>>

set_frequency_hz(frf) ==
  Start(<<write(FRFMSB, frf \div 65536), write(FRFMSB + 1, (frf \div 256) % 256),
          write(FRFMSB + 2, frf % 256)>>) /\ Keep

get_frequency_hz == Start(<<read(FRFMSB), read(FRFMSB + 1), read(FRFMSB + 2)>>) /\ Keep

set_sync_words(length) == Start(<<burst_write(SYNCVALUE1, SubSeq(<<83, 82>>, 1, length))>>) /\ Keep
read_sync_words == Start(<<burst_read(SYNCVALUE1, 2)>>) /\ Keep

set_receive_mode == ~rx_mode /\ Start(set_op_mode(RX)) /\ Keep

read_received_fragment ==
  /\ rx_buffer_valid /\ Start(<<>>)
  /\ rx_buffer_valid' = FALSE /\ received' = <<>>
  /\ UNCHANGED rx_buffer

transmit_fragment(f) ==
  LET d == Compose(f)
      load == [fifo_write(d, total_length(d)) EXCEPT !.arg = f]
  IN  Start((IF rx_mode THEN set_op_mode(STANDBY) ELSE <<>>) \o <<load>>) /\ Keep

(* A frame arrives; it does not fit into the moment between the chip being *)
(* in RX and op_mode_ saying so.                                           *)
Arrive(frame) ==
  /\ registers[OPMODE] = RX /\ rx_mode /\ fifo = <<>>
  /\ fifo' = <<Len(frame)>> \o frame
  /\ received' = frame
  /\ edge' = TRUE
  /\ UNCHANGED <<todo, open, selected, command, registers, rx_mode, rx_buffer, rx_buffer_valid, sent, wrong>>

(* Fault: transactions do not disable the interrupt. *)
InterruptUnmasked ==
  /\ edge /\ todo["handler"] = <<>>
  /\ edge' = FALSE
  /\ todo' = [todo EXCEPT !["handler"] = <<read(IRQFLAGS2)>>]
  /\ UNCHANGED <<open, selected, command, registers, fifo, rx_mode, rx_buffer, rx_buffer_valid,
                 received, sent, wrong>>

Interrupt ==
  /\ edge /\ todo["handler"] = <<>>
  /\ UsingInterrupt => open = {}
  /\ edge' = FALSE
  /\ todo' = [todo EXCEPT !["handler"] = <<read(IRQFLAGS2)>>]
  /\ UNCHANGED <<open, selected, command, registers, fifo, rx_mode, rx_buffer, rx_buffer_valid,
                 received, sent, wrong>>

Next ==
  \/ \E p \in Parties : Begin(p) \/ Transfer(p) \/ EndAccess(p)
  \/ EndFlags \/ EndFifoRead \/ EndFifoWrite
  \/ set_frequency_hz(7094275) \/ set_sync_words(2)
  \/ get_frequency_hz \/ read_sync_words \/ set_receive_mode \/ read_received_fragment
  \/ \E f \in Fields : transmit_fragment(f)
  \/ \E frame \in Frames : Arrive(frame)
  \/ Interrupt

Spec == Init /\ [][Next]_vars

-----------------------------------------------------------------------------
(* Registers are read as they are, whoever is interrupted by whom.  A      *)
(* fragment leaves the chip with its length before it and decodes to what  *)
(* its sender said; one that is available is the frame that arrived, and   *)
(* nothing of earlier ones.                                                *)
TransfersAreWhole ==
  /\ ~wrong
  /\ sent.bytes # <<>> =>
       LET d == Tail(sent.bytes) IN
       Head(sent.bytes) = Len(d) /\ total_length(d) = Len(d) /\ FieldsOf(d) = sent.fields
  /\ rx_buffer_valid /\ ~edge /\ todo["handler"] = <<>> =>
       SubSeq(rx_buffer, 1, total_length(rx_buffer)) = received

=============================================================================
