------------------------------- MODULE Radio -------------------------------
(***************************************************************************)
(* comms/radio: echo_client.cc sends numbered fragments to a Transceiver,  *)
(* the program echo_server.cc, which sends them back.  Both drive a half   *)
(* duplex RF69HCW whose mode is kept twice, in the chip and in op_mode_,   *)
(* and changed by the program and by the interrupt that the chip raises.   *)
(*                                                                         *)
(* A step of a program is one SPI transaction with the code around it: the *)
(* pin interrupt is disabled within a transaction, and is served before    *)
(* the next step.  A fragment is a count of the client, of which its       *)
(* sequence number shows the low 16 bits; where a copy can be torn, it has *)
(* a first and a last part.                                                *)
(***************************************************************************)
EXTENDS Naturals

CONSTANTS
  MaxSequence,     \* bound: the client stops after this many fragments
  Word,            \* 2^16, the values of a sequence number on the air
  MaxFaults,       \* bound: packets lost and transmissions that take too long
  AtomicBlock,     \* ATOMIC_BLOCK_START is defined by the platform, or empty
  WindowIsShort    \* no packet fits between a mode being ready and op_mode_

Stations == {"client", "server"}
Modes == {"standby", "rx", "tx"}
Sequences == 0..MaxSequence
Fragments == [first : Sequences, last : Sequences]
Whole(n) == [first |-> n, last |-> n]

VARIABLES
  pc, goal,        \* each program, and the mode change it is inside of
  op_mode,         \* op_mode_ of each driver
  chip,            \* the mode each chip is in
  flag,            \* IRQFLAGS2: "sent", "ready" or "none"
  edge,            \* the interrupt pin rose and the handler has not run
  fifo,            \* the fragment in each chip's FIFO
  buffer, valid,   \* rx_buffer_, rx_buffer_valid_ of the server
  fragment, have,  \* fragment_, have_fragment_to_transmit_ of the server
  previous,        \* previous_sequence_number_
  counted,         \* the fragments at which increment_fragments_dropped was called
  sequence,        \* sequence_number of the client
  heard,           \* history: the fragments the server has read
  faults

radio == <<op_mode, chip, flag, edge, fifo, buffer, valid>>
server == <<fragment, have, previous, counted, heard>>
vars == <<pc, goal, radio, server, sequence, faults>>

Init ==
  /\ pc = [client |-> "loop", server |-> "receive"]
  /\ goal = [s \in Stations |-> [mode |-> "standby", next |-> "loop"]]
  /\ op_mode = [s \in Stations |-> "standby"]
  /\ chip = [s \in Stations |-> "standby"]
  /\ flag = [s \in Stations |-> "none"]
  /\ edge = [s \in Stations |-> FALSE]
  /\ fifo = [s \in Stations |-> Whole(0)]
  /\ buffer = Whole(0) /\ valid = FALSE
  /\ fragment = Whole(0) /\ have = FALSE
  /\ previous = 0 /\ counted = {} /\ heard = {}
  /\ sequence = 0
  /\ faults = 0

(* The program of station s is at l and no interrupt is waiting for it. *)
At(s, l) == pc[s] = l /\ ~edge[s]

Goto(s, l) == pc' = [pc EXCEPT ![s] = l] /\ UNCHANGED goal

-----------------------------------------------------------------------------
(* set_mode_rx, set_mode_standby and set_mode_tx: nothing if op_mode_ is   *)
(* the mode already; else OPMODE is written, and op_mode_ only after the   *)
(* chip has reported MODEREADY.                                            *)
SetMode(s, m, next) ==
  /\ pc' = [pc EXCEPT ![s] = IF op_mode[s] = m THEN next ELSE "opmode"]
  /\ goal' = [goal EXCEPT ![s] = [mode |-> m, next |-> next]]

(* set_op_mode.  Leaving TX clears PACKETSENT, entering RX the FIFO. *)
WriteOpMode(s) ==
  /\ At(s, "opmode")
  /\ chip' = [chip EXCEPT ![s] = goal[s].mode]
  /\ flag' = [flag EXCEPT ![s] =
                IF chip[s] = "tx" \/ goal[s].mode = "rx" THEN "none" ELSE @]
  /\ Goto(s, "assign")
  /\ UNCHANGED <<op_mode, edge, fifo, buffer, valid, server, sequence, faults>>

AssignOpMode(s) ==
  /\ At(s, "assign")
  /\ op_mode' = [op_mode EXCEPT ![s] = goal[s].mode]
  /\ Goto(s, goal[s].next)
  /\ UNCHANGED <<chip, flag, edge, fifo, buffer, valid, server, sequence, faults>>

(* Fault: nothing keeps the handler out of the copy. *)
Unmasked(s) == FALSE

(* read_received_fragment copies rx_buffer_ inside ATOMIC_BLOCK_START. *)
Masked(s) == pc[s] = "copy" /\ AtomicBlock

(* Fault: the interrupt handler leaves RX to the program. *)
InterruptOfTransmission(s) ==
  /\ edge[s]
  /\ edge' = [edge EXCEPT ![s] = FALSE]
  /\ IF op_mode[s] = "tx" /\ flag[s] = "sent"
       THEN /\ op_mode' = [op_mode EXCEPT ![s] = "standby"]
            /\ chip' = [chip EXCEPT ![s] = "standby"]
            /\ flag' = [flag EXCEPT ![s] = "none"]
       ELSE UNCHANGED <<op_mode, chip, flag>>
  /\ UNCHANGED <<pc, goal, fifo, buffer, valid, server, sequence, faults>>

(* Fault: op_mode_ is set to standby, the chip is not. *)
InterruptForgetsChip(s) ==
  /\ edge[s]
  /\ edge' = [edge EXCEPT ![s] = FALSE]
  /\ op_mode' = [op_mode EXCEPT ![s] = "standby"]
  /\ buffer' = IF flag[s] = "ready" THEN fifo[s] ELSE buffer
  /\ valid' = (valid \/ flag[s] = "ready")
  /\ flag' = [flag EXCEPT ![s] = "none"]
  /\ UNCHANGED <<pc, goal, chip, fifo, server, sequence, faults>>

(* handle_interrupt: in TX and PACKETSENT, or in RX and PAYLOADREADY, the  *)
(* radio goes to standby; a payload is then read from the FIFO.  What does *)
(* not agree with op_mode_ is ignored, and the pin will not rise again.    *)
Interrupt(s) ==
  LET expected == \/ op_mode[s] = "tx" /\ flag[s] = "sent"
                  \/ op_mode[s] = "rx" /\ flag[s] = "ready"
      payload == expected /\ flag[s] = "ready"
  IN  /\ edge[s] /\ ~Masked(s)
      /\ edge' = [edge EXCEPT ![s] = FALSE]
      /\ op_mode' = [op_mode EXCEPT ![s] = IF expected THEN "standby" ELSE @]
      /\ chip' = [chip EXCEPT ![s] = IF expected THEN "standby" ELSE @]
      /\ flag' = [flag EXCEPT ![s] = IF expected THEN "none" ELSE @]
      /\ buffer' = IF payload THEN fifo[s] ELSE buffer
      /\ valid' = (valid \/ payload)
      /\ UNCHANGED <<pc, goal, fifo, server, sequence, faults>>

(* The chip has sent its FIFO.  The other one receives it if it has been   *)
(* listening, its FIFO is free and the packet is not lost on the way.      *)
PacketSent(s) ==
  LET r == CHOOSE t \in Stations : t # s
      hears == chip[r] = "rx" /\ flag[r] = "none" /\ (WindowIsShort => pc[r] # "assign")
  IN  /\ chip[s] = "tx" /\ flag[s] = "none"
      /\ WindowIsShort => pc[s] # "assign"
      /\ \/ /\ hears
            /\ fifo' = [fifo EXCEPT ![r] = fifo[s]]
            /\ flag' = [flag EXCEPT ![s] = "sent", ![r] = "ready"]
            /\ edge' = [edge EXCEPT ![s] = TRUE, ![r] = TRUE]
            /\ UNCHANGED faults
         \/ /\ hears => faults < MaxFaults
            /\ faults' = faults + IF hears THEN 1 ELSE 0
            /\ flag' = [flag EXCEPT ![s] = "sent"]
            /\ edge' = [edge EXCEPT ![s] = TRUE]
            /\ UNCHANGED fifo
      /\ UNCHANGED <<pc, goal, op_mode, chip, buffer, valid, server, sequence>>

-----------------------------------------------------------------------------
(* send.  A channel activity threshold of -0.5 dBm is never exceeded, and  *)
(* no program gets here while it is transmitting, so neither wait waits.   *)
BeginTransmit(s) ==
  /\ At(s, "send")
  /\ SetMode(s, "standby", "load")
  /\ UNCHANGED <<radio, server, sequence, faults>>

LoadFifo(s) ==
  /\ At(s, "load")
  /\ fifo' = [fifo EXCEPT ![s] = IF s = "client" THEN Whole(sequence) ELSE fragment]
  /\ SetMode(s, "tx", "sending")
  /\ UNCHANGED <<op_mode, chip, flag, edge, buffer, valid, server, sequence, faults>>

(* block_until_transmission_complete returned true. *)
SendSucceeds(s) ==
  /\ At(s, "sending")
  /\ op_mode[s] # "tx"
  /\ have' = IF s = "server" THEN FALSE ELSE have
  /\ Goto(s, "sent")
  /\ UNCHANGED <<radio, fragment, previous, counted, heard, sequence, faults>>

(* It ran into its timeout: the client takes its number back. *)
SendTimesOut(s) ==
  /\ At(s, "sending")
  /\ op_mode[s] = "tx"
  /\ faults < MaxFaults /\ faults' = faults + 1
  /\ sequence' = IF s = "client" THEN sequence - 1 ELSE sequence
  /\ Goto(s, "sent")
  /\ UNCHANGED <<radio, server>>

-----------------------------------------------------------------------------
(* main of the client: the next fragment, standby, one second of delay. *)
NextFragment ==
  /\ At("client", "loop")
  /\ sequence < MaxSequence
  /\ sequence' = sequence + 1
  /\ Goto("client", "send")
  /\ UNCHANGED <<radio, server, faults>>

Pause ==
  /\ At("client", "sent")
  /\ SetMode("client", "standby", "loop")
  /\ UNCHANGED <<radio, server, sequence, faults>>

(* fragment.sequence_number(), a uint16_t *)
Number(n) == n % Word

(* The sequence number does not follow the previous one, which is 0 before *)
(* the first, and again each time the numbers wrap around.                 *)
Gap(n) == Number(n) # previous + 1 /\ previous # 0

(* maybe_receive_fragment: read_received_fragment copies rx_buffer_ while  *)
(* the handler may run, unless the platform has an atomic block.  Nobody   *)
(* in reach sends under the server's own id.                               *)
ReceiveFragment ==
  /\ At("server", "receive")
  /\ IF valid THEN fragment' = [fragment EXCEPT !.first = buffer.first]
              ELSE UNCHANGED fragment
  /\ Goto("server", IF valid THEN "copy" ELSE "transmit")
  /\ UNCHANGED <<radio, have, previous, counted, heard, sequence, faults>>

FinishCopy ==
  /\ pc["server"] = "copy" /\ (edge["server"] => Masked("server"))
  /\ fragment' = [fragment EXCEPT !.last = buffer.last]
  /\ valid' = FALSE
  /\ counted' = IF Gap(fragment.first) THEN counted \union {fragment.first} ELSE counted
  /\ previous' = Number(fragment.first)
  /\ heard' = heard \union {fragment.first}
  /\ have' = TRUE
  /\ Goto("server", "transmit")
  /\ UNCHANGED <<op_mode, chip, flag, edge, fifo, buffer, sequence, faults>>

(* maybe_transmit_fragment: what failed to be sent is sent again in the    *)
(* next iteration, unless another fragment has come in between.            *)
TransmitFragment ==
  /\ At("server", "transmit")
  /\ Goto("server", IF have THEN "send" ELSE "sent")
  /\ UNCHANGED <<radio, server, sequence, faults>>

(* The end of iterate: set_receive_mode. *)
Listen ==
  /\ At("server", "sent")
  /\ SetMode("server", "rx", "receive")
  /\ UNCHANGED <<radio, server, sequence, faults>>

-----------------------------------------------------------------------------
Program(s) ==
  \/ WriteOpMode(s) \/ AssignOpMode(s)
  \/ BeginTransmit(s) \/ LoadFifo(s) \/ SendSucceeds(s)
  \/ s = "client" /\ (NextFragment \/ Pause)
  \/ s = "server" /\ (ReceiveFragment \/ FinishCopy \/ TransmitFragment \/ Listen)

Next == \E s \in Stations : Program(s) \/ SendTimesOut(s) \/ Interrupt(s) \/ PacketSent(s)

(* Programs and handlers run, and what is transmitted ends. *)
Fairness ==
  \A s \in Stations : WF_vars(Program(s)) /\ WF_vars(Interrupt(s)) /\ WF_vars(PacketSent(s))

Spec == Init /\ [][Next]_vars /\ Fairness

-----------------------------------------------------------------------------
(* Whenever a program is not inside a mode change, op_mode_ is the mode of *)
(* the chip: the handler that changes both behind the program's back never *)
(* leaves them apart.                                                      *)
ModesAgree ==
  \A s \in Stations : pc[s] \notin {"opmode", "assign"} => op_mode[s] = chip[s]

(* What the server holds, sends and counts is a fragment as it was         *)
(* received, never the beginning of one and the end of another.            *)
EchoIsWhole == have /\ pc["server"] # "copy" => fragment.first = fragment.last

(* A fragment that the server reads after one is missing was counted as a  *)
(* drop, unless the one before the gap had the number 0 or the numbers     *)
(* have come full circle in the gap.                                       *)
LossIsNoticed ==
  \A m, n \in heard :
    /\ m + 1 < n /\ \A k \in heard : k <= m \/ k >= n
    /\ Number(m) # 0 /\ n - m <= Word
    => n \in counted

(* The server always comes back to listening: no interrupt is ignored that *)
(* would have freed the FIFO, after which set_receive_mode does nothing.   *)
Listening == chip["server"] = "rx" /\ flag["server"] = "none"
NeverDeaf == []<>Listening

=============================================================================
