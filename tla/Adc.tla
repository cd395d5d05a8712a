-------------------------------- MODULE Adc --------------------------------
(***************************************************************************)
(* hal/adc and hal/dma under the two programs that read the board id:      *)
(* the task of bringup/read_board_id.cc, whose result the DMA controller   *)
(* stores and an interrupt announces, and the blocking function of         *)
(* bringup/read_board_id.h, which the satellite calls when it starts.      *)
(***************************************************************************)
EXTENDS BoardIdentification

VARIABLES
  pc, program,     \* which program runs, and where it is
  board,           \* the board: its id and the voltages its resistors allow
  powered,         \* the id power pin is high
  settled,         \* and the voltage has settled
  adc,             \* "off", "idle", "ready" (calibrated) or "converting"
  dma,             \* dma_ is valid, so the controller has a clock
  buffer,          \* buffer[0]
  dma_complete, dma_error,
  board_id

vars == <<pc, program, board, powered, settled, adc, dma, buffer, dma_complete,
          dma_error, board_id>>
analog == <<powered, settled, adc, dma, buffer, dma_complete, dma_error>>

Pattern == 65278    \* 0xfefefefe as a uint16_t
Board(id, lowest, ideal, highest) == [id |-> id, samples |-> {lowest, ideal, highest}]

(* The boards there are; nobody knows what divides the comms boards.       *)
Boards ==
  {Board(Id(d), Lowest(d), Ideal(d), Highest(d)) : d \in Configurations}
    \union {Board(COMMS_BOARD_1, 0, 0, 113), Board(COMMS_BOARD_2, 3862, 4095, 4095)}

Init ==
  /\ pc = "start" /\ program = "none"
  /\ board = Board(UNKNOWN, 0, 0, 0)
  /\ powered = FALSE /\ settled = FALSE
  /\ adc = "off" /\ dma = FALSE /\ buffer = 0
  /\ dma_complete = FALSE /\ dma_error = FALSE
  /\ board_id = UNKNOWN

PowerUp(b, p) ==
  /\ pc = "start"
  /\ board' = b /\ program' = p
  /\ pc' = "begin"
  /\ UNCHANGED <<analog, board_id>>

-----------------------------------------------------------------------------
(* access(): enable() of the ADC takes the DMA controller, then the clock. *)
Access ==
  /\ pc = "begin" /\ adc = "off"
  /\ dma' = TRUE /\ adc' = "idle"
  /\ UNCHANGED <<pc, program, board, powered, settled, buffer, dma_complete, dma_error, board_id>>

(* calibrate_single_ended_input stops what runs. *)
Calibrate ==
  /\ pc = "begin" /\ adc # "off"
  /\ adc' = "ready"
  /\ pc' = "power"
  /\ UNCHANGED <<program, board, powered, settled, dma, buffer, dma_complete, dma_error, board_id>>

(* The task calibrates in one of 1024 iterations. *)
SkipCalibration ==
  /\ pc = "begin" /\ program = "task" /\ adc = "ready"
  /\ pc' = "power"
  /\ UNCHANGED <<program, board, analog, board_id>>

TurnOnPower ==
  /\ pc = "power"
  /\ powered' = TRUE
  /\ pc' = "settle"
  /\ UNCHANGED <<program, board, settled, adc, dma, buffer, dma_complete, dma_error, board_id>>

(* The circuit: 1ms, and 10ms, are longer than it takes. *)
Settle ==
  /\ settled # powered
  /\ settled' = powered
  /\ UNCHANGED <<pc, program, board, powered, adc, dma, buffer, dma_complete, dma_error, board_id>>

(* Fault: the circuit gets no time. *)
NoTime(pause) == pc = pause

(* co_yield and clock.wait: on return the circuit has followed its power. *)
Waited(pause) == pc = pause /\ settled = powered

(* What a conversion may find. *)
Sample(v) == IF settled THEN v \in board.samples ELSE v \in {0, 4095}
Values == board.samples \union {0, 4095}

-----------------------------------------------------------------------------
(* Fault: the flags are cleared after the start, as streaming_adc.cc does. *)
StartThenClear ==
  /\ Waited("settle") /\ program = "task" /\ adc = "ready"
  /\ dma' = TRUE
  /\ \/ adc' = "converting" /\ buffer' = Pattern
     \/ \E v \in Values : Sample(v) /\ buffer' = v /\ adc' = "ready"
  /\ dma_complete' = FALSE /\ dma_error' = FALSE
  /\ pc' = "wait"
  /\ UNCHANGED <<program, board, powered, settled, board_id>>

(* The pattern, the flags, then start_single_conversion. *)
StartSingleConversion ==
  /\ Waited("settle") /\ program = "task" /\ adc = "ready"
  /\ dma' = TRUE
  /\ buffer' = Pattern
  /\ dma_complete' = FALSE /\ dma_error' = FALSE
  /\ adc' = "converting"
  /\ pc' = "wait"
  /\ UNCHANGED <<program, board, powered, settled, board_id>>

(* handle_interrupt: HAL_DMA_IRQHandler calls one of the two callbacks. *)
TransferComplete(v) ==
  /\ adc = "converting" /\ dma
  /\ Sample(v) /\ buffer' = v
  /\ dma_complete' = TRUE
  /\ adc' = "ready"
  /\ UNCHANGED <<pc, program, board, powered, settled, dma, dma_error, board_id>>

TransferError ==
  /\ adc = "converting" /\ dma
  /\ dma_error' = TRUE
  /\ adc' = "ready"
  /\ UNCHANGED <<pc, program, board, powered, settled, dma, buffer, dma_complete, board_id>>

(* The loop looks at dma_complete only: after an error it never ends. *)
Poll == pc = "wait" /\ dma_complete

Finish ==
  /\ Poll
  /\ adc' = "ready"
  /\ powered' = FALSE
  /\ board_id' = DetermineBoardId(buffer)
  /\ pc' = "pause"
  /\ UNCHANGED <<program, board, settled, dma, buffer, dma_complete, dma_error>>

(* measure_value starts, waits and reads; nothing comes between.  The ADC  *)
(* is turned off when read_board_id returns: stop, clock, dma_.            *)
MeasureValue(v) ==
  /\ Waited("settle") /\ program = "blocking" /\ adc = "ready"
  /\ Sample(v)
  /\ board_id' = DetermineBoardId(v)
  /\ powered' = FALSE
  /\ adc' = "off" /\ dma' = FALSE
  /\ pc' = "pause"
  /\ UNCHANGED <<program, board, settled, buffer, dma_complete, dma_error>>

(* 50ms, or 10ms, until the next time *)
NextIteration ==
  /\ Waited("pause")
  /\ pc' = "begin"
  /\ UNCHANGED <<program, board, analog, board_id>>

-----------------------------------------------------------------------------
Program ==
  \/ \E b \in Boards, p \in {"task", "blocking"} : PowerUp(b, p)
  \/ Access \/ Calibrate \/ SkipCalibration \/ TurnOnPower
  \/ StartSingleConversion \/ Finish
  \/ \E v \in Values : MeasureValue(v)
  \/ NextIteration

Hardware == Settle \/ TransferError \/ \E v \in Values : TransferComplete(v)

Next == Program \/ Hardware

(* The program runs, and what the hardware has begun comes to an end. *)
Fairness == WF_vars(Program) /\ WF_vars(Hardware)

Spec == Init /\ [][Next]_vars /\ Fairness

-----------------------------------------------------------------------------
(* Each board is recognized for what it is, whatever its resistors within  *)
(* their margin: no reading is of an unsettled voltage, of a buffer nobody *)
(* wrote into, or within the range of another board.                       *)
BoardIsRecognized ==
  \/ board_id = board.id
  \/ board_id = UNKNOWN /\ pc # "pause"

(* A measurement that was started ends, unless the transfer has failed. *)
Waiting == pc = "wait" /\ ~dma_error
MeasurementEnds == Waiting ~> ~Waiting

=============================================================================
