------------------------------ MODULE CanNode ------------------------------
(***************************************************************************)
(* The CAN bus tasks of the satellite (bringup/satellite.cc): two that     *)
(* transmit periodically, one that receives into the message queue, one    *)
(* that processes the queue.  They share the controller through handles:   *)
(* it is stopped when the last one is dropped.                             *)
(*                                                                         *)
(* A task runs from one co_yield to the next while the bus goes on; the    *)
(* steps of a task that the bus can tell apart are actions of their own.   *)
(***************************************************************************)
EXTENDS MessageQueue

CONSTANTS
  Transmitters,    \* the tasks that run periodic_transmit
  FifoSize,        \* frames in the controller's receive FIFO (3)
  Mailboxes,       \* its transmit mailboxes (3)
  MaxFrames,       \* bound: frames that other boards send
  MaxTransmits     \* bound: calls of transmit()

ASSUME CanAssumption ==
  /\ FifoSize \in Nat \ {0} /\ Mailboxes \in Nat \ {0}
  /\ MaxFrames \in Nat /\ MaxTransmits \in Nat
  /\ "receive" \notin Transmitters

VARIABLES
  started,     \* main has called start()
  running,     \* the task in the middle of a step, or "none"
  handles,     \* the tasks that hold a handle on the controller
  submitted,   \* running has called transmit()
  fifo,        \* controller: frames received
  mailboxes,   \* controller: messages to send, in the order of the requests
  sent,        \* messages that went out on the bus
  frames,      \* frames that other boards have sent
  transmits    \* calls of transmit()

tasks == <<started, running, handles, submitted>>
bus   == <<fifo, mailboxes, sent, frames, transmits>>
vars  == <<queue, tasks, bus>>

NoFrame == 0

Contains(s, x) == \E i \in DOMAIN s : s[i] = x

Init ==
  /\ QueueInit(NoFrame)
  /\ started = FALSE /\ running = "none" /\ handles = {} /\ submitted = FALSE
  /\ fifo = <<>> /\ mailboxes = <<>> /\ sent = {} /\ frames = 0 /\ transmits = 0

(* main attaches processors, each once, and starts the scheduler. *)
Attach ==
  /\ ~started
  /\ \E p \in Processors : ~Contains(processors, p) /\ AttachProcessor(p)
  /\ started' \in BOOLEAN
  /\ UNCHANGED <<running, handles, submitted, bus>>

Resumable == started /\ running = "none"

-----------------------------------------------------------------------------
(* periodic_transmit: the handle lives as long as the call of transmit().  *)
TransmitAccess(t) ==
  /\ Resumable /\ transmits < MaxTransmits
  /\ running' = t /\ handles' = handles \union {t} /\ submitted' = FALSE
  /\ UNCHANGED <<queue, started, bus>>

(* A message that finds no empty mailbox is forgotten. *)
Transmit(t) ==
  /\ running = t /\ ~submitted
  /\ submitted' = TRUE /\ transmits' = transmits + 1
  /\ mailboxes' = IF Len(mailboxes) < Mailboxes THEN Append(mailboxes, transmits')
                                                ELSE mailboxes
  /\ UNCHANGED <<queue, started, running, handles, fifo, sent, frames>>

(* disable() of the controller: a message being sent may be completed, the *)
(* rest is lost.                                                           *)
Disable ==
  /\ fifo' = <<>> /\ mailboxes' = <<>>
  /\ sent' \in {sent} \union IF mailboxes = <<>> THEN {} ELSE {sent \union {Head(mailboxes)}}

(* Fault: the controller is stopped although another task holds a handle.  *)
TransmitEndStops(t) ==
  /\ running = t /\ submitted
  /\ handles' = handles \ {t} /\ running' = "none"
  /\ Disable
  /\ UNCHANGED <<queue, started, submitted, frames, transmits>>

TransmitEnd(t) ==
  /\ running = t /\ submitted
  /\ handles' = handles \ {t} /\ running' = "none"
  /\ IF handles' = {} THEN Disable ELSE UNCHANGED <<fifo, mailboxes, sent>>
  /\ UNCHANGED <<queue, started, submitted, frames, transmits>>

(* can_bus_receive takes its handle, after blinking, and keeps it. *)
ReceiveAccess ==
  /\ Resumable /\ "receive" \notin handles
  /\ handles' = handles \union {"receive"} /\ running' = "receive"
  /\ UNCHANGED <<queue, started, submitted, bus>>

(* Fault: the handle is dropped when there is nothing to receive. *)
ReceiveThenDrop ==
  /\ running = "receive" \/ (Resumable /\ "receive" \in handles)
  /\ running' = "none"
  /\ IF fifo = <<>> THEN /\ handles' = handles \ {"receive"} /\ UNCHANGED queue
                         /\ Disable
     ELSE /\ Enqueue(Head(fifo)) /\ fifo' = Tail(fifo)
          /\ UNCHANGED <<handles, mailboxes, sent>>
  /\ UNCHANGED <<started, submitted, frames, transmits>>

(* The task looks at the FIFO when it is resumed, and first of all when it *)
(* has taken its handle.  A message that finds the queue full is dropped.  *)
Receive ==
  /\ running = "receive" \/ (Resumable /\ "receive" \in handles)
  /\ IF fifo = <<>> THEN UNCHANGED <<queue, fifo>>
     ELSE Enqueue(Head(fifo)) /\ fifo' = Tail(fifo)
  /\ running' = "none"
  /\ UNCHANGED <<started, handles, submitted, mailboxes, sent, frames, transmits>>

(* process_messages *)
Process == Resumable /\ ProcessNext /\ UNCHANGED <<tasks, bus>>

-----------------------------------------------------------------------------
(* Another board sends a frame: the newest in a full FIFO is overwritten   *)
(* (ReceiveFifoLocked is off), and nobody listens while no handle is held. *)
FrameArrives ==
  /\ frames < MaxFrames /\ frames' = frames + 1
  /\ fifo' = IF handles = {} THEN fifo
             ELSE IF Len(fifo) < FifoSize THEN Append(fifo, frames')
             ELSE [fifo EXCEPT ![FifoSize] = frames']
  /\ UNCHANGED <<queue, tasks, mailboxes, sent, transmits>>

MessageIsSent ==
  /\ mailboxes # <<>>
  /\ sent' = sent \union {Head(mailboxes)} /\ mailboxes' = Tail(mailboxes)
  /\ UNCHANGED <<queue, tasks, fifo, frames, transmits>>

-----------------------------------------------------------------------------
Transmitting(t) == TransmitAccess(t) \/ Transmit(t) \/ TransmitEnd(t)

Next ==
  \/ Attach
  \/ \E t \in Transmitters : Transmitting(t)
  \/ ReceiveAccess \/ Receive \/ Process
  \/ FrameArrives \/ MessageIsSent

Spec == Init /\ [][Next]_vars

(* The bus comes free for the controller again and again. *)
FairSpec == Spec /\ WF_vars(MessageIsSent)

-----------------------------------------------------------------------------
(* Each processor is offered the frames in the order they came, none of    *)
(* them twice, and only those that every processor before it has seen.     *)
OfferedInOrder ==
  \A i \in 1..Len(processors) :
    LET mine == seen[processors[i]]
    IN  /\ \A k \in 1..(Len(mine) - 1) : mine[k] < mine[k + 1]
        /\ \A k \in 1..Len(mine), j \in 1..(i - 1) : Contains(seen[processors[j]], mine[k])

(* While can_bus_receive is at work a frame, once in the controller, is    *)
(* processed unless the FIFO or the queue is full: no other task stops the *)
(* controller under it, and no frame is lost between FIFO and queue.       *)
Waiting(f) == Contains(fifo, f) \/ Contains(Contents, f)

NothingLostUnlessFull ==
  [][\A f \in 1..MaxFrames :
       "receive" \in handles /\ Waiting(f) /\ ~Waiting(f)' =>
         Contains(processed', f) \/ Len(fifo) = FifoSize \/ size = QueueSize]_vars

(* "Transmit the same message periodically" (can_tx.h): a message that     *)
(* transmit() accepted while can_bus_receive is at work goes out, although *)
(* the transmitter drops its handle at once.                               *)
AcceptedIsSent ==
  \A m \in 1..MaxTransmits :
    Contains(mailboxes, m) /\ "receive" \in handles ~> m \in sent

(* The queue is a bounded queue of frames: each is processed once, in      *)
(* order, also when the counters have wrapped around.                      *)
Fifo ==
  INSTANCE BoundedFifo WITH
    Capacity <- QueueSize, Takers <- {"processors"}, Elements <- 1..MaxFrames,
    fifo <- Contents,
    taken <- [c \in {"processors"} |->
                IF processed = <<>> THEN <<>> ELSE <<processed[Len(processed)]>>]

ImplementsFifo == Fifo!Spec

=============================================================================
