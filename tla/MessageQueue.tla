---------------------------- MODULE MessageQueue ----------------------------
(***************************************************************************)
(* message::Queue over message::RingBuffer with                            *)
(* PRIORITIZE_EXISTING_ELEMENTS: a bounded queue whose messages are        *)
(* offered to a list of processors.                                        *)
(***************************************************************************)
EXTENDS Naturals, Sequences

CONSTANTS
  QueueSize,      \* MAX_QUEUE_SIZE
  MaxProcessors,  \* MAX_PROCESSORS
  Processors,     \* the processors there are
  Declining,      \* those of them that handle no message, as CanBusSniffer
  Word            \* size_t holds 0..Word-1

(* Counters that wrap around keep the slots in order only if the capacity  *)
(* divides 2^32, which the satellite's 5 does not.                         *)
ASSUME QueueAssumption ==
  /\ QueueSize \in Nat \ {0} /\ MaxProcessors \in Nat
  /\ Word \in Nat /\ QueueSize < Word
  /\ Declining \subseteq Processors

VARIABLES
  begin, end,   \* begin_, end_
  elements,     \* elements_
  processors,   \* processors_, as far as they are set
  processed,    \* history: the messages taken out
  seen          \* history: the messages offered to each processor

queue == <<begin, end, elements, processors, processed, seen>>

QueueInit(blank) ==
  /\ begin = 0 /\ end = 0
  /\ elements = [i \in 0..(QueueSize - 1) |-> blank]
  /\ processors = <<>>
  /\ processed = <<>>
  /\ seen = [p \in Processors |-> <<>>]

size == (end + Word - begin) % Word

(* attach_processor fails if all places are taken. *)
AttachProcessor(p) ==
  /\ processors' = IF Len(processors) < MaxProcessors THEN Append(processors, p)
                                                      ELSE processors
  /\ UNCHANGED <<begin, end, elements, processed, seen>>

(* Fault: one message too many is taken, over the oldest. *)
EnqueueTooMany(m) ==
  /\ IF size <= QueueSize
     THEN elements' = [elements EXCEPT ![end % QueueSize] = m] /\ end' = (end + 1) % Word
     ELSE UNCHANGED <<elements, end>>
  /\ UNCHANGED <<begin, processors, processed, seen>>

(* enqueue: a message that finds no room is refused. *)
Enqueue(m) ==
  /\ IF size < QueueSize
     THEN elements' = [elements EXCEPT ![end % QueueSize] = m] /\ end' = (end + 1) % Word
     ELSE UNCHANGED <<elements, end>>
  /\ UNCHANGED <<begin, processors, processed, seen>>

peek == elements[begin % QueueSize]

(* What processors 1..n have seen once they are offered the next message. *)
Offer(n) ==
  [p \in Processors |->
     IF \E i \in 1..n : processors[i] = p THEN Append(seen[p], peek) ELSE seen[p]]

(* How many are asked: all, or those up to the one that handles it. *)
Asked == {Len(processors)} \union {n \in DOMAIN processors : processors[n] \notin Declining}

(* Fault: a message that nobody may handle stays in the queue. *)
ProcessNextHandled ==
  /\ IF size = 0 THEN UNCHANGED <<begin, processed, seen>>
     ELSE \E n \in Asked :
            /\ seen' = Offer(n)
            /\ IF n > 0 /\ processors[n] \notin Declining
               THEN begin' = (begin + 1) % Word /\ processed' = Append(processed, peek)
               ELSE UNCHANGED <<begin, processed>>
  /\ UNCHANGED <<end, elements, processors>>

(* process_next_message: the processors are asked in turn.  The message is *)
(* dropped, handled or not.                                                *)
ProcessNext ==
  /\ IF size = 0 THEN UNCHANGED <<begin, processed, seen>>
     ELSE /\ \E n \in Asked : seen' = Offer(n)
          /\ begin' = (begin + 1) % Word
          /\ processed' = Append(processed, peek)
  /\ UNCHANGED <<end, elements, processors>>

(* The messages in the queue, oldest first. *)
Contents == [i \in 1..size |-> elements[((begin + i - 1) % Word) % QueueSize]]

=============================================================================
