---------------------------- MODULE BoundedFifo ----------------------------
(***************************************************************************)
(* What a ring buffer promises: a bounded first-in first-out queue whose   *)
(* operations are atomic, whoever calls them at the same time.             *)
(***************************************************************************)
EXTENDS Naturals, Sequences

CONSTANTS Capacity, Takers, Elements

VARIABLES
  fifo,    \* the elements, oldest first
  taken    \* what each taker's last successful call returned

vars == <<fifo, taken>>

Init == fifo = <<>> /\ taken = [c \in Takers |-> <<>>]

(* Some elements are appended, in order, if there is room for all. *)
Put ==
  /\ \E n \in 1..(Capacity - Len(fifo)) :
       /\ Len(fifo') = Len(fifo) + n
       /\ \A i \in DOMAIN fifo' : fifo'[i] \in Elements
       /\ SubSeq(fifo', 1, Len(fifo)) = fifo
  /\ UNCHANGED taken

(* A taker removes the oldest elements and gets exactly those. *)
Take(c) ==
  \E n \in 1..Len(fifo) :
    /\ taken' = [taken EXCEPT ![c] = SubSeq(fifo, 1, n)]
    /\ fifo' = SubSeq(fifo, n + 1, Len(fifo))

(* The oldest elements are discarded unread. *)
Discard ==
  /\ \E n \in 1..Len(fifo) : fifo' = SubSeq(fifo, n + 1, Len(fifo))
  /\ UNCHANGED taken

Next == Put \/ Discard \/ \E c \in Takers : Take(c)

Spec == Init /\ [][Next]_vars

=============================================================================
