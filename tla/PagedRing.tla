----------------------------- MODULE PagedRing -----------------------------
(***************************************************************************)
(* The lock-free paged RingBuffer of buffer/ring_buffer.h, one action per  *)
(* access to shared memory: the loads of the two pointers, the copy of one *)
(* element, the compare-and-swap of a pointer.                             *)
(*                                                                         *)
(* Element number n of supplier s is <<s, n>>.  The callbacks are left     *)
(* out: they run after an operation and only call other operations.        *)
(***************************************************************************)
EXTENDS Naturals, Sequences

CONSTANTS
  Suppliers, Consumers,   \* the threads that call supply; consume and pop
  PageSize, NumPages,     \* PAGE_SIZE, NUM_PAGES
  Policies,               \* the values of PRIORITIZE_OLD_ELEMENTS to look at
  Word,                   \* size_t holds 0..Word-1
  MaxBatch,               \* bound on num_elements of one call
  MaxPointer,             \* bound on write_pointer_ (for TLC)
  Blank                   \* a default-constructed element

ASSUME SizeAssumption ==
  /\ PageSize \in Nat \ {0}
  /\ NumPages \in Nat \ {0}
  /\ Word \in Nat
  /\ 2 * NumPages * PageSize + MaxPointer < Word
ASSUME PolicyAssumption == Policies \subseteq BOOLEAN
ASSUME BoundAssumption == MaxBatch \in Nat /\ MaxPointer \in Nat

VARIABLES
  prioritize_old,                \* PRIORITIZE_OLD_ELEMENTS, which never changes
  read_pointer, write_pointer,   \* read_pointer_, write_pointer_
  buffers,                       \* buffers_[page][offset]
  pc,                            \* where each thread is in its call
  reg,                           \* its local variables
  sent,                          \* elements each supplier was told it supplied
  taken,                         \* what each consumer's last consume returned
  gone                           \* history: elements delivered, popped or dropped

vars == <<prioritize_old, read_pointer, write_pointer, buffers, pc, reg, sent, taken, gone>>

Threads == Suppliers \union Consumers

max_buffered_elements == NumPages * PageSize

Page(pointer)   == (pointer \div PageSize) % NumPages
Offset(pointer) == pointer % PageSize

Smaller(a, b) == IF a < b THEN a ELSE b

(* Unsigned subtraction. *)
Minus(a, b) == (a + Word - b) % Word

(* Locals: the pointers loaded, num_elements, the number of elements the   *)
(* call will move, and those moved so far.                                 *)
NoLocals == [r |-> 0, w |-> 0, n |-> 0, k |-> 0, data |-> <<>>]

Available(t) == Minus(reg[t].w, reg[t].r)

Go(t, label) == pc' = [pc EXCEPT ![t] = label]

(* The call of t returns; its locals are dead. *)
Finish(t) == Go(t, "idle") /\ reg' = [reg EXCEPT ![t] = NoLocals]

At(pointer) == buffers[Page(pointer)][Offset(pointer)]

-----------------------------------------------------------------------------
Init ==
  /\ prioritize_old \in Policies
  /\ read_pointer = 0
  /\ write_pointer = 0
  /\ buffers = [p \in 0..(NumPages - 1) |-> [o \in 0..(PageSize - 1) |-> Blank]]
  /\ pc = [t \in Threads |-> "idle"]
  /\ reg = [t \in Threads |-> NoLocals]
  /\ sent = [s \in Suppliers |-> 0]
  /\ taken = [c \in Consumers |-> <<>>]
  /\ gone = {}

(* supply(n, src): the load of read_pointer_. *)
Supply(s, n) ==
  /\ pc[s] = "idle"
  /\ write_pointer + n <= MaxPointer
  /\ reg' = [reg EXCEPT ![s] = [NoLocals EXCEPT !.r = read_pointer, !.n = n]]
  /\ Go(s, "supply_load")
  /\ UNCHANGED <<read_pointer, write_pointer, buffers, sent, taken, gone>>

(* compute_elements_to_accept *)
ElementsToAccept(n, w, available) ==
  LET fits == Smaller(PageSize - Offset(w), n)
  IN  IF prioritize_old
      THEN Smaller(Minus(max_buffered_elements, available), fits)
      ELSE Smaller(max_buffered_elements, fits)

SupplyLoadWrite(s) ==
  LET available == Minus(write_pointer, reg[s].r)
      k == ElementsToAccept(reg[s].n, write_pointer, available)
  IN
  /\ pc[s] = "supply_load"
  /\ IF k = 0
     THEN Finish(s)
     ELSE /\ reg' = [reg EXCEPT ![s].w = write_pointer, ![s].k = k]
          /\ Go(s, IF available + k <= max_buffered_elements THEN "supply_write"
                   ELSE IF prioritize_old THEN "logic_error" ELSE "supply_drop")
  /\ UNCHANGED <<read_pointer, write_pointer, buffers, sent, taken, gone>>

(* Fault: one element too few is dropped. *)
DropTooFew(s) ==
  LET new_read == reg[s].r + Available(s) + reg[s].k - max_buffered_elements - 1
  IN
  /\ pc[s] = "supply_drop"
  /\ IF read_pointer = reg[s].r
     THEN /\ read_pointer' = new_read
          /\ gone' = gone \union {At(i) : i \in read_pointer..(new_read - 1)}
          /\ Go(s, "supply_write")
          /\ UNCHANGED reg
     ELSE Finish(s) /\ UNCHANGED <<read_pointer, gone>>
  /\ UNCHANGED <<write_pointer, buffers, sent, taken>>

(* Make room by dropping the oldest elements, unless a reader moved.       *)
DropOldest(s) ==
  LET new_read == reg[s].r + Available(s) + reg[s].k - max_buffered_elements
  IN
  /\ pc[s] = "supply_drop"
  /\ IF read_pointer = reg[s].r
     THEN /\ read_pointer' = new_read
          /\ gone' = gone \union {At(i) : i \in read_pointer..(new_read - 1)}
          /\ Go(s, "supply_write")
          /\ UNCHANGED reg
     ELSE Finish(s) /\ UNCHANGED <<read_pointer, gone>>
  /\ UNCHANGED <<write_pointer, buffers, sent, taken>>

(* write_array, element by element. *)
WriteElement(s) ==
  LET i == Len(reg[s].data)
      element == <<s, sent[s] + i + 1>>
  IN
  /\ pc[s] = "supply_write"
  /\ buffers' = [buffers EXCEPT ![Page(reg[s].w)][Offset(reg[s].w) + i] = element]
  /\ reg' = [reg EXCEPT ![s].data = Append(@, element)]
  /\ Go(s, IF i + 1 = reg[s].k THEN "supply_publish" ELSE "supply_write")
  /\ UNCHANGED <<read_pointer, write_pointer, sent, taken, gone>>

(* The new write pointer makes the elements available, unless another      *)
(* supplier was faster.                                                    *)
Publish(s) ==
  /\ pc[s] = "supply_publish"
  /\ IF write_pointer = reg[s].w
     THEN /\ write_pointer' = reg[s].w + reg[s].k
          /\ sent' = [sent EXCEPT ![s] = @ + reg[s].k]
     ELSE UNCHANGED <<write_pointer, sent>>
  /\ Finish(s)
  /\ UNCHANGED <<read_pointer, buffers, taken, gone>>

-----------------------------------------------------------------------------
(* consume(n, dest): the load of read_pointer_. *)
Consume(c, n) ==
  /\ pc[c] = "idle"
  /\ reg' = [reg EXCEPT ![c] = [NoLocals EXCEPT !.r = read_pointer, !.n = n]]
  /\ Go(c, "consume_load")
  /\ UNCHANGED <<read_pointer, write_pointer, buffers, sent, taken, gone>>

ConsumeLoadWrite(c) ==
  LET k == Smaller(Minus(write_pointer, reg[c].r),
                   Smaller(PageSize - Offset(reg[c].r), reg[c].n))
  IN
  /\ pc[c] = "consume_load"
  /\ IF k = 0
     THEN Finish(c)
     ELSE /\ reg' = [reg EXCEPT ![c].w = write_pointer, ![c].k = k]
          /\ Go(c, "consume_read")
  /\ UNCHANGED <<read_pointer, write_pointer, buffers, sent, taken, gone>>

(* read_array, element by element. *)
ReadElement(c) ==
  LET i == Len(reg[c].data)
  IN
  /\ pc[c] = "consume_read"
  /\ reg' = [reg EXCEPT ![c].data =
               Append(@, buffers[Page(reg[c].r)][Offset(reg[c].r) + i])]
  /\ Go(c, IF i + 1 = reg[c].k THEN "consume_release" ELSE "consume_read")
  /\ UNCHANGED <<read_pointer, write_pointer, buffers, sent, taken, gone>>

(* Fault: the elements are returned although the swap failed. *)
ReleaseUnchecked(c) ==
  /\ pc[c] = "consume_release"
  /\ read_pointer' = IF read_pointer = reg[c].r THEN reg[c].r + reg[c].k ELSE read_pointer
  /\ taken' = [taken EXCEPT ![c] = reg[c].data]
  /\ gone' = gone \union {reg[c].data[i] : i \in DOMAIN reg[c].data}
  /\ Finish(c)
  /\ UNCHANGED <<write_pointer, buffers, sent>>

(* The elements copied count only if nobody moved read_pointer_ meanwhile. *)
Release(c) ==
  /\ pc[c] = "consume_release"
  /\ IF read_pointer = reg[c].r
     THEN /\ read_pointer' = reg[c].r + reg[c].k
          /\ taken' = [taken EXCEPT ![c] = reg[c].data]
          /\ gone' = gone \union {reg[c].data[i] : i \in DOMAIN reg[c].data}
     ELSE UNCHANGED <<read_pointer, taken, gone>>
  /\ Finish(c)
  /\ UNCHANGED <<write_pointer, buffers, sent>>

(* pop(): the same without the copy. *)
Pop(c) ==
  /\ pc[c] = "idle"
  /\ reg' = [reg EXCEPT ![c] = [NoLocals EXCEPT !.r = read_pointer, !.n = 1]]
  /\ Go(c, "pop_load")
  /\ UNCHANGED <<read_pointer, write_pointer, buffers, sent, taken, gone>>

PopLoadWrite(c) ==
  /\ pc[c] = "pop_load"
  /\ IF write_pointer = reg[c].r
     THEN Finish(c)
     ELSE /\ reg' = [reg EXCEPT ![c].w = write_pointer, ![c].k = 1]
          /\ Go(c, "pop_release")
  /\ UNCHANGED <<read_pointer, write_pointer, buffers, sent, taken, gone>>

PopRelease(c) ==
  /\ pc[c] = "pop_release"
  /\ IF read_pointer = reg[c].r
     THEN /\ read_pointer' = reg[c].r + 1
          /\ gone' = gone \union {At(read_pointer)}
     ELSE UNCHANGED <<read_pointer, gone>>
  /\ Finish(c)
  /\ UNCHANGED <<write_pointer, buffers, sent, taken>>

-----------------------------------------------------------------------------
Supplying(s) ==
  \/ \E n \in 1..MaxBatch : Supply(s, n)
  \/ SupplyLoadWrite(s)
  \/ DropOldest(s)
  \/ WriteElement(s)
  \/ Publish(s)

Consuming(c) ==
  \/ \E n \in 1..MaxBatch : Consume(c, n)
  \/ ConsumeLoadWrite(c)
  \/ ReadElement(c)
  \/ Release(c)
  \/ Pop(c)
  \/ PopLoadWrite(c)
  \/ PopRelease(c)

Next ==
  /\ (\E s \in Suppliers : Supplying(s)) \/ (\E c \in Consumers : Consuming(c))
  /\ UNCHANGED prioritize_old

Spec == Init /\ [][Next]_vars

-----------------------------------------------------------------------------
Elements == Suppliers \X (1..MaxPointer)

(* The elements between the pointers, oldest first. *)
Contents == [i \in 1..(write_pointer - read_pointer) |-> At(read_pointer + i - 1)]

(* The ring never holds more than its capacity, nor fewer than nothing,    *)
(* although no operation reads the two pointers together.                  *)
PointersInRange ==
  /\ read_pointer <= write_pointer
  /\ write_pointer - read_pointer <= max_buffered_elements

(* supply "returns the number of elements actually copied into the         *)
(* RingBuffer" (ring_buffer.h): what a supplier was told it supplied is in *)
(* the ring until it is consumed, popped or dropped.                       *)
SuppliedIsKept ==
  \A s \in Suppliers : \A n \in 1..sent[s] :
    \/ <<s, n>> \in gone
    \/ \E i \in DOMAIN Contents : Contents[i] = <<s, n>>

(* supply with PRIORITIZE_OLD_ELEMENTS throws if "elements_supplied should *)
(* never have a value that makes this true" (ring_buffer.h) fails.         *)
NeverThrows == \A s \in Suppliers : pc[s] # "logic_error"

(* Between any two accesses to shared memory the ring holds what it ought  *)
(* to, within its bounds.                                                  *)
RingIsSound == PointersInRange /\ SuppliedIsKept /\ NeverThrows

(* Calls that overlap act as if each happened at once: the lock-free ring  *)
(* is a bounded queue, and a consumer gets the elements that were oldest   *)
(* at the instant its call took effect.                                    *)
Fifo ==
  INSTANCE BoundedFifo WITH
    Capacity <- max_buffered_elements, Takers <- Consumers, fifo <- Contents

ImplementsFifo == Fifo!Spec

=============================================================================
