----------------------------- MODULE RingSignals -----------------------------
(***************************************************************************)
(* The callbacks of buffer/ring_buffer.h: every supply and consume ends by *)
(* telling the sink that a page can be read and the source that there is   *)
(* room for a page.  PagedRing.tla has the elements; here the ring is its  *)
(* two pointers, and each load or compare-and-swap of one is a step.       *)
(*                                                                         *)
(* A callback either sets a flag that its owner clears before it calls the *)
(* ring again, or makes that call itself, on the stack of the caller.      *)
(***************************************************************************)
EXTENDS Naturals, Sequences

CONSTANTS
  PageSize, NumPages,    \* PAGE_SIZE, NUM_PAGES
  Policies,              \* the values of PRIORITIZE_OLD_ELEMENTS to look at
  Styles,                \* the callbacks to look at: "signal", "call"
  MaxElements            \* all that the source has

VARIABLES
  prioritize_old, style,         \* never change
  read_pointer, write_pointer,   \* read_pointer_, write_pointer_
  connected,                     \* the parties that have set their callback
  signalled,                     \* data_needed_ and data_available_ of the parties
  stack                          \* the calls that each party's thread is in

vars == <<prioritize_old, style, read_pointer, write_pointer, connected, signalled, stack>>

Parties == {"source", "sink"}

max_buffered_elements == NumPages * PageSize
Smaller(a, b) == IF a < b THEN a ELSE b

Operation(p) == IF p = "source" THEN "supply" ELSE "consume"
Call(p, n) == [op |-> Operation(p), at |-> "load_read", n |-> n, r |-> 0, w |-> 0]

Frame(t) == stack[t][Len(stack[t])]
At(t, op, label) == stack[t] # <<>> /\ Frame(t).op = op /\ Frame(t).at = label
In(t, label) == stack[t] # <<>> /\ Frame(t).at = label

Update(t, frame) == stack' = [stack EXCEPT ![t][Len(stack[t])] = frame]
Goto(t, label) == Update(t, [Frame(t) EXCEPT !.at = label])

Available(t) == Frame(t).w - Frame(t).r

(* Each has a thread of its own if callbacks only signal; one that calls   *)
(* belongs to a program without threads.                                   *)
Init ==
  /\ prioritize_old \in Policies
  /\ style \in [Parties -> Styles]
  /\ read_pointer = 0 /\ write_pointer = 0
  /\ connected = {}
  /\ signalled = [p \in Parties |-> FALSE]
  /\ stack = [p \in Parties |-> <<>>]

Quiet == \A p \in Parties : stack[p] = <<>>

MayStart(p) ==
  /\ p \in connected
  /\ IF \A q \in Parties : style[q] = "signal" THEN stack[p] = <<>> ELSE Quiet

-----------------------------------------------------------------------------
(* set_data_needed_callback, set_data_available_callback *)
Connect(p) ==
  /\ p \notin connected /\ Quiet
  /\ connected' = connected \union {p}
  /\ stack' = [stack EXCEPT ![p] = <<[Call(p, 0) EXCEPT !.op = "connect",
                                        !.at = IF p = "source" THEN "before_needed"
                                                               ELSE "before_available"]>>]
  /\ UNCHANGED <<read_pointer, write_pointer, signalled>>

(* The owner of a flag clears it and calls; the source may have less than  *)
(* a page, the sink has room for one.                                      *)
Start(p, n) ==
  /\ MayStart(p)
  /\ p = "sink" => n = PageSize
  /\ p = "source" => write_pointer + n <= MaxElements
  /\ signalled' = [signalled EXCEPT ![p] = FALSE]
  /\ stack' = [stack EXCEPT ![p] = <<Call(p, n)>>]
  /\ UNCHANGED <<connected, read_pointer, write_pointer>>

LoadRead(t) ==
  /\ In(t, "load_read")
  /\ Update(t, [Frame(t) EXCEPT !.r = read_pointer, !.at = "load_write"])
  /\ UNCHANGED <<connected, read_pointer, write_pointer, signalled>>

LoadWrite(t) ==
  /\ In(t, "load_write")
  /\ Update(t, [Frame(t) EXCEPT !.w = write_pointer, !.at = "swap"])
  /\ UNCHANGED <<connected, read_pointer, write_pointer, signalled>>

(* compute_elements_to_accept *)
Accepted(t) ==
  LET f == Frame(t)
      fits == Smaller(PageSize - (f.w % PageSize), f.n)
  IN  IF prioritize_old THEN Smaller(max_buffered_elements - Available(t), fits)
                        ELSE Smaller(max_buffered_elements, fits)

(* The oldest elements make room, unless others have moved read_pointer_. *)
Drop(t) ==
  LET excess == Available(t) + Accepted(t) - max_buffered_elements IN
  /\ At(t, "supply", "swap") /\ Available(t) + Accepted(t) > max_buffered_elements
  /\ IF read_pointer = Frame(t).r
     THEN read_pointer' = read_pointer + excess /\ Goto(t, "publish")
     ELSE UNCHANGED read_pointer /\ Goto(t, "before_available")
  /\ UNCHANGED <<connected, write_pointer, signalled>>

Publish(t) ==
  /\ \/ At(t, "supply", "publish")
     \/ At(t, "supply", "swap") /\ Available(t) + Accepted(t) <= max_buffered_elements
  /\ write_pointer' = Frame(t).w + Accepted(t)
  /\ Goto(t, "before_available")
  /\ UNCHANGED <<connected, read_pointer, signalled>>

(* Fault: only the source hears of it when elements are consumed. *)
ConsumeUntold(t) ==
  LET f == Frame(t)
      k == Smaller(Available(t), Smaller(PageSize - (f.r % PageSize), f.n))
  IN
  /\ At(t, "consume", "swap")
  /\ read_pointer' = IF read_pointer = f.r THEN f.r + k ELSE read_pointer
  /\ Goto(t, "before_needed")
  /\ UNCHANGED <<connected, write_pointer, signalled>>

Consume(t) ==
  LET f == Frame(t)
      k == Smaller(Available(t), Smaller(PageSize - (f.r % PageSize), f.n))
  IN
  /\ At(t, "consume", "swap")
  /\ read_pointer' = IF read_pointer = f.r THEN f.r + k ELSE read_pointer
  /\ Goto(t, "before_available")
  /\ UNCHANGED <<connected, write_pointer, signalled>>

-----------------------------------------------------------------------------
(* After check_data_available comes check_data_needed, except when sink    *)
(* has just set its callback.                                              *)
Return(t) == [stack EXCEPT ![t] = SubSeq(@, 1, Len(@) - 1)]
AfterAvailable(t) ==
  IF Frame(t).op = "connect" THEN Return(t)
  ELSE [stack EXCEPT ![t][Len(stack[t])].at = "before_needed"]

(* p is called on the stack of t, whose own call goes on at rest later.    *)
Notify(p, rest, t) ==
  IF style[p] = "signal"
  THEN signalled' = [signalled EXCEPT ![p] = TRUE] /\ stack' = rest
  ELSE /\ signalled' = signalled
       /\ stack' = IF p = "source" /\ write_pointer + PageSize > MaxElements THEN rest
                   ELSE [rest EXCEPT ![t] = Append(@, Call(p, PageSize))]

CheckLoadRead(t, before, check) ==
  /\ In(t, before)
  /\ Update(t, [Frame(t) EXCEPT !.r = read_pointer, !.at = check])
  /\ UNCHANGED <<connected, read_pointer, write_pointer, signalled>>

CheckAvailable(t) ==
  /\ In(t, "available")
  /\ IF "sink" \in connected /\ write_pointer - Frame(t).r >= PageSize
     THEN Notify("sink", AfterAvailable(t), t)
     ELSE stack' = AfterAvailable(t) /\ UNCHANGED signalled
  /\ UNCHANGED <<connected, read_pointer, write_pointer>>

(* A read pointer that others have moved since leaves more elements than   *)
(* the ring can hold, and the room wraps around to a huge number.          *)
RoomFor(available) == max_buffered_elements - available >= PageSize \/ available > max_buffered_elements

CheckNeeded(t) ==
  /\ In(t, "needed")
  /\ IF "source" \in connected /\ RoomFor(write_pointer - Frame(t).r)
     THEN Notify("source", Return(t), t)
     ELSE stack' = Return(t) /\ UNCHANGED signalled
  /\ UNCHANGED <<connected, read_pointer, write_pointer>>

Next ==
  /\ UNCHANGED <<prioritize_old, style>>
  /\ \E p \in Parties :
       \/ Connect(p)
       \/ \E n \in 1..PageSize : Start(p, n)
       \/ LoadRead(p) \/ LoadWrite(p) \/ Drop(p) \/ Publish(p) \/ Consume(p)
       \/ CheckLoadRead(p, "before_available", "available") \/ CheckAvailable(p)
       \/ CheckLoadRead(p, "before_needed", "needed") \/ CheckNeeded(p)

Spec == Init /\ [][Next]_vars

-----------------------------------------------------------------------------
Elements == write_pointer - read_pointer

(* Between calls nobody waits for a callback that is due already: a flag   *)
(* is up when there is a page to read or room for one, and callbacks that  *)
(* call have drained or filled the ring; a call nests at most once per     *)
(* page, unless source and sink drive each other.                          *)
SignalsAreNotMissed ==
  /\ Quiet /\ "sink" \in connected /\ Elements >= PageSize =>
       style["sink"] = "signal" /\ signalled["sink"]
  /\ Quiet /\ "source" \in connected /\ max_buffered_elements - Elements >= PageSize =>
       IF style["source"] = "signal" THEN signalled["source"]
       ELSE write_pointer + PageSize > MaxElements
  /\ (\E p \in Parties : style[p] = "signal") =>
       \A t \in Parties : Len(stack[t]) <= NumPages + 2

=============================================================================
