---------------------------- MODULE Peripherals ----------------------------
(***************************************************************************)
(* The RAII power management of hal/peripheral.h: a Peripheral is enabled  *)
(* by its first Functional handle and disabled by its last.  A peripheral  *)
(* may itself own handles, which its enable() takes and its disable()      *)
(* gives up: a CAN controller owns its pins (hal/can_bus/stm32l4xx_can_bus *)
(* .cc), a pin its port (hal/gpio/gpio.h), a low-power timer the LSI       *)
(* oscillator (hal/timer/stm32l4xx_timer.cc).                              *)
(*                                                                         *)
(* enable() and disable() nest.  They are taken one inner call at a time,  *)
(* because the interrupt handlers see what lies in between; the peripheral *)
(* whose body runs is the one in transition none of whose needs is.        *)
(***************************************************************************)
EXTENDS Naturals, FiniteSets

CONSTANTS
  Handles,       \* the Functional objects of a program
  Devices,       \* its Peripherals
  Needs,         \* Needs[p]: the peripherals p holds handles of while enabled
  Null           \* peripheral_ == nullptr

ASSUME FiniteAssumption ==
  IsFiniteSet(Handles) /\ IsFiniteSet(Devices) /\ Handles \cap Devices = {}
ASSUME NeedsAssumption == Needs \in [Devices -> SUBSET Devices]
ASSUME NullAssumption  == Null \notin Devices

VARIABLES
  handle,      \* peripheral_ of each Functional of the program
  ref_count,   \* ref_count_ of each peripheral
  phase,       \* "off", "on", or inside enable() or disable()
  held,        \* the needs of each peripheral whose handles it owns now
  assigning    \* the rest of a copy assignment: <<target, source's value>>

vars == <<handle, ref_count, phase, held, assigning>>

InTransition(p) == phase[p] \in {"enabling", "disabling"}

Settled == \A p \in Devices : ~InTransition(p)

(* Control is in the program, not in a member function of a handle. *)
Idle == Settled /\ assigning = <<>>

(* Control is in enable() or disable() of p itself. *)
Innermost(p) == \A d \in Needs[p] : ~InTransition(d)

-----------------------------------------------------------------------------
(* inc_ref_count and dec_ref_count, up to the call of the virtual function.*)
(* disable() turns the hardware of p off before it releases anything.      *)
Acquire(p) ==
  /\ ref_count' = [ref_count EXCEPT ![p] = @ + 1]
  /\ phase' = IF ref_count[p] = 0 THEN [phase EXCEPT ![p] = "enabling"] ELSE phase

(* Fault: the count is compared before it is decremented. *)
ReleaseLeavesOn(p) ==
  /\ ref_count' = [ref_count EXCEPT ![p] = @ - 1]
  /\ phase' = IF ref_count[p] = 0 THEN [phase EXCEPT ![p] = "disabling"] ELSE phase

Release(p) ==
  /\ ref_count' = [ref_count EXCEPT ![p] = @ - 1]
  /\ phase' = IF ref_count[p] = 1 THEN [phase EXCEPT ![p] = "disabling"] ELSE phase

Init ==
  /\ handle = [h \in Handles |-> Null]
  /\ ref_count = [p \in Devices |-> 0]
  /\ phase = [p \in Devices |-> "off"]
  /\ held = [p \in Devices |-> {}]
  /\ assigning = <<>>

(* access() and ensure_valid() on an empty handle. *)
Access(h, p) ==
  /\ Idle
  /\ handle[h] = Null
  /\ handle' = [handle EXCEPT ![h] = p]
  /\ Acquire(p)
  /\ UNCHANGED <<held, assigning>>

(* The copy constructor. *)
Copy(h, g) ==
  /\ Idle
  /\ handle[h] = Null
  /\ handle[g] # Null
  /\ handle' = [handle EXCEPT ![h] = handle[g]]
  /\ Acquire(handle[g])
  /\ UNCHANGED <<held, assigning>>

(* The move constructor empties g; the move assignment swaps, so that the  *)
(* moved-from handle keeps alive what the target held.                     *)
Move(h, g) ==
  /\ Idle
  /\ handle' = [handle EXCEPT ![h] = handle[g], ![g] = handle[h]]
  /\ UNCHANGED <<ref_count, phase, held, assigning>>

(* The destructor and invalidate(). *)
Drop(h) ==
  /\ Idle
  /\ handle[h] # Null
  /\ handle' = [handle EXCEPT ![h] = Null]
  /\ Release(handle[h])
  /\ UNCHANGED <<held, assigning>>

(* Fault: the peripheral held before is not released. *)
BeginAssignLeaks(h, g) ==
  /\ Idle
  /\ handle[h] # handle[g]
  /\ assigning' = <<h, handle[g]>>
  /\ handle' = [handle EXCEPT ![h] = Null]
  /\ UNCHANGED <<ref_count, phase, held>>

(* The copy assignment releases the old peripheral before it acquires the  *)
(* new one.                                                                *)
BeginAssign(h, g) ==
  /\ Idle
  /\ handle[h] # handle[g]
  /\ assigning' = <<h, handle[g]>>
  /\ IF handle[h] = Null
     THEN UNCHANGED <<handle, ref_count, phase>>
     ELSE /\ handle' = [handle EXCEPT ![h] = Null]
          /\ Release(handle[h])
  /\ UNCHANGED held

EndAssign ==
  /\ Settled
  /\ assigning # <<>>
  /\ assigning' = <<>>
  /\ handle' = [handle EXCEPT ![assigning[1]] = assigning[2]]
  /\ IF assigning[2] = Null THEN UNCHANGED <<ref_count, phase>> ELSE Acquire(assigning[2])
  /\ UNCHANGED held

-----------------------------------------------------------------------------
(* enable() of p takes the handle of one of its needs. *)
TakeNeed(p, d) ==
  /\ phase[p] = "enabling"
  /\ Innermost(p)
  /\ d \in Needs[p] \ held[p]
  /\ held' = [held EXCEPT ![p] = @ \union {d}]
  /\ Acquire(d)
  /\ UNCHANGED <<handle, assigning>>

(* Fault: the hardware of p is turned on first. *)
TurnOnEarly(p) ==
  /\ phase[p] = "enabling"
  /\ Innermost(p)
  /\ phase' = [phase EXCEPT ![p] = "on"]
  /\ UNCHANGED <<handle, ref_count, held, assigning>>

(* With its needs enabled the hardware of p is turned on. *)
TurnOn(p) ==
  /\ phase[p] = "enabling"
  /\ Innermost(p)
  /\ held[p] = Needs[p]
  /\ phase' = [phase EXCEPT ![p] = "on"]
  /\ UNCHANGED <<handle, ref_count, held, assigning>>

(* disable() of p invalidates the handle of one of its needs. *)
GiveUpNeed(p, d) ==
  /\ phase[p] = "disabling"
  /\ Innermost(p)
  /\ d \in held[p]
  /\ held' = [held EXCEPT ![p] = @ \ {d}]
  /\ Release(d)
  /\ UNCHANGED <<handle, assigning>>

FinishDisable(p) ==
  /\ phase[p] = "disabling"
  /\ Innermost(p)
  /\ held[p] = {}
  /\ phase' = [phase EXCEPT ![p] = "off"]
  /\ UNCHANGED <<handle, ref_count, held, assigning>>

Calls ==
  \/ EndAssign
  \/ \E p \in Devices :
       TurnOn(p) \/ FinishDisable(p) \/ \E d \in Needs[p] : TakeNeed(p, d) \/ GiveUpNeed(p, d)

Next ==
  \/ \E h \in Handles, p \in Devices : Access(h, p)
  \/ \E h, g \in Handles : Copy(h, g) \/ Move(h, g) \/ BeginAssign(h, g)
  \/ \E h \in Handles : Drop(h)
  \/ Calls

Spec == Init /\ [][Next]_vars

-----------------------------------------------------------------------------
(* Everything that owns a handle of p. *)
Holders(p) ==
  {h \in Handles : handle[h] = p} \union {q \in Devices : p \in held[q]}

(* Every variable has its type; a peripheral owns handles of its needs. *)
TypeOK ==
  /\ handle \in [Handles -> Devices \union {Null}]
  /\ ref_count \in [Devices -> Nat]
  /\ phase \in [Devices -> {"off", "enabling", "on", "disabling"}]
  /\ held \in [Devices -> SUBSET Devices]
  /\ assigning = <<>> \/ \E h \in Handles, p \in Devices \union {Null} : assigning = <<h, p>>

(* ref_count_ is the number of live handles whatever the program copied,   *)
(* moved, assigned or dropped: it never underflows and nothing leaks.      *)
CountsHolders ==
  \A p \in Devices : ref_count[p] = Cardinality(Holders(p))

(* At every instant, inside enable() and disable() too, hardware that is   *)
(* on has everything it needs on: a port is clocked while a pin uses it.   *)
NeedsAreOn ==
  \A p \in Devices : phase[p] = "on" => \A d \in Needs[p] : phase[d] = "on"

(* "If we aren't using the peripheral's functions, it should be off"       *)
(* (peripheral.h): between calls a peripheral is on exactly if a handle of *)
(* the program, or another peripheral that is on, uses it.                 *)
OnIffUsed ==
  Settled => \A p \in Devices :
    phase[p] = "on" <=>
      \/ \E h \in Handles : handle[h] = p
      \/ \E q \in Devices : phase[q] = "on" /\ p \in Needs[q]

-----------------------------------------------------------------------------
(* The inductive strengthening. *)
PhaseMatchesCount ==
  \A p \in Devices : phase[p] \in {"enabling", "on"} <=> ref_count[p] > 0

PhaseMatchesHeld ==
  \A p \in Devices :
    /\ held[p] \subseteq Needs[p]
    /\ phase[p] = "on" => held[p] = Needs[p]
    /\ phase[p] = "off" => held[p] = {}

(* A copy assignment in progress has emptied its target. *)
TargetIsEmpty == assigning # <<>> => handle[assigning[1]] = Null

IInv ==
  /\ TypeOK
  /\ CountsHolders
  /\ PhaseMatchesCount
  /\ PhaseMatchesHeld
  /\ NeedsAreOn
  /\ TargetIsEmpty

=============================================================================
