------------------------- MODULE PeripheralsProofs -------------------------
(***************************************************************************)
(* Proofs about Peripherals for every finite set of handles and devices    *)
(* and every dependency between the devices.                               *)
(***************************************************************************)
EXTENDS Peripherals, FiniteSetTheorems, TLAPS

USE NeedsAssumption, NullAssumption

(* The holders of a peripheral form a finite set. *)
LEMMA HoldersFinite ==
  ASSUME NEW p \in Devices
  PROVE  IsFiniteSet(Holders(p)) /\ IsFiniteSet(Holders(p)')
<1>1. IsFiniteSet(Handles \union Devices)
  BY FiniteAssumption, FS_Union
<1>2. Holders(p) \subseteq Handles \union Devices /\ Holders(p)' \subseteq Handles \union Devices
  BY DEF Holders
<1> QED BY <1>1, <1>2, FS_Subset

(* What must stay true of the counts: the part of the invariant that a     *)
(* step which changes who holds what has to restore.                       *)
Counted == CountsHolders /\ PhaseMatchesCount

(* Taking a handle of p keeps the count right; p is on only if it was.     *)
LEMMA AcquireCounts ==
  ASSUME TypeOK, Counted, NEW p \in Devices, Acquire(p), NEW x, x \notin Holders(p),
         Holders(p)' = Holders(p) \union {x},
         \A q \in Devices : q # p => Holders(q)' = Holders(q)
  PROVE  /\ Counted'
         /\ ref_count' \in [Devices -> Nat]
         /\ phase' \in [Devices -> {"off", "enabling", "on", "disabling"}]
         /\ \A q \in Devices : phase'[q] # phase[q] => phase[q] # "on" /\ phase'[q] = "enabling"
<1>1. Cardinality(Holders(p)') = Cardinality(Holders(p)) + 1
  BY HoldersFinite, FS_AddElement
<1>2. /\ ref_count' \in [Devices -> Nat]
      /\ ref_count'[p] = ref_count[p] + 1
      /\ \A q \in Devices : q # p => ref_count'[q] = ref_count[q]
  BY DEF Acquire, TypeOK
<1>3. CountsHolders'
  BY <1>1, <1>2 DEF Counted, CountsHolders
<1>4. /\ phase' \in [Devices -> {"off", "enabling", "on", "disabling"}]
      /\ PhaseMatchesCount'
      /\ \A q \in Devices : phase'[q] # phase[q] => phase[q] # "on" /\ phase'[q] = "enabling"
  BY <1>2 DEF Acquire, TypeOK, Counted, PhaseMatchesCount
<1> QED BY <1>2, <1>3, <1>4 DEF Counted

(* Giving up a handle of p keeps the count right; p stays on if others     *)
(* hold it.                                                                *)
LEMMA ReleaseCounts ==
  ASSUME TypeOK, Counted, NEW p \in Devices, Release(p), NEW x, x \in Holders(p),
         Holders(p)' = Holders(p) \ {x},
         \A q \in Devices : q # p => Holders(q)' = Holders(q)
  PROVE  /\ Counted'
         /\ ref_count' \in [Devices -> Nat]
         /\ phase' \in [Devices -> {"off", "enabling", "on", "disabling"}]
         /\ \A q \in Devices : phase'[q] # phase[q] =>
              q = p /\ phase'[q] = "disabling" /\ Holders(p) = {x}
<1>1. Cardinality(Holders(p)') = Cardinality(Holders(p)) - 1
  BY HoldersFinite, FS_RemoveElement
<1>2. Cardinality(Holders(p)) \in Nat \ {0}
  BY HoldersFinite, FS_CardinalityType, FS_EmptySet
<1>3. /\ ref_count' \in [Devices -> Nat]
      /\ ref_count'[p] = ref_count[p] - 1
      /\ \A q \in Devices : q # p => ref_count'[q] = ref_count[q]
  BY <1>2 DEF Release, TypeOK, Counted, CountsHolders
<1>4. CountsHolders'
  BY <1>1, <1>3 DEF Counted, CountsHolders
<1>5. /\ phase' \in [Devices -> {"off", "enabling", "on", "disabling"}]
      /\ PhaseMatchesCount'
      /\ \A q \in Devices : phase'[q] # phase[q] =>
           q = p /\ phase'[q] = "disabling" /\ ref_count[p] = 1
  BY <1>2, <1>3 DEF Release, TypeOK, Counted, CountsHolders, PhaseMatchesCount
<1>6. ref_count[p] = 1 => Holders(p) = {x}
  <2>1. ref_count[p] = 1 => Cardinality(Holders(p)') = 0
    BY <1>1 DEF Counted, CountsHolders
  <2>2. ref_count[p] = 1 => Holders(p)' = {}
    BY <2>1, HoldersFinite, FS_EmptySet
  <2> QED BY <2>2
<1> QED BY <1>3, <1>4, <1>5, <1>6 DEF Counted

(* The initial states satisfy the inductive invariant. *)
LEMMA InitInvariant == Init => IInv
<1> SUFFICES ASSUME Init PROVE IInv
  OBVIOUS
<1>1. \A p \in Devices : Holders(p) = {}
  BY DEF Init, Holders
<1>2. TypeOK
  BY DEF Init, TypeOK
<1>3. CountsHolders
  BY <1>1, FS_EmptySet DEF Init, CountsHolders
<1>4. PhaseMatchesCount /\ PhaseMatchesHeld /\ NeedsAreOn /\ TargetIsEmpty
  BY DEF Init, PhaseMatchesCount, PhaseMatchesHeld, NeedsAreOn, TargetIsEmpty
<1> QED BY <1>2, <1>3, <1>4 DEF IInv

(* A step of the program that takes a handle h of p keeps the invariant. *)
LEMMA TakeHandle ==
  ASSUME IInv, NEW h \in Handles, NEW p \in Devices, handle[h] = Null,
         handle' = [handle EXCEPT ![h] = p], Acquire(p), held' = held,
         assigning' = <<>>
  PROVE  IInv'
<1> USE DEF IInv
<1>1. /\ h \notin Holders(p)
      /\ Holders(p)' = Holders(p) \union {h}
      /\ \A q \in Devices : q # p => Holders(q)' = Holders(q)
  BY FiniteAssumption DEF Holders, TypeOK
<1>2. /\ Counted'
      /\ ref_count' \in [Devices -> Nat]
      /\ phase' \in [Devices -> {"off", "enabling", "on", "disabling"}]
      /\ \A q \in Devices : phase'[q] # phase[q] => phase[q] # "on" /\ phase'[q] = "enabling"
  <2> HIDE DEF IInv
  <2> QED BY <1>1, AcquireCounts DEF Counted, IInv
<1>3. TypeOK'
  BY <1>2 DEF TypeOK
<1>4. PhaseMatchesHeld' /\ NeedsAreOn'
  BY <1>2 DEF TypeOK, PhaseMatchesHeld, NeedsAreOn
<1> QED BY <1>2, <1>3, <1>4 DEF Counted, TargetIsEmpty

(* A step of the program that gives up the handle h keeps the invariant.   *)
LEMMA GiveUpHandle ==
  ASSUME IInv, NEW h \in Handles, handle[h] # Null,
         handle' = [handle EXCEPT ![h] = Null], Release(handle[h]), held' = held,
         \/ assigning' = <<>>
         \/ \E v \in Devices \union {Null} : assigning' = <<h, v>>
  PROVE  IInv'
<1> USE DEF IInv
<1> PICK p \in Devices : p = handle[h]
  BY DEF TypeOK
<1>0. \A g \in Handles : handle'[g] = IF g = h THEN Null ELSE handle[g]
  BY DEF TypeOK
<1>1. /\ h \in Holders(p)
      /\ Holders(p)' = Holders(p) \ {h}
      /\ \A q \in Devices : q # p => Holders(q)' = Holders(q)
  BY <1>0, FiniteAssumption DEF Holders
<1>2. /\ Counted'
      /\ ref_count' \in [Devices -> Nat]
      /\ phase' \in [Devices -> {"off", "enabling", "on", "disabling"}]
      /\ \A q \in Devices : phase'[q] # phase[q] =>
           q = p /\ phase'[q] = "disabling" /\ Holders(p) = {h}
  <2>1. Release(p)
    OBVIOUS
  <2> HIDE DEF IInv
  <2> QED BY <1>1, <2>1, ReleaseCounts DEF Counted, IInv
<1>3. TypeOK'
  BY <1>2 DEF TypeOK
<1>4. PhaseMatchesHeld'
  BY <1>2 DEF TypeOK, PhaseMatchesHeld
<1>5. NeedsAreOn'
  <2> SUFFICES ASSUME NEW q \in Devices, phase'[q] = "on", NEW d \in Needs[q]
               PROVE  phase'[d] = "on"
    BY DEF NeedsAreOn
  <2>1. phase[q] = "on" /\ d \in Devices
    BY <1>2
  <2>2. phase[d] = "on" /\ q \in Holders(d)
    BY <2>1 DEF NeedsAreOn, PhaseMatchesHeld, Holders
  <2>3. q # h
    BY FiniteAssumption
  <2> QED BY <1>2, <2>1, <2>2, <2>3
<1>6. TargetIsEmpty'
  BY DEF TargetIsEmpty, TypeOK
<1> QED BY <1>2, <1>3, <1>4, <1>5, <1>6 DEF Counted

(* Exchanging an element of a finite set for another keeps its size. *)
LEMMA SwapElement ==
  ASSUME NEW S, IsFiniteSet(S), NEW x \in S, NEW y, y \notin S
  PROVE  Cardinality((S \ {x}) \union {y}) = Cardinality(S)
<1>1. IsFiniteSet(S \ {x}) /\ Cardinality(S \ {x}) = Cardinality(S) - 1
  BY FS_RemoveElement
<1>2. Cardinality((S \ {x}) \union {y}) = Cardinality(S \ {x}) + 1
  BY <1>1, FS_AddElement
<1>3. Cardinality(S) \in Nat
  BY FS_CardinalityType
<1> QED BY <1>1, <1>2, <1>3

(* A move permutes the holders: every count stays as it was. *)
LEMMA MoveInvariant ==
  ASSUME IInv, NEW h \in Handles, NEW g \in Handles, Move(h, g)
  PROVE  IInv'
<1> USE DEF IInv
<1>1. /\ handle' = [handle EXCEPT ![h] = handle[g], ![g] = handle[h]]
      /\ UNCHANGED <<ref_count, phase, held, assigning>>
      /\ assigning = <<>>
  BY DEF Move, Idle
<1>2. TypeOK'
  BY <1>1 DEF TypeOK
<1>3. ASSUME NEW p \in Devices PROVE Cardinality(Holders(p)') = Cardinality(Holders(p))
  <2> DEFINE H == Holders(p)
  <2>1. CASE handle[h] = handle[g]
    <3>1. handle' = handle
      BY <1>1, <2>1 DEF TypeOK
    <3> QED BY <1>1, <3>1 DEF Holders
  <2>2. CASE handle[h] # handle[g] /\ handle[h] = p
    <3>1. h \in H /\ g \notin H /\ Holders(p)' = (H \ {h}) \union {g}
      BY <1>1, <2>2, FiniteAssumption DEF Holders, TypeOK
    <3> QED BY <3>1, HoldersFinite, SwapElement
  <2>3. CASE handle[h] # handle[g] /\ handle[g] = p
    <3>1. g \in H /\ h \notin H /\ Holders(p)' = (H \ {g}) \union {h}
      BY <1>1, <2>3, FiniteAssumption DEF Holders, TypeOK
    <3> QED BY <3>1, HoldersFinite, SwapElement
  <2>4. CASE handle[h] # p /\ handle[g] # p
    <3>1. Holders(p)' = H
      BY <1>1, <2>4 DEF Holders, TypeOK
    <3> QED BY <3>1
  <2> QED BY <2>1, <2>2, <2>3, <2>4
<1>4. CountsHolders'
  BY <1>1, <1>3 DEF CountsHolders
<1>5. PhaseMatchesCount' /\ PhaseMatchesHeld' /\ NeedsAreOn' /\ TargetIsEmpty'
  BY <1>1 DEF PhaseMatchesCount, PhaseMatchesHeld, NeedsAreOn, TargetIsEmpty
<1> QED BY <1>2, <1>4, <1>5

(* enable() of p taking a handle of d keeps the invariant. *)
LEMMA TakeNeedInvariant ==
  ASSUME IInv, NEW p \in Devices, NEW d \in Devices, TakeNeed(p, d)
  PROVE  IInv'
<1> USE DEF IInv
<1>1. /\ p \notin Holders(d)
      /\ Holders(d)' = Holders(d) \union {p}
      /\ \A q \in Devices : q # d => Holders(q)' = Holders(q)
  BY FiniteAssumption DEF TakeNeed, Holders, TypeOK
<1>2. /\ Counted'
      /\ ref_count' \in [Devices -> Nat]
      /\ phase' \in [Devices -> {"off", "enabling", "on", "disabling"}]
      /\ \A q \in Devices : phase'[q] # phase[q] => phase[q] # "on" /\ phase'[q] = "enabling"
  <2> HIDE DEF IInv
  <2>1. Acquire(d)
    BY DEF TakeNeed
  <2> QED BY <1>1, <2>1, AcquireCounts DEF Counted, IInv
<1>3. TypeOK'
  BY <1>2 DEF TakeNeed, TypeOK
<1>4. PhaseMatchesHeld'
  BY <1>2 DEF TakeNeed, TypeOK, PhaseMatchesHeld
<1>5. NeedsAreOn'
  BY <1>2 DEF TakeNeed, TypeOK, NeedsAreOn
<1>6. TargetIsEmpty'
  BY <1>2 DEF TakeNeed, TypeOK, TargetIsEmpty
<1> QED BY <1>2, <1>3, <1>4, <1>5, <1>6 DEF Counted

(* disable() of p invalidating its handle of d keeps the invariant. *)
LEMMA GiveUpNeedInvariant ==
  ASSUME IInv, NEW p \in Devices, NEW d \in Devices, GiveUpNeed(p, d)
  PROVE  IInv'
<1> USE DEF IInv
<1>1. /\ p \in Holders(d)
      /\ Holders(d)' = Holders(d) \ {p}
      /\ \A q \in Devices : q # d => Holders(q)' = Holders(q)
  BY FiniteAssumption DEF GiveUpNeed, Holders, TypeOK
<1>2. /\ Counted'
      /\ ref_count' \in [Devices -> Nat]
      /\ phase' \in [Devices -> {"off", "enabling", "on", "disabling"}]
      /\ \A q \in Devices : phase'[q] # phase[q] =>
           q = d /\ phase'[q] = "disabling" /\ Holders(d) = {p}
  <2> HIDE DEF IInv
  <2>1. Release(d)
    BY DEF GiveUpNeed
  <2> QED BY <1>1, <2>1, ReleaseCounts DEF Counted, IInv
<1>3. TypeOK'
  BY <1>2 DEF GiveUpNeed, TypeOK
<1>4. PhaseMatchesHeld' /\ TargetIsEmpty'
  BY <1>2 DEF GiveUpNeed, TypeOK, PhaseMatchesHeld, TargetIsEmpty
<1>5. NeedsAreOn'
  <2> SUFFICES ASSUME NEW q \in Devices, phase'[q] = "on", NEW e \in Needs[q]
               PROVE  phase'[e] = "on"
    BY DEF NeedsAreOn
  <2>1. phase[q] = "on" /\ e \in Devices /\ phase[p] = "disabling"
    BY <1>2 DEF GiveUpNeed
  <2>2. phase[e] = "on" /\ q \in Holders(e) /\ q # p
    BY <2>1 DEF NeedsAreOn, PhaseMatchesHeld, Holders
  <2> QED BY <1>2, <2>1, <2>2
<1> QED BY <1>2, <1>3, <1>4, <1>5 DEF Counted

(* A call that only completes a transition keeps the invariant. *)
LEMMA CompleteInvariant ==
  ASSUME IInv, NEW p \in Devices, TurnOn(p) \/ FinishDisable(p)
  PROVE  IInv'
<1> USE DEF IInv
<1>1. /\ UNCHANGED <<handle, ref_count, held, assigning>>
      /\ \/ phase[p] = "enabling" /\ phase' = [phase EXCEPT ![p] = "on"]
         \/ phase[p] = "disabling" /\ phase' = [phase EXCEPT ![p] = "off"]
  BY DEF TurnOn, FinishDisable
<1>2. TypeOK'
  BY <1>1 DEF TypeOK
<1>3. CountsHolders'
  BY <1>1 DEF CountsHolders, Holders
<1>4. PhaseMatchesCount'
  BY <1>1 DEF PhaseMatchesCount, TypeOK
<1>5. PhaseMatchesHeld'
  BY DEF TurnOn, FinishDisable, PhaseMatchesHeld, TypeOK
<1>6. NeedsAreOn'
  <2>1. CASE TurnOn(p)
    <3>1. ASSUME NEW d \in Needs[p] PROVE phase[d] = "on"
      <4>1. d \in Devices /\ p \in Holders(d)
        BY <2>1 DEF TurnOn, Holders
      <4>2. Cardinality(Holders(d)) \in Nat /\ Cardinality(Holders(d)) # 0
        BY <4>1, HoldersFinite, FS_CardinalityType, FS_EmptySet
      <4>3. ref_count[d] > 0
        BY <4>1, <4>2 DEF CountsHolders
      <4> QED
        BY <2>1, <4>1, <4>3 DEF TurnOn, Innermost, InTransition, PhaseMatchesCount
    <3> QED BY <2>1, <3>1 DEF TurnOn, NeedsAreOn, TypeOK
  <2>2. CASE FinishDisable(p)
    BY <2>2 DEF FinishDisable, NeedsAreOn, TypeOK
  <2> QED BY <2>1, <2>2
<1>7. TargetIsEmpty'
  BY <1>1 DEF TargetIsEmpty
<1> QED BY <1>2, <1>3, <1>4, <1>5, <1>6, <1>7

(* Every action preserves the inductive invariant. *)
LEMMA NextInvariant == IInv /\ [Next]_vars => IInv'
<1> SUFFICES ASSUME IInv, [Next]_vars PROVE IInv'
  OBVIOUS
<1>1. ASSUME NEW h \in Handles, NEW p \in Devices, Access(h, p) PROVE IInv'
  BY <1>1, TakeHandle DEF Access, Idle
<1>2. ASSUME NEW h \in Handles, NEW g \in Handles, Copy(h, g) PROVE IInv'
  <2>1. handle[g] \in Devices
    BY <1>2 DEF Copy, IInv, TypeOK
  <2> QED BY <1>2, <2>1, TakeHandle DEF Copy, Idle
<1>3. ASSUME NEW h \in Handles, NEW g \in Handles, Move(h, g) PROVE IInv'
  BY <1>3, MoveInvariant
<1>4. ASSUME NEW h \in Handles, NEW g \in Handles, BeginAssign(h, g) PROVE IInv'
  <2>1. handle[g] \in Devices \union {Null}
    BY DEF IInv, TypeOK
  <2>2. CASE handle[h] = Null
    <3>1. UNCHANGED <<handle, ref_count, phase, held>> /\ assigning' = <<h, handle[g]>>
      BY <1>4, <2>2 DEF BeginAssign
    <3>2. TypeOK' /\ TargetIsEmpty'
      BY <2>1, <2>2, <3>1 DEF IInv, TypeOK, TargetIsEmpty
    <3> QED
      BY <3>1, <3>2 DEF IInv, CountsHolders, Holders, PhaseMatchesCount,
                        PhaseMatchesHeld, NeedsAreOn
  <2>3. CASE handle[h] # Null
    BY <1>4, <2>1, <2>3, GiveUpHandle DEF BeginAssign
  <2> QED BY <2>2, <2>3
<1>5. ASSUME NEW h \in Handles, Drop(h) PROVE IInv'
  BY <1>5, GiveUpHandle DEF Drop, Idle
<1>6. CASE EndAssign
  <2> PICK h \in Handles, p \in Devices \union {Null} : assigning = <<h, p>>
    BY <1>6 DEF EndAssign, IInv, TypeOK
  <2>1. /\ handle[h] = Null
        /\ handle' = [handle EXCEPT ![h] = p]
        /\ held' = held
        /\ assigning' = <<>>
    BY <1>6 DEF EndAssign, IInv, TargetIsEmpty
  <2>2. CASE p = Null
    <3>1. UNCHANGED <<handle, ref_count, phase>>
      BY <1>6, <2>1, <2>2 DEF EndAssign, IInv, TypeOK
    <3>2. TypeOK' /\ TargetIsEmpty'
      BY <2>1, <3>1 DEF IInv, TypeOK, TargetIsEmpty
    <3>3. CountsHolders' /\ PhaseMatchesCount'
      BY <2>1, <3>1 DEF IInv, CountsHolders, Holders, PhaseMatchesCount
    <3>4. PhaseMatchesHeld' /\ NeedsAreOn'
      BY <2>1, <3>1 DEF IInv, PhaseMatchesHeld, NeedsAreOn
    <3> QED BY <3>2, <3>3, <3>4 DEF IInv
  <2>3. CASE p # Null
    <3>1. Acquire(p) /\ p \in Devices
      BY <1>6, <2>3 DEF EndAssign
    <3> QED BY <2>1, <3>1, TakeHandle
  <2> QED BY <2>2, <2>3
<1>7. ASSUME NEW p \in Devices, TurnOn(p) \/ FinishDisable(p) PROVE IInv'
  BY <1>7, CompleteInvariant
<1>8. ASSUME NEW p \in Devices, NEW d \in Needs[p], TakeNeed(p, d) \/ GiveUpNeed(p, d)
      PROVE  IInv'
  <2>1. d \in Devices
    OBVIOUS
  <2> QED BY <1>8, <2>1, TakeNeedInvariant, GiveUpNeedInvariant
<1>9. CASE UNCHANGED vars
  BY <1>9 DEF vars, IInv, TypeOK, TargetIsEmpty, CountsHolders, Holders,
              PhaseMatchesCount, PhaseMatchesHeld, NeedsAreOn
<1> QED
  BY <1>1, <1>2, <1>3, <1>4, <1>5, <1>6, <1>7, <1>8, <1>9 DEF Next, Calls

(* The inductive invariant holds in every reachable state. *)
LEMMA Invariance == Spec => []IInv
<1> QED BY InitInvariant, NextInvariant, PTL DEF Spec

(* ref_count_ always equals the number of live handles. *)
THEOREM CountIsExact == Spec => []CountsHolders
<1>1. IInv => CountsHolders  BY DEF IInv
<1> QED BY <1>1, Invariance, PTL

(* Hardware is never on without the hardware it needs. *)
THEOREM DependenciesArePowered == Spec => []NeedsAreOn
<1>1. IInv => NeedsAreOn  BY DEF IInv
<1> QED BY <1>1, Invariance, PTL

(* Between calls, a peripheral is on exactly if something uses it. *)
THEOREM NothingStaysOn == Spec => []OnIffUsed
<1>1. IInv => OnIffUsed
  <2> SUFFICES ASSUME IInv, Settled, NEW p \in Devices
               PROVE  phase[p] = "on" <=>
                        \/ \E h \in Handles : handle[h] = p
                        \/ \E q \in Devices : phase[q] = "on" /\ p \in Needs[q]
    BY DEF OnIffUsed
  <2>1. \A q \in Devices : phase[q] \in {"on", "off"}
    BY DEF Settled, InTransition, IInv, TypeOK
  <2>2. phase[p] = "on" <=> ref_count[p] > 0
    BY <2>1 DEF IInv, PhaseMatchesCount
  <2>3. ref_count[p] > 0 <=> Holders(p) # {}
    BY HoldersFinite, FS_CardinalityType, FS_EmptySet DEF IInv, CountsHolders
  <2>4. \A q \in Devices : p \in held[q] <=> phase[q] = "on" /\ p \in Needs[q]
    BY <2>1 DEF IInv, PhaseMatchesHeld
  <2> QED BY <2>2, <2>3, <2>4 DEF Holders
<1> QED BY <1>1, Invariance, PTL

=============================================================================
