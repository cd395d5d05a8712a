---------------------------- MODULE ClockProofs ----------------------------
(***************************************************************************)
(* sleep_us of the STM32L4 boards neither returns early nor sleeps on, and *)
(* its clock keeps up with the call, wherever interrupts fall and whatever *)
(* the resolution of its timer.                                            *)
(***************************************************************************)
EXTENDS EmbeddedClock, FiniteSetTheorems, WellFoundedInduction, TLAPS

(* A finite set of numbers has a greatest one: of the sets of the elements *)
(* above each, one is smallest.                                            *)
LEMMA MaxExists ==
  ASSUME NEW S, S \subseteq Int, S # {}, IsFiniteSet(S)
  PROVE  Max(S) \in S /\ \A y \in S : Max(S) >= y
  <1> DEFINE Above(x) == {y \in S : y > x}
             Tails == {Above(x) : x \in S}
  <1>1. Tails \subseteq FiniteSubsetsOf(S) /\ Tails # {}
    <2>1. \A x \in S : Above(x) \in FiniteSubsetsOf(S)
      BY FS_Subset DEF FiniteSubsetsOf
    <2> QED
      BY <2>1
  <1>2. PICK x \in S : \A y \in S : <<Above(y), Above(x)>> \notin StrictSubsetOrdering(S)
    <2> HIDE DEF Tails
    <2>1. \E t \in Tails : \A u \in Tails : <<u, t>> \notin StrictSubsetOrdering(S)
      BY <1>1, FS_StrictSubsetOrderingWellFounded, WFMin
    <2> QED
      BY <2>1 DEF Tails
  <1>3. ASSUME NEW y \in S
        PROVE  x >= y
    <2> SUFFICES ASSUME y > x PROVE FALSE
      BY <1>3
    <2>1. x \in Int /\ y \in Int
      OBVIOUS
    <2>3. y \in Above(x) /\ y \notin Above(y)
      BY <2>1
    <2>4. ASSUME NEW z \in S, z > y
          PROVE  z > x
      <3>1. z \in Int
        OBVIOUS
      <3> QED
        BY <2>1, <2>4, <3>1
    <2>5. Above(y) \subseteq Above(x)
      BY <2>4
    <2> QED
      BY <1>2, <2>3, <2>5 DEF StrictSubsetOrdering
  <1> QED
    BY <1>3 DEF Max

(* ... and a least one. *)
LEMMA MinExists ==
  ASSUME NEW S, S \subseteq Int, S # {}, IsFiniteSet(S)
  PROVE  Min(S) \in S /\ \A y \in S : Min(S) <= y
  <1> DEFINE Below(x) == {y \in S : y < x}
             Heads == {Below(x) : x \in S}
  <1>1. Heads \subseteq FiniteSubsetsOf(S) /\ Heads # {}
    <2>1. \A x \in S : Below(x) \in FiniteSubsetsOf(S)
      BY FS_Subset DEF FiniteSubsetsOf
    <2> QED
      BY <2>1
  <1>2. PICK x \in S : \A y \in S : <<Below(y), Below(x)>> \notin StrictSubsetOrdering(S)
    <2> HIDE DEF Heads
    <2>1. \E t \in Heads : \A u \in Heads : <<u, t>> \notin StrictSubsetOrdering(S)
      BY <1>1, FS_StrictSubsetOrderingWellFounded, WFMin
    <2> QED
      BY <2>1 DEF Heads
  <1>3. ASSUME NEW y \in S
        PROVE  x <= y
    <2> SUFFICES ASSUME y < x PROVE FALSE
      BY <1>3
    <2>1. x \in Int /\ y \in Int
      OBVIOUS
    <2>3. y \in Below(x) /\ y \notin Below(y)
      BY <2>1
    <2>4. ASSUME NEW z \in S, z < y
          PROVE  z < x
      <3>1. z \in Int
        OBVIOUS
      <3> QED
        BY <2>1, <2>4, <3>1
    <2>5. Below(y) \subseteq Below(x)
      BY <2>4
    <2> QED
      BY <1>2, <2>3, <2>5 DEF StrictSubsetOrdering
  <1> QED
    BY <1>3 DEF Min

(* Arithmetic.  What the prover knows of products and quotients. *)
LEMMA Division ==
  ASSUME NEW n \in Nat, NEW d \in Nat \ {0}
  PROVE  n \div d \in Nat /\ (n % d) \in 0..(d - 1) /\ n = d * (n \div d) + (n % d)
  BY SMT

LEMMA Product ==
  ASSUME NEW m \in Nat \ {0}, NEW n \in Nat \ {0}
  PROVE  m * n \in Nat \ {0}
  BY SMT

LEMMA NextPhase ==
  ASSUME NEW d \in Nat \ {0}, NEW n \in 0..(d - 1)
  PROVE  \/ n + 1 < d /\ (n + 1) % d = n + 1
         \/ n + 1 = d /\ (n + 1) % d = 0
  BY SMT

LEMMA OneMore ==
  ASSUME NEW a \in Int, NEW b \in Int, NEW t \in Int, NEW m \in Int,
         b <= a + 1, a + t <= m
  PROVE  b + (t - 1) <= m
  BY SMT

(* The timer's resolution is a positive number of microseconds. *)
LEMMA ResolutionIsPositive ==
  ASSUME NEW us \in Nat
  PROVE  Resolution(us) \in Nat \ {0}
  <1>1. Prescaler(us) \in Prescalers
    <2> DEFINE fits == {p \in Prescalers : us < DirectRange * p}
    <2>0. /\ Prescalers \subseteq Int /\ Prescalers # {} /\ IsFiniteSet(Prescalers)
          /\ Prescaler(us) = IF fits = {} THEN Max(Prescalers) ELSE Min(fits)
      BY PeriodAssumption DEF Prescaler
    <2>1. CASE fits = {}
      BY <2>0, <2>1, MaxExists
    <2>2. CASE fits # {}
      <3>0. fits \in SUBSET Prescalers
        OBVIOUS
      <3>1. IsFiniteSet(fits) /\ fits \subseteq Int
        <4> HIDE DEF fits
        <4> QED
          BY <2>0, <3>0, FS_Subset
      <3>2. Min(fits) \in fits
        BY <2>2, <3>1, MinExists
      <3> QED
        BY <2>0, <2>2, <3>0, <3>2
    <2> QED
      BY <2>1, <2>2
  <1> QED
    BY <1>1, PeriodAssumption, Product DEF Resolution

(* The timer is set for the interval less what rounding takes.             *)
LEMMA TimeoutIsEnough ==
  ASSUME NEW us \in Nat, NEW t \in Timeouts(us)
  PROVE  t \in Nat /\ t + Resolution(us) > us
  <1> DEFINE r == Resolution(us)  n == us \div r
  <1>1. r \in Nat \ {0}
    BY ResolutionIsPositive
  <1>2. n \in Nat /\ (us % r) \in 0..(r - 1) /\ us = r * n + (us % r)
    BY <1>1, Division
  <1>3. TimeoutTicks(us) = n /\ Resolution(us) = r
    BY DEF TimeoutTicks
  <1> HIDE DEF r, n
  <1>4. r * n \in Nat /\ r * n = n * r
    BY <1>1, <1>2, SMT
  <1>5. r * n + r > us
    BY <1>1, <1>2, <1>4
  <1>6. CASE n = 0
    <2>1. t \in {0, CounterTurn}
      BY <1>3, <1>6 DEF Timeouts
    <2>2. r * n = 0
      BY <1>1, <1>6, SMT
    <2> QED
      BY <1>1, <1>3, <1>5, <2>1, <2>2, PeriodAssumption
  <1>7. CASE n # 0
    <2>1. t = n * r
      BY <1>3, <1>7 DEF Timeouts
    <2> QED
      BY <1>1, <1>3, <1>4, <1>5, <2>1
  <1> QED
    BY <1>6, <1>7

(* The longest that the timer may take, at least one microsecond. *)
Longest(us) == Max(Timeouts(us) \union {1})

LEMMA TimeoutIsBounded ==
  ASSUME NEW us \in Nat
  PROVE  /\ Longest(us) \in Nat /\ Longest(us) >= 1
         /\ \A t \in Timeouts(us) : t <= Longest(us)
  <1> DEFINE S == Timeouts(us) \union {1}
  <1>1. S \subseteq Nat
    BY TimeoutIsEnough
  <1>2. IsFiniteSet(S)
    <2>1. \A x, y : IsFiniteSet({x}) /\ IsFiniteSet({x} \union {y})
      BY FS_Singleton, FS_AddElement
    <2>2. IsFiniteSet(Timeouts(us))
      <3>1. IsFiniteSet({0, CounterTurn})
        <4>1. {0, CounterTurn} = {0} \union {CounterTurn}
          OBVIOUS
        <4> QED
          BY <2>1, <4>1
      <3>2. IsFiniteSet({TimeoutTicks(us) * Resolution(us)})
        BY <2>1
      <3> QED
        BY <3>1, <3>2, Zenon DEF Timeouts
    <2> QED
      BY <2>2, FS_AddElement
  <1>3. Max(S) \in S /\ \A y \in S : Max(S) >= y
    BY <1>1, <1>2, MaxExists
  <1> QED
    BY <1>1, <1>3 DEF Longest

-----------------------------------------------------------------------------
Sleeping == {"mark", "start", "check", "wfi", "asleep", "load", "store"}

TypeOK ==
  /\ pc \in Sleeping \union {"idle", "wait"} /\ requested \in Int
  /\ is_running \in BOOLEAN /\ armed \in BOOLEAN /\ timer_left \in Nat
  /\ tick_phase \in 0..(TickPeriod - 1) /\ pending \subseteq {"SysTick", "LPTIM"}
  /\ advanced \in Int /\ elapsed \in Nat /\ lag \in Nat /\ unseen \in Nat
  /\ pc \in Sleeping => requested \in Nat

(* is_running() is true from MarkRunning until the timer's interrupt has   *)
(* been handled, and nobody returns or sleeps on before that.              *)
TimerIsTold ==
  /\ is_running <=> pc = "start" \/ armed \/ "LPTIM" \in pending
  /\ armed \/ "LPTIM" \in pending => pc \in {"check", "wfi", "asleep"}
  /\ ~(armed /\ "LPTIM" \in pending)

(* What SysTick adds while the sum is being stored is part of the advance. *)
UnseenIsPart == Calling => unseen <= advanced

(* A long enough time for the timer, whose resolution is coarse. *)
Enough(t) == t + Resolution(requested) > requested

(* The timer never fires before its time. *)
TimerIsNotEarly ==
  /\ armed => Enough(elapsed + timer_left)
  /\ "LPTIM" \in pending => Enough(elapsed)
  /\ pc \in {"check", "wfi", "asleep"} /\ ~is_running => Enough(elapsed)
  /\ pc \in {"load", "store"} => Enough(elapsed)

(* The time that the CPU has been halted.  After the timer has struck it   *)
(* is halted at most until SysTick, which keeps coming.                    *)
Halted == elapsed - lag
UntilMatch == IF timer_left = 0 THEN 1 ELSE timer_left
SinceTick == IF "SysTick" \in pending THEN TickPeriod ELSE tick_phase

HaltedNotLong ==
  /\ pc \in {"mark", "start"} => Halted <= 0
  /\ armed => Halted + UntilMatch <= Longest(requested)
  /\ "LPTIM" \in pending => Halted <= Longest(requested)
  /\ pc = "wfi" => Halted <= Longest(requested)
  /\ pc = "asleep" /\ ~is_running =>
       Halted <= Longest(requested) + SinceTick
  /\ pc = "check" => Halted <= Longest(requested) + TickPeriod

IInv == TypeOK /\ TimerIsTold /\ UnseenIsPart /\ TimerIsNotEarly /\ HaltedNotLong

LEMMA CallHas ==
  ASSUME IInv
  PROVE  /\ requested \in Int /\ elapsed \in Nat /\ lag \in Nat /\ unseen \in Nat
         /\ advanced \in Int /\ timer_left \in Nat /\ TickPeriod \in Nat
         /\ tick_phase \in Nat /\ tick_phase < TickPeriod
         /\ pc \in Sleeping =>
              /\ requested \in Nat /\ Resolution(requested) \in Nat
              /\ Longest(requested) \in Nat /\ Longest(requested) >= 1
  BY PeriodAssumption, ResolutionIsPositive, TimeoutIsBounded DEF IInv, TypeOK

LEMMA BeginCallKeeps ==
  ASSUME IInv, NEW us \in Int, NEW first \in {"mark", "wait"},
         first = "mark" => us \in Nat, BeginCall(us, first)
  PROVE  IInv'
  <1> USE DEF IInv, Calling, caller, timer, clock, At, BeginCall
  <1>1. TypeOK'
    BY PeriodAssumption DEF TypeOK, Sleeping
  <1>2. TimerIsTold'
    BY DEF TypeOK, TimerIsTold
  <1>3. UnseenIsPart'
    BY PeriodAssumption DEF TypeOK, UnseenIsPart
  <1>4. TimerIsNotEarly'
    BY DEF TimerIsTold, TimerIsNotEarly, Enough
  <1>5. HaltedNotLong'
    BY CallHas DEF Sleeping, TimerIsTold, HaltedNotLong, Halted, UntilMatch, SinceTick
  <1> QED
    BY <1>1, <1>2, <1>3, <1>4, <1>5

(* The statements that do not touch the timer. *)
LEMMA StatementKeeps ==
  ASSUME IInv,
         MarkRunning \/ CheckTimer \/ EnterSleepMode \/ LoadTicks \/ StoreTicks \/ EndWait
  PROVE  IInv'
  <1> USE DEF IInv, Calling, caller, timer, clock, At, MarkRunning, CheckTimer,
            EnterSleepMode, LoadTicks, StoreTicks, EndWait
  <1>1. TypeOK'
    <2>1. CASE MarkRunning
      BY <2>1, PeriodAssumption DEF TypeOK, Sleeping
    <2>2. CASE CheckTimer \/ EnterSleepMode
      BY <2>2, PeriodAssumption DEF TypeOK, Sleeping
    <2>3. CASE LoadTicks
      BY <2>3, PeriodAssumption DEF TypeOK, Sleeping
    <2>4. CASE StoreTicks
      BY <2>4, PeriodAssumption DEF TypeOK, Sleeping
    <2>5. CASE EndWait
      BY <2>5, PeriodAssumption DEF TypeOK, Sleeping
    <2> QED
      BY <2>1, <2>2, <2>3, <2>4, <2>5
  <1>2. TimerIsTold'
    BY DEF TypeOK, TimerIsTold
  <1>3. UnseenIsPart'
    BY PeriodAssumption DEF TypeOK, UnseenIsPart
  <1>4. TimerIsNotEarly'
    BY DEF TimerIsTold, TimerIsNotEarly, Enough
  <1>5. HaltedNotLong'
    BY CallHas DEF Sleeping, TimerIsTold, HaltedNotLong, Halted, UntilMatch, SinceTick
  <1> QED
    BY <1>1, <1>2, <1>3, <1>4, <1>5

(* A handler runs at once, and leaves WFI behind.                          *)
LEMMA InterruptKeeps ==
  ASSUME IInv, SysTickInterrupt \/ TimerInterrupt \/ OtherInterrupt
  PROVE  IInv'
  <1> USE DEF IInv, Calling, caller, timer, clock, At, SysTickInterrupt, TimerInterrupt,
            OtherInterrupt, Awake
  <1>1. TypeOK'
    <2>1. CASE SysTickInterrupt
      BY <2>1, PeriodAssumption DEF TypeOK, Sleeping
    <2>2. CASE TimerInterrupt
      BY <2>2, PeriodAssumption DEF TypeOK, Sleeping
    <2>3. CASE OtherInterrupt
      BY <2>3, PeriodAssumption DEF TypeOK, Sleeping
    <2> QED
      BY <2>1, <2>2, <2>3
  <1>2. TimerIsTold'
    BY DEF TypeOK, TimerIsTold
  <1>3. UnseenIsPart'
    BY PeriodAssumption DEF TypeOK, UnseenIsPart
  <1>4. TimerIsNotEarly'
    BY DEF TimerIsTold, TimerIsNotEarly, Enough
  <1>5. HaltedNotLong'
    BY CallHas DEF Sleeping, TimerIsTold, HaltedNotLong, Halted, UntilMatch, SinceTick
  <1> QED
    BY <1>1, <1>2, <1>3, <1>4, <1>5

(* Whatever the resolution, the timer is set for long enough. *)
LEMMA StartTimerKeeps ==
  ASSUME IInv, StartTimer
  PROVE  IInv'
  <1>1. requested \in Nat
    BY DEF StartTimer, At, IInv, TypeOK, Sleeping
  <1>2. timer_left' \in Nat /\ Enough(timer_left') /\ timer_left' <= Longest(requested)
    BY <1>1, TimeoutIsEnough, TimeoutIsBounded DEF StartTimer, Enough
  <1> USE DEF IInv, timer, clock, At, StartTimer
  <1>3. TypeOK'
    BY <1>2 DEF TypeOK, Sleeping
  <1>4. TimerIsTold'
    BY DEF TypeOK, TimerIsTold
  <1>5. UnseenIsPart'
    BY DEF UnseenIsPart, Calling
  <1>6. TimerIsNotEarly'
    BY <1>2, CallHas DEF TimerIsTold, TimerIsNotEarly, Enough, Sleeping
  <1>7. HaltedNotLong'
    BY <1>2, CallHas DEF Sleeping, TimerIsTold, HaltedNotLong, Halted, UntilMatch, SinceTick
  <1> QED
    BY <1>3, <1>4, <1>5, <1>6, <1>7

(* While the CPU is halted, time brings the timer's interrupt nearer, or   *)
(* that of SysTick.                                                        *)
LEMMA TickKeeps ==
  ASSUME IInv, Tick
  PROVE  IInv'
  <1>1. /\ tick_phase' \in 0..(TickPeriod - 1)
        /\ \/ tick_phase + 1 < TickPeriod /\ tick_phase' = tick_phase + 1
           \/ tick_phase + 1 = TickPeriod /\ tick_phase' = 0
    BY PeriodAssumption, NextPhase DEF Tick, IInv, TypeOK
  <1>2. /\ ("LPTIM" \in pending' <=> TimerMatches)
        /\ ("SysTick" \in pending' <=> tick_phase' = 0)
        /\ pending' \subseteq {"SysTick", "LPTIM"} /\ pending = {}
    BY DEF Tick
  <1> USE DEF IInv, caller
  <1>3. TypeOK'
    BY <1>1, <1>2 DEF Tick, TypeOK
  <1>4. TimerIsTold'
    BY <1>2 DEF Tick, TypeOK, TimerIsTold, TimerMatches
  <1>5. UnseenIsPart'
    BY DEF Tick, UnseenIsPart, Calling
  <1>6. /\ pc' = pc /\ requested' = requested /\ is_running' = is_running
        /\ elapsed \in Nat /\ lag \in Nat /\ timer_left \in Nat
        /\ elapsed' \in Nat /\ lag' \in Nat
    BY <1>3, CallHas DEF Tick, TypeOK
  <1>7. ASSUME pc \in Sleeping
        PROVE  /\ elapsed' = elapsed + 1
               /\ pc # "asleep" => elapsed' - lag' = elapsed - lag
               /\ elapsed' - lag' <= elapsed - lag + 1
    BY <1>6, <1>7 DEF Tick, Calling, Sleeping, AtRest
  <1>8. (armed' => armed /\ timer_left' = timer_left - 1 /\ timer_left' >= 1)
        /\ ("LPTIM" \in pending' => armed /\ timer_left <= 1)
    <2>1. armed' => armed /\ ~TimerMatches
      BY Zenon DEF Tick
    <2>2. TimerMatches => armed /\ timer_left <= 1
      BY DEF TimerMatches
    <2>3. armed /\ ~TimerMatches => timer_left > 1
      BY <1>6 DEF TimerMatches
    <2>4. timer_left > 1 => timer_left' = timer_left - 1
      BY <1>6 DEF Tick
    <2>5. timer_left > 1 /\ timer_left' = timer_left - 1 => timer_left' >= 1
      BY <1>6
    <2> QED
      BY <1>2, <2>1, <2>2, <2>3, <2>4, <2>5
  <1>9. armed => pc \in {"check", "wfi", "asleep"}
    BY DEF TimerIsTold
  <1>10. ASSUME pc \in Sleeping
         PROVE  requested \in Nat /\ Resolution(requested) \in Nat /\ Longest(requested) \in Nat
    BY <1>10, CallHas
  <1>11. TimerIsNotEarly'
    <2>1. ASSUME armed'
          PROVE  Enough(elapsed + timer_left)'
      <3>1. pc \in Sleeping /\ armed
        BY <1>8, <1>9, <2>1 DEF Sleeping
      <3>2. elapsed' + timer_left' = elapsed + timer_left
        BY <1>6, <1>7, <1>8, <2>1, <3>1
      <3>3. Enough(elapsed + timer_left)
        BY <3>1 DEF TimerIsNotEarly
      <3> QED
        BY <1>6, <3>2, <3>3 DEF Enough
    <2>2. ASSUME pc \in Sleeping, Enough(elapsed)
          PROVE  Enough(elapsed)'
      <3>1. elapsed + Resolution(requested) > requested
        BY <2>2 DEF Enough
      <3>2. elapsed' + Resolution(requested) > requested
        BY <1>6, <1>7, <1>10, <2>2, <3>1
      <3> QED
        BY <1>6, <3>2 DEF Enough
    <2>3. ASSUME "LPTIM" \in pending'
          PROVE  Enough(elapsed)'
      <3>1. pc \in Sleeping /\ armed /\ timer_left <= 1
        BY <1>8, <1>9, <2>3 DEF Sleeping
      <3>2. elapsed + timer_left + Resolution(requested) > requested
        BY <3>1 DEF TimerIsNotEarly, Enough
      <3>3. elapsed' + Resolution(requested) > requested
        BY <1>6, <1>7, <1>10, <3>1, <3>2
      <3> QED
        BY <1>6, <3>3 DEF Enough
    <2> QED
      BY <1>6, <2>1, <2>2, <2>3 DEF TimerIsNotEarly, Sleeping
  <1>12. HaltedNotLong'
    <2>1. pc' \in {"mark", "start"} => Halted' <= 0
      BY <1>6, <1>7 DEF HaltedNotLong, Halted, UntilMatch, SinceTick, Sleeping
    <2>2. ASSUME armed'
          PROVE  Halted' + UntilMatch' <= Longest(requested)
      <3>1. pc \in Sleeping /\ armed /\ timer_left' = timer_left - 1 /\ timer_left' >= 1
        BY <1>8, <1>9, <2>2 DEF Sleeping
      <3>2. timer_left # 0 /\ timer_left' # 0
        BY <1>6, <3>1
      <3>3. (elapsed - lag) + timer_left <= Longest(requested)
        BY <3>1, <3>2 DEF HaltedNotLong, Halted, UntilMatch, SinceTick
      <3>4. (elapsed' - lag') + timer_left' <= Longest(requested)
        <4>1. /\ elapsed' - lag' <= elapsed - lag + 1 /\ Longest(requested) \in Nat
              /\ timer_left' = timer_left - 1
          BY <1>7, <1>10, <3>1
        <4>2. elapsed' - lag' \in Int /\ elapsed - lag \in Int /\ timer_left \in Nat
          BY <1>6
        <4> QED
          BY <3>3, <4>1, <4>2, OneMore
      <3> QED
        BY <3>2, <3>4 DEF Halted, UntilMatch
    <2>3. ASSUME "LPTIM" \in pending'
          PROVE  Halted' <= Longest(requested)
      <3>1. pc \in Sleeping /\ armed /\ timer_left <= 1
        BY <1>8, <1>9, <2>3 DEF Sleeping
      <3>2. (elapsed - lag) + 1 <= Longest(requested)
        <4>1. (elapsed - lag) + UntilMatch <= Longest(requested)
          BY <3>1 DEF HaltedNotLong, Halted, UntilMatch, SinceTick
        <4>2. UntilMatch = 1
          BY <1>6, <3>1 DEF UntilMatch
        <4> QED
          BY <4>1, <4>2
      <3>3. elapsed' - lag' <= Longest(requested)
        <4>1. elapsed' - lag' <= elapsed - lag + 1 /\ Longest(requested) \in Nat
          BY <1>7, <1>10, <3>1
        <4>2. elapsed' - lag' \in Int /\ elapsed - lag \in Int
          BY <1>6
        <4> QED
          BY <3>2, <4>1, <4>2
      <3> QED
        BY <3>3 DEF Halted
    <2>4. pc' = "wfi" => Halted' <= Longest(requested)
      BY <1>6, <1>7, <1>10 DEF HaltedNotLong, Halted, UntilMatch, SinceTick, Sleeping
    <2>5. ASSUME pc' = "asleep", ~is_running'
          PROVE  Halted' <= Longest(requested)
                              + SinceTick'
      <3>1. (elapsed - lag) <= Longest(requested) + tick_phase
        BY <1>2, <1>6, <2>5 DEF HaltedNotLong, Halted, UntilMatch, SinceTick
      <3>2. pc \in Sleeping
        BY <1>6, <2>5 DEF Sleeping
      <3>3. elapsed' - lag' <= Longest(requested) + (tick_phase + 1)
        <4>1. elapsed' - lag' <= elapsed - lag + 1 /\ Longest(requested) \in Nat
          BY <1>7, <1>10, <3>2
        <4>2. elapsed' - lag' \in Int /\ elapsed - lag \in Int /\ tick_phase \in Nat
          BY <1>6, CallHas
        <4> QED
          BY <3>1, <4>1, <4>2
      <3>4. SinceTick' = tick_phase + 1
        BY <1>1, <1>2, CallHas DEF SinceTick
      <3> QED
        BY <3>3, <3>4 DEF Halted
    <2>6. pc' = "check" => Halted' <= Longest(requested) + TickPeriod
      BY <1>6, <1>7, <1>10, CallHas DEF HaltedNotLong, Halted, UntilMatch, SinceTick, Sleeping
    <2> QED
      BY <1>6, <2>1, <2>2, <2>3, <2>4, <2>5, <2>6 DEF HaltedNotLong
  <1> QED
    BY <1>3, <1>4, <1>5, <1>11, <1>12

LEMMA InvariantInit == Init => IInv
  <1> SUFFICES ASSUME Init
               PROVE IInv
    OBVIOUS
  <1> USE PeriodAssumption DEF Init
  <1>1. TypeOK
    <2>1. pc = "idle" /\ pc \notin Sleeping /\ is_running \in BOOLEAN /\ armed \in BOOLEAN
      BY DEF Sleeping
    <2>2. /\ requested \in Int /\ timer_left \in Nat /\ advanced \in Int /\ elapsed \in Nat
          /\ lag \in Nat /\ unseen \in Nat /\ tick_phase \in 0..(TickPeriod - 1)
      OBVIOUS
    <2>3. pending \subseteq {"SysTick", "LPTIM"}
      OBVIOUS
    <2> QED
      BY <2>1, <2>2, <2>3 DEF TypeOK
  <1>2. TimerIsTold /\ UnseenIsPart /\ TimerIsNotEarly /\ HaltedNotLong
    BY DEF TimerIsTold, UnseenIsPart, TimerIsNotEarly, HaltedNotLong, Calling
  <1> QED
    BY <1>1, <1>2 DEF IInv

LEMMA InvariantNext == IInv /\ [Next]_vars => IInv'
  <1> SUFFICES ASSUME IInv, [Next]_vars
               PROVE IInv'
    OBVIOUS
  <1>1. CASE Calls
    <2>1. PICK us \in (0 - MaxLate)..MaxInterval : Sleep(us) \/ Wait(us)
      BY <1>1 DEF Calls
    <2>2. us \in Int
      BY <2>1, PeriodAssumption
    <2>3. CASE Sleep(us)
      <3>1. us \in Nat
        BY <2>2, <2>3, PeriodAssumption DEF Sleep
      <3> QED
        BY <2>2, <2>3, <3>1, BeginCallKeeps DEF Sleep
    <2>4. CASE Wait(us)
      BY <2>2, <2>4, BeginCallKeeps DEF Wait
    <2> QED
      BY <2>1, <2>3, <2>4
  <1>2. CASE Cpu
    BY <1>2, StatementKeeps, StartTimerKeeps DEF Cpu
  <1>3. CASE Handlers \/ OtherInterrupt \/ Tick
    BY <1>3, InterruptKeeps, TickKeeps DEF Handlers
  <1>4. CASE UNCHANGED vars
    BY <1>4 DEF vars, IInv, TypeOK, TimerIsTold, UnseenIsPart, TimerIsNotEarly,
                HaltedNotLong, Enough, Halted, UntilMatch, SinceTick, Calling
  <1> QED
    BY <1>1, <1>2, <1>3, <1>4 DEF Next

(* IInv, the inductive invariant above, holds in every behaviour: the flag *)
(* of the timer is down only after its interrupt, which never comes early, *)
(* and the CPU is not halted for longer than the timer takes and one tick. *)
THEOREM InvariantHolds == Spec => []IInv
  <1> QED
    BY InvariantInit, InvariantNext, PTL DEF Spec

(* Wherever the timer's interrupt falls between the statements of          *)
(* sleep_us, also between is_running() and WFI, the CPU is awake again     *)
(* after one period of SysTick.                                            *)
THEOREM WakeupIsNotLost == Spec => []WakesWithinATick
  <1>1. IInv => WakesWithinATick
    <2> SUFFICES ASSUME IInv, pc \in {"check", "wfi", "asleep"}
                 PROVE elapsed <= Longest(requested) + TickPeriod + lag
      BY DEF WakesWithinATick, Longest
    <2>1. /\ Longest(requested) \in Nat /\ TickPeriod \in Nat /\ tick_phase \in Nat
          /\ elapsed \in Nat /\ lag \in Nat /\ timer_left \in Nat /\ tick_phase < TickPeriod
      BY CallHas DEF Sleeping
    <2>2. elapsed - lag <= Longest(requested) + TickPeriod
      <3>1. CASE pc \in {"check", "wfi"}
        BY <2>1, <3>1 DEF IInv, HaltedNotLong, Halted
      <3>2. CASE pc = "asleep" /\ ~is_running
        <4>1. elapsed - lag <= Longest(requested) + SinceTick
          BY <3>2 DEF IInv, HaltedNotLong, Halted
        <4> QED
          BY <2>1, <4>1 DEF SinceTick
      <3>3. CASE pc = "asleep" /\ armed
        <4>1. elapsed - lag + UntilMatch <= Longest(requested)
          BY <3>3 DEF IInv, HaltedNotLong, Halted
        <4> QED
          BY <2>1, <4>1 DEF UntilMatch
      <3>4. CASE pc = "asleep" /\ "LPTIM" \in pending
        BY <2>1, <3>4 DEF IInv, HaltedNotLong, Halted
      <3> QED
        BY <3>1, <3>2, <3>3, <3>4 DEF IInv, TimerIsTold
    <2> QED
      BY <2>1, <2>2
  <1> QED
    BY <1>1, InvariantHolds, PTL

(* For any resolution of the timer and any interrupts: sleep_us does not   *)
(* return before its time, but for the timer's rounding, and the clock has *)
(* moved on by what was asked for, whatever SysTick does to the sum.       *)
THEOREM SleepIsLongEnough == Spec => SleepTakesItsTime
  <1>1. ASSUME IInv, Next, SleepReturns
        PROVE  /\ elapsed + Resolution(requested) > requested
               /\ requested >= StopThreshold => advanced' >= requested
    <2>1. CheckTimer \/ StoreTicks
      BY <1>1 DEF Next, Calls, Sleep, Wait, BeginCall, Cpu, Handlers, At, SleepReturns,
                  MarkRunning, StartTimer, EnterSleepMode, LoadTicks, EndWait,
                  SysTickInterrupt, TimerInterrupt, OtherInterrupt, Tick, Awake, caller
    <2>2. CASE CheckTimer
      <3>1. ~is_running /\ pc = "check" /\ requested < StopThreshold
        BY <1>1, <2>2 DEF CheckTimer, At, SleepReturns
      <3>2. ~(requested >= StopThreshold)
        BY <1>1, <3>1, CallHas, PeriodAssumption
      <3> QED
        BY <1>1, <3>1, <3>2 DEF IInv, TimerIsNotEarly, Enough
    <2>3. CASE StoreTicks
      <3>1. advanced' = advanced - unseen + requested /\ pc = "store"
        BY <2>3 DEF StoreTicks, At
      <3>2. unseen <= advanced
        BY <1>1, <3>1 DEF IInv, UnseenIsPart, Calling
      <3>3. advanced' >= requested
        BY <1>1, <3>1, <3>2, CallHas
      <3> QED
        BY <1>1, <3>1, <3>3 DEF IInv, TimerIsNotEarly, Enough
    <2> QED
      BY <2>1, <2>2, <2>3
  <1>2. IInv /\ [Next]_vars =>
          [SleepReturns =>
             /\ elapsed + Resolution(requested) > requested
             /\ requested >= StopThreshold => advanced' >= requested]_vars
    BY <1>1
  <1> QED
    BY <1>2, InvariantHolds, PTL DEF Spec, SleepTakesItsTime

-----------------------------------------------------------------------------
(* How far the clock is behind the time.  SysTick counts every period of a *)
(* call; a long sleep loses what it counts between the load and the store  *)
(* of uwTick += us, which take no more than MaxLag.                        *)
CountsTime ==
  /\ "SysTick" \in pending => tick_phase = 0
  /\ lag <= MaxLag
  /\ Calling => elapsed <= advanced + SinceTick
  /\ pc \in {"load", "store"} => requested >= StopThreshold
  /\ pc = "store" => unseen + SinceTick < TickPeriod + lag

LEMMA CountsTimeInit == Init => CountsTime
  BY PeriodAssumption DEF Init, CountsTime, Calling

LEMMA CpuCountsTime ==
  ASSUME IInv, CountsTime, Cpu \/ (\E us \in Int, first \in {"mark", "wait"} : BeginCall(us, first))
  PROVE  CountsTime'
  <1>1. CASE Cpu
    <2> USE CallHas, PeriodAssumption DEF IInv, TypeOK, CountsTime, Calling, SinceTick, At, timer, clock
    <2>1. CASE MarkRunning \/ EnterSleepMode
      BY <2>1 DEF MarkRunning, EnterSleepMode
    <2>2. CASE StartTimer
      BY <2>2 DEF StartTimer
    <2>3. CASE CheckTimer
      BY <2>3 DEF CheckTimer
    <2>4. CASE LoadTicks
      BY <2>4 DEF LoadTicks
    <2>5. CASE StoreTicks \/ EndWait
      BY <2>5 DEF StoreTicks, EndWait
    <2> QED
      BY <1>1, <2>1, <2>2, <2>3, <2>4, <2>5 DEF Cpu
  <1>2. ASSUME NEW us \in Int, NEW first \in {"mark", "wait"}, BeginCall(us, first)
        PROVE  CountsTime'
    BY <1>2, CallHas, PeriodAssumption DEF CountsTime, Calling, SinceTick, BeginCall, At, timer
  <1> QED
    BY <1>1, <1>2

LEMMA InterruptCountsTime ==
  ASSUME IInv, CountsTime, SysTickInterrupt \/ TimerInterrupt \/ OtherInterrupt
  PROVE  CountsTime'
  <1> USE CallHas, PeriodAssumption DEF CountsTime, Calling, SinceTick, Awake, timer, clock
  <1>1. CASE SysTickInterrupt
    BY <1>1 DEF SysTickInterrupt
  <1>2. CASE TimerInterrupt
    BY <1>2 DEF TimerInterrupt
  <1>3. CASE OtherInterrupt
    BY <1>3 DEF OtherInterrupt
  <1> QED
    BY <1>1, <1>2, <1>3

LEMMA TickCountsTime ==
  ASSUME IInv, CountsTime, Tick
  PROVE  CountsTime'
  <1>1. /\ pending = {} /\ ("SysTick" \in pending' <=> tick_phase' = 0)
        /\ pc' = pc /\ requested' = requested /\ advanced' = advanced /\ unseen' = unseen
    BY DEF Tick, caller
  <1>2. SinceTick = tick_phase /\ SinceTick' = tick_phase + 1
    <2>1. \/ tick_phase + 1 < TickPeriod /\ tick_phase' = tick_phase + 1
          \/ tick_phase + 1 = TickPeriod /\ tick_phase' = 0
      BY PeriodAssumption, NextPhase DEF Tick, IInv, TypeOK
    <2> QED
      BY <1>1, <2>1, CallHas DEF SinceTick
  <1>3. /\ lag' <= MaxLag
        /\ Calling => elapsed' = elapsed + 1
        /\ pc = "store" => lag' = lag + 1
    BY CallHas, PeriodAssumption DEF Tick, AtRest, CountsTime
  <1>4. Calling' => elapsed' <= advanced' + SinceTick'
    BY <1>1, <1>2, <1>3, CallHas DEF CountsTime, Calling
  <1>5. pc' = "store" => unseen' + SinceTick' < TickPeriod + lag'
    BY <1>1, <1>2, <1>3, CallHas DEF CountsTime
  <1> QED
    BY <1>1, <1>3, <1>4, <1>5 DEF CountsTime

LEMMA CountsTimeNext == IInv /\ CountsTime /\ [Next]_vars => CountsTime'
  <1> SUFFICES ASSUME IInv, CountsTime, [Next]_vars
               PROVE  CountsTime'
    OBVIOUS
  <1>1. CASE Calls
    <2>1. PICK us \in (0 - MaxLate)..MaxInterval : Sleep(us) \/ Wait(us)
      BY <1>1 DEF Calls
    <2>2. us \in Int /\ (BeginCall(us, "mark") \/ BeginCall(us, "wait"))
      BY <2>1, PeriodAssumption DEF Sleep, Wait
    <2> QED
      BY <2>2, CpuCountsTime
  <1>2. CASE Cpu
    BY <1>2, CpuCountsTime
  <1>3. CASE Handlers \/ OtherInterrupt \/ Tick
    BY <1>3, InterruptCountsTime, TickCountsTime DEF Handlers
  <1>4. CASE UNCHANGED vars
    BY <1>4 DEF vars, CountsTime, SinceTick, Calling
  <1> QED
    BY <1>1, <1>2, <1>3, <1>4 DEF Next

(* If the statements of a call take less time than the shortest interval   *)
(* that is added by hand, then the clock falls behind by less than one     *)
(* period in a call, although uwTick += us may lose what SysTick adds      *)
(* meanwhile: one tick at most, against the sleep that was counted twice.  *)
THEOREM ClockIsNotLeftBehind ==
  ASSUME MaxLag < StopThreshold
  PROVE  Spec => ClockKeepsUp
  <1>1. ASSUME IInv, CountsTime, Next, Calling, ~Calling'
        PROVE  elapsed < advanced' + TickPeriod
    <2>1. CheckTimer \/ StoreTicks \/ EndWait
      BY <1>1 DEF Next, Calls, Sleep, Wait, BeginCall, Cpu, Handlers, At, Calling,
                  MarkRunning, StartTimer, EnterSleepMode, LoadTicks,
                  SysTickInterrupt, TimerInterrupt, OtherInterrupt, Tick, Awake, caller
    <2>2. pending = {} /\ SinceTick = tick_phase /\ elapsed <= advanced + tick_phase
      BY <1>1, <2>1 DEF CheckTimer, StoreTicks, EndWait, At, SinceTick, CountsTime
    <2>3. CASE CheckTimer \/ EndWait
      <3>1. advanced' = advanced
        BY <2>3 DEF CheckTimer, EndWait, clock
      <3> QED
        BY <1>1, <2>2, <3>1, CallHas
    <2>4. CASE StoreTicks
      <3>1. advanced' = advanced - unseen + requested /\ pc = "store"
        BY <2>4 DEF StoreTicks, At
      <3>2. /\ unseen + tick_phase < TickPeriod + lag
            /\ lag <= MaxLag /\ requested >= StopThreshold
        BY <1>1, <2>2, <3>1 DEF CountsTime
      <3>3. lag < requested
        BY <1>1, <3>2, CallHas, PeriodAssumption
      <3> QED
        BY <1>1, <2>2, <3>1, <3>2, <3>3, CallHas
    <2> QED
      BY <2>1, <2>3, <2>4
  <1>2. IInv /\ CountsTime /\ [Next]_vars =>
          [Calling /\ ~Calling' => elapsed < advanced' + TickPeriod]_vars
    BY <1>1
  <1> QED
    BY <1>2, CountsTimeInit, CountsTimeNext, InvariantHolds, PTL DEF Spec, ClockKeepsUp

=============================================================================
