--------------------------- MODULE EmbeddedClock ---------------------------
(***************************************************************************)
(* EmbeddedClock::sleep_us and wait_us over the SysTick counter uwTick,    *)
(* the low-power timer LPTIM1 and WFI, as the STM32L4 targets run them.    *)
(*                                                                         *)
(* The CPU runs one statement of sleep_us per action; the two interrupt    *)
(* handlers strike between any two of them.  Only differences of uwTick       *)
(* matter, so a call is followed by three of them: how far uwTick has      *)
(* moved (advanced), how much time has really passed (elapsed), and how    *)
(* far uwTick has moved since increment_micros read it (unseen).           *)
(***************************************************************************)
EXTENDS Integers, FiniteSetsExt

CONSTANTS
  TickPeriod,     \* microseconds between SysTick interrupts (1000)
  SleepFloor,     \* TIME_TO_START_TIMER_US (25)
  StopThreshold,  \* TIME_TO_WAKE_FROM_STOP_MODE_US (500)
  LsiPeriod,      \* one tick of the 32kHz oscillator
  DirectRange,    \* the first interval that needs a prescaler (2048000)
  Prescalers,     \* LPTIM_PRESCALER_DIVx: powers of two, 1 to 128
  CounterTurn,    \* the time the 16-bit counter takes to come round
  MaxInterval,    \* bound: the longest sleep or wait asked for
  MaxLate,        \* bound: how far in the past the instant asked for may be
  MaxLag,         \* bound: time a call spends between its statements
  MaxElapsed      \* bound: the length of a call; no call lasts that long

ASSUME PeriodAssumption ==
  /\ TickPeriod \in Nat \ {0} /\ LsiPeriod \in Nat \ {0}
  /\ SleepFloor \in Nat \ {0} /\ StopThreshold \in Nat
  /\ CounterTurn \in Nat /\ DirectRange \in Nat
  /\ MaxInterval \in Nat /\ MaxLate \in Nat /\ MaxLag \in Nat
  /\ MaxElapsed \in Nat
  /\ Prescalers # {} /\ Prescalers \subseteq Nat \ {0} /\ IsFiniteSet(Prescalers)

VARIABLES
  pc,          \* the statement the caller has reached
  requested,   \* microseconds, the argument of the last call
  is_running,  \* is_running_ of Stm32l4xxLptim
  armed,       \* the hardware timer is counting
  timer_left,  \* time until it interrupts
  tick_phase,  \* time since the last SysTick
  pending,     \* interrupts raised and not yet handled
  advanced,    \* uwTick now, less uwTick when the call began
  elapsed,     \* time since the call began
  lag,         \* the part of it the CPU spent between two statements
  unseen       \* uwTick now, less the uwTick that increment_micros loaded

vars == <<pc, requested, is_running, armed, timer_left, tick_phase, pending,
          advanced, elapsed, lag, unseen>>

caller == <<pc, requested>>
timer  == <<is_running, armed, timer_left>>
clock  == <<tick_phase, advanced, elapsed, lag, unseen>>

Calling == pc # "idle"

(* The ladder of start(): the smallest divider whose range holds us. *)
Prescaler(us) ==
  LET fits == {p \in Prescalers : us < DirectRange * p}
  IN  IF fits = {} THEN Max(Prescalers) ELSE Min(fits)

Resolution(us) == LsiPeriod * Prescaler(us)

TimeoutTicks(us) == us \div Resolution(us)

(* Fault: the ticks are divided, but the prescaler stays at DIV1. *)
TimeoutsWithoutPrescaler(us) ==
  IF TimeoutTicks(us) = 0 THEN {0, CounterTurn} ELSE {TimeoutTicks(us) * LsiPeriod}

(* A compare value of 0 matches at once or after a turn of the counter,    *)
(* which the vendor's HAL leaves to the hardware.                          *)
Timeouts(us) ==
  IF TimeoutTicks(us) = 0 THEN {0, CounterTurn}
                          ELSE {TimeoutTicks(us) * Resolution(us)}

-----------------------------------------------------------------------------
Init ==
  /\ pc = "idle" /\ requested = 0
  /\ is_running = FALSE /\ armed = FALSE /\ timer_left = 0
  /\ tick_phase \in 0..(TickPeriod - 1)
  /\ pending = {}
  /\ advanced = 0 /\ elapsed = 0 /\ lag = 0 /\ unseen = 0

(* Nothing masks interrupts: their handlers run before the next statement. *)
At(statement) == pc = statement /\ pending = {}

BeginCall(us, first) ==
  /\ At("idle")
  /\ pc' = first
  /\ requested' = us
  /\ advanced' = 0 /\ elapsed' = 0 /\ lag' = 0 /\ unseen' = 0
  /\ UNCHANGED <<timer, tick_phase, pending>>

(* sleep_us of an interval worth sleeping; a shorter one, or one that ends *)
(* in the past, returns at once.                                           *)
Sleep(us) == us >= SleepFloor /\ BeginCall(us, "mark")

(* The first half of start(): the flag is up before the hardware runs. *)
MarkRunning ==
  /\ At("mark")
  /\ is_running' = TRUE
  /\ pc' = "start"
  /\ UNCHANGED <<requested, armed, timer_left, clock, pending>>

StartTimer ==
  /\ At("start")
  /\ armed' = TRUE
  /\ timer_left' \in Timeouts(requested)
  /\ pc' = "check"
  /\ UNCHANGED <<requested, is_running, clock, pending>>

(* Fault: a long sleep does not move the tick counter on. *)
CheckTimerOnly ==
  /\ At("check")
  /\ pc' = IF is_running THEN "wfi" ELSE "idle"
  /\ UNCHANGED <<requested, timer, clock, pending>>

(* while (timer_.is_running()), in both branches of sleep_us. *)
CheckTimer ==
  /\ At("check")
  /\ pc' = IF is_running THEN "wfi"
           ELSE IF requested < StopThreshold THEN "idle" ELSE "load"
  /\ UNCHANGED <<requested, timer, clock, pending>>

(* enter_sleep_mode, that is WFI: the CPU halts until an interrupt. *)
EnterSleepMode ==
  /\ At("wfi")
  /\ pc' = "asleep"
  /\ UNCHANGED <<requested, timer, clock, pending>>

(* uwTick += us, the load... *)
LoadTicks ==
  /\ At("load")
  /\ pc' = "store"
  /\ unseen' = 0
  /\ UNCHANGED <<requested, timer, tick_phase, advanced, elapsed, lag, pending>>

(* Fault: the sum is of the uwTick that was there when the call began. *)
StoreTicksOfCallStart ==
  /\ At("store")
  /\ pc' = "idle"
  /\ advanced' = requested
  /\ UNCHANGED <<requested, timer, tick_phase, elapsed, lag, unseen, pending>>

(* ... and the store, which undoes what SysTick added since.  The clock    *)
(* speed restored after it is the one in use already.                      *)
StoreTicks ==
  /\ At("store")
  /\ pc' = "idle"
  /\ advanced' = advanced - unseen + requested
  /\ UNCHANGED <<requested, timer, tick_phase, elapsed, lag, unseen, pending>>

Wait(us) == BeginCall(us, "wait")

EndWait ==
  /\ At("wait")
  /\ advanced >= requested
  /\ pc' = "idle"
  /\ UNCHANGED <<requested, timer, clock, pending>>

-----------------------------------------------------------------------------
Awake == IF pc = "asleep" THEN "check" ELSE pc

SysTickInterrupt ==
  /\ "SysTick" \in pending
  /\ pending' = pending \ {"SysTick"}
  /\ pc' = Awake
  /\ advanced' = IF Calling THEN advanced + TickPeriod ELSE advanced
  /\ unseen' = IF pc = "store" THEN unseen + TickPeriod ELSE unseen
  /\ UNCHANGED <<requested, timer, tick_phase, elapsed, lag>>

(* Fault: the flag stays up. *)
TimerInterruptUnnoticed ==
  /\ "LPTIM" \in pending
  /\ pending' = pending \ {"LPTIM"}
  /\ pc' = Awake
  /\ UNCHANGED <<requested, timer, clock>>

TimerInterrupt ==
  /\ "LPTIM" \in pending
  /\ pending' = pending \ {"LPTIM"}
  /\ pc' = Awake
  /\ is_running' = FALSE
  /\ UNCHANGED <<requested, armed, timer_left, clock>>

(* Any other interrupt (CAN bus, ADC) ends WFI as well. *)
OtherInterrupt ==
  /\ pc = "asleep"
  /\ pc' = Awake
  /\ UNCHANGED <<requested, timer, clock, pending>>

AtRest == pc \in {"idle", "asleep"} \/ (pc = "wait" /\ advanced < requested)

(* The match that ends the interval; a compare value of 0 matches at once. *)
TimerMatches == armed /\ timer_left <= 1

(* Fault: SysTick stands still while the CPU is halted, as it would if     *)
(* sleep_us entered stop mode.                                             *)
TickInStopMode ==
  /\ pending = {}
  /\ AtRest \/ lag < MaxLag
  /\ elapsed < MaxElapsed
  /\ lag' = IF AtRest THEN lag ELSE lag + 1
  /\ elapsed' = IF Calling THEN elapsed + 1 ELSE elapsed
  /\ tick_phase' = IF pc = "asleep" THEN tick_phase ELSE (tick_phase + 1) % TickPeriod
  /\ timer_left' = IF timer_left > 0 THEN timer_left - 1 ELSE 0
  /\ armed' = (armed /\ ~TimerMatches)
  /\ pending' = {i \in {"SysTick", "LPTIM"} :
                   IF i = "SysTick" THEN pc # "asleep" /\ tick_phase' = 0 ELSE TimerMatches}
  /\ UNCHANGED <<caller, is_running, advanced, unseen>>

(* One microsecond passes.  The statements of a call take no more than     *)
(* MaxLag altogether.                                                      *)
Tick ==
  /\ pending = {}
  /\ AtRest \/ lag < MaxLag
  /\ elapsed < MaxElapsed
  /\ lag' = IF AtRest THEN lag ELSE lag + 1
  /\ elapsed' = IF Calling THEN elapsed + 1 ELSE elapsed
  /\ tick_phase' = (tick_phase + 1) % TickPeriod
  /\ timer_left' = IF timer_left > 0 THEN timer_left - 1 ELSE 0
  /\ armed' = (armed /\ ~TimerMatches)
  /\ pending' = {i \in {"SysTick", "LPTIM"} :
                   IF i = "SysTick" THEN tick_phase' = 0 ELSE TimerMatches}
  /\ UNCHANGED <<caller, is_running, advanced, unseen>>

-----------------------------------------------------------------------------
Calls == \E us \in (0 - MaxLate)..MaxInterval : Sleep(us) \/ Wait(us)

Cpu == MarkRunning \/ StartTimer \/ CheckTimer \/ EnterSleepMode
         \/ LoadTicks \/ StoreTicks \/ EndWait

Handlers == SysTickInterrupt \/ TimerInterrupt

Next == Calls \/ Cpu \/ Handlers \/ OtherInterrupt \/ Tick

(* The CPU runs, and time passes however often interrupts wake it.  A      *)
(* program need not call anything, nor another interrupt ever come.        *)
Fairness == WF_vars(Cpu) /\ WF_vars(Handlers) /\ SF_vars(Tick)

Spec == Init /\ [][Next]_vars

FairSpec == Spec /\ Fairness

-----------------------------------------------------------------------------
SleepReturns == pc \in {"check", "store"} /\ pc' = "idle"

(* What the scheduler counts on.  No interrupt other than the timer's ends *)
(* a sleep: the time asked for has really passed, up to the rounding of    *)
(* the timer.  And after a long sleep the clock shows at least that time,  *)
(* although SysTick may strike in the middle of uwTick += us.              *)
SleepTakesItsTime ==
  [][SleepReturns =>
       /\ elapsed + Resolution(requested) > requested
       /\ requested >= StopThreshold => advanced' >= requested]_vars

(* What SysTick adds between the load and the store of uwTick += us is     *)
(* lost.  That the interval is added on top of what SysTick counted must   *)
(* make up for it: during a call the clock falls behind the time by less   *)
(* than one period, as one would that only SysTick moves.                  *)
ClockKeepsUp ==
  [][Calling /\ ~Calling' => elapsed < advanced' + TickPeriod]_vars

(* The timer may strike between is_running() and WFI.  SysTick then ends   *)
(* the sleep, so it overruns by at most one period.                        *)
WakesWithinATick ==
  pc \in {"check", "wfi", "asleep"} =>
    elapsed <= Max(Timeouts(requested) \union {1}) + TickPeriod + lag

(* Every call of sleep_us and wait_us returns. *)
CallsReturn == Calling ~> ~Calling

(* "we manually update the tick counter with the amount of time we spent   *)
(* in stop mode", because SysTick does not run there: no time is counted   *)
(* twice, and the clock is never ahead of the time by a whole period.      *)
TimeIsCountedOnce == advanced <= elapsed + TickPeriod

=============================================================================
