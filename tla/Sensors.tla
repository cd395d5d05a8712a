------------------------------ MODULE Sensors ------------------------------
(***************************************************************************)
(* bringup/monitor_power.h and bringup/monitor_imu.h with the drivers of   *)
(* the INA260 power monitor and the BMI323 IMU: two tasks, each with a     *)
(* sensor of its own, on one I2C bus.  A task runs from one co_yield to    *)
(* the next without the other.  Only its sensor and its clock matter to a  *)
(* task, so time is what is left until the sensor has a first result.      *)
(***************************************************************************)
EXTENDS Integers, FiniteSets

CONSTANTS
  Times, Averages, \* what the power monitor's setters are asked for
  Interval,        \* the interval that the tasks are given
  ClockRate,       \* how fast the clock of co_yield runs, at most
  Samples,         \* registers of the sensors, unsigned 16 bits
  MaxFaults        \* bound: transfers that fail

Sensor == {"power", "imu"}
Registers(s) == IF s = "power" THEN {"id", "current", "voltage", "power"}
                               ELSE {"id", "accelerometer", "gyroscope"}

VARIABLES
  configured,      \* the indices in the two tables, set before the task starts
  pc,              \* of each task: "closed", "starting" or "measuring"
  held,            \* i2c_ of each driver is valid
  device,          \* each sensor: "standby", "half" or "on"
  left,            \* each sensor: time until its first result
  output,          \* what each task reported last
  halted,          \* require() failed: error() never returns
  faults

vars == <<configured, pc, held, device, left, output, halted, faults>>

MEASUREMENT_TIMES == <<154, 224, 365, 646, 1210, 2328, 4572, 9068>>
SAMPLE_AVERAGING_VALUES == <<1, 4, 16, 64, 128, 256, 512, 1024>>

(* set_..._approximate: the nearest entry, the first of two. *)
Nearest(table, x) ==
  LET delta(i) == IF table[i] > x THEN table[i] - x ELSE x - table[i]
      best == {i \in DOMAIN table : \A j \in DOMAIN table : delta(i) <= delta(j)}
  IN  CHOOSE i \in best : \A j \in best : i <= j

OneMeasurement ==
  MEASUREMENT_TIMES[configured.current] + MEASUREMENT_TIMES[configured.voltage]
(* How soon the IMU has a result is nowhere in the repository: assumed now. *)
FirstResult(s) ==
  IF s = "power" THEN SAMPLE_AVERAGING_VALUES[configured.averaging] * OneMeasurement
                 ELSE 0

(* Fault: the delay is that of one sample. *)
StartupDelayOfOne(s) == IF s = "power" THEN OneMeasurement + 5000 ELSE 5000

StartupDelay(s) == IF s = "power" THEN FirstResult(s) + 5000 ELSE 5000

AlwaysOn(s) == Interval <= StartupDelay(s)

Init ==
  /\ configured \in [current : {Nearest(MEASUREMENT_TIMES, t) : t \in Times},
                     voltage : {Nearest(MEASUREMENT_TIMES, t) : t \in Times},
                     averaging : {Nearest(SAMPLE_AVERAGING_VALUES, n) : n \in Averages}]
  /\ pc = [s \in Sensor |-> "closed"] /\ held = [s \in Sensor |-> FALSE]
  /\ device = [s \in Sensor |-> "standby"] /\ left = [s \in Sensor |-> 0]
  /\ output = [s \in Sensor |-> [ok |-> FALSE, true |-> FALSE, word |-> 0]]
  /\ halted = FALSE /\ faults = 0

-----------------------------------------------------------------------------
(* access(), whose enable() takes the bus, requires an answer of the       *)
(* sensor and configures it; then co_yield startup_delay.                  *)
Open(s) ==
  /\ pc[s] = "closed" /\ ~halted
  /\ held' = [held EXCEPT ![s] = TRUE]
  /\ \/ /\ device' = [device EXCEPT ![s] = "on"]
        /\ left' = [left EXCEPT ![s] = FirstResult(s)]
        /\ pc' = [pc EXCEPT ![s] = "starting"]
        /\ UNCHANGED <<halted, faults>>
     \/ /\ faults < MaxFaults
        /\ halted' = TRUE /\ faults' = faults + 1
        /\ UNCHANGED <<device, left, pc>>
  /\ UNCHANGED <<configured, output>>

(* What is left after a co_yield of t *)
Waited(s, t) ==
  left' = [left EXCEPT ![s] = IF @ > t \div ClockRate THEN @ - t \div ClockRate ELSE 0]

(* last_read_result: every register was read. *)
Result(s, read) == read = Registers(s)

(* reset() and the reads, each of which may fail and leave its field as    *)
(* reset() made it.                                                        *)
Read(s, read) ==
  \E w \in Samples :
    output' = [output EXCEPT ![s] =
      [ok |-> Result(s, read), word |-> IF read = Registers(s) THEN w ELSE 0,
       true |-> read = Registers(s) /\ device[s] = "on" /\ left'[s] = 0]]

Failed(steps) ==
  LET n == faults + Cardinality({k \in DOMAIN steps : ~steps[k]})
  IN  n <= MaxFaults /\ faults' = n

(* put_in_standby_mode, whose result nobody looks at, and the end of the   *)
(* handle.  The IMU takes two writes: no second one after one that failed. *)
PutInStandby(s, done) ==
  /\ held' = [held EXCEPT ![s] = FALSE]
  /\ \/ done /\ device' = [device EXCEPT ![s] = "standby"]
     \/ ~done /\ UNCHANGED device
     \/ ~done /\ s = "imu" /\ device' = [device EXCEPT ![s] = "half"]

(* The sensor is read after startup_delay, and shut down until the next time *)
Measure(s) ==
  /\ pc[s] = "starting" /\ ~halted /\ ~AlwaysOn(s)
  /\ Waited(s, StartupDelay(s))
  /\ \E read \in SUBSET Registers(s), done \in BOOLEAN :
       Read(s, read) /\ PutInStandby(s, done) /\ Failed(<<read = Registers(s), done>>)
  /\ pc' = [pc EXCEPT ![s] = "closed"]
  /\ UNCHANGED <<configured, halted>>

(* or left on and read again after the time of one measurement. *)
MeasureAgain(s) ==
  /\ pc[s] # "closed" /\ ~halted /\ AlwaysOn(s)
  /\ Waited(s, IF pc[s] = "starting" THEN StartupDelay(s)
               ELSE IF s = "imu" THEN 5000 ELSE OneMeasurement)
  /\ \E read \in SUBSET Registers(s) : Read(s, read) /\ Failed(<<read = Registers(s)>>)
  /\ pc' = [pc EXCEPT ![s] = "measuring"]
  /\ UNCHANGED <<configured, held, device, halted>>

Next == \E s \in Sensor : Open(s) \/ Measure(s) \/ MeasureAgain(s)

Spec == Init /\ [][Next]_vars

-----------------------------------------------------------------------------
(* A reading that a task reports as good has all of its values, and the    *)
(* sensor had measured them since it was turned on: last_read_result and   *)
(* startup_delay, on a clock that may run ahead.                           *)
ReadingsAreTrue == \A s \in Sensor : output[s].ok => output[s].true

(* Between two readings a sensor draws nothing unless a transfer failed,   *)
(* and nothing keeps the I2C bus on: the blocks of monitor_power.h:40 and  *)
(* monitor_imu.h:38.                                                       *)
SleepsBetweenReadings ==
  \A s \in Sensor : pc[s] = "closed" /\ ~halted =>
    ~held[s] /\ (device[s] = "standby" \/ faults > 0)

(* Readings are true, and sensors and bus rest between them. *)
MonitorsAreSound == ReadingsAreTrue /\ SleepsBetweenReadings

(* What read_accelerometer and read_gyroscope scale to the float, whose    *)
(* high byte is promoted from uint8_t, and the int16_t it stores as raw.   *)
Scaled(w) == (w \div 256) * 256 + (w % 256)
Raw(w) == IF w >= 32768 THEN w - 65536 ELSE w

(* The two results of the IMU are one acceleration (bmi323_imu.cc:109).    *)
FloatAgreesWithRaw == output["imu"].ok => Scaled(output["imu"].word) = Raw(output["imu"].word)

=============================================================================
