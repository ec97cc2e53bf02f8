----------------------------- MODULE C3Sensors ------------------------------
(***************************************************************************)
(* The measuring half of the C3 pen node, src/c3_node.cpp: the Hall sensor *)
(* (TMAG5273, I2C) and the IMU (LSM6DSR, SPI), their reading, their loss   *)
(* and retry, what a sample says of its readings, and the standby of a pen *)
(* that lies still.  C3Sender has the schedule and what becomes of a       *)
(* sample.                                                                 *)
(*                                                                         *)
(* loop() is one thread; step is where it is, and time passes between any  *)
(* two steps.  A reading is its content where the code looks at it: "zero" *)
(* is the Hall vector (0, 0, 0), and two IMU readings differ when one of   *)
(* their accelerations differs by more than MOTION_DELTA_LSB.  "none" is   *)
(* the reading before the first one, all zero too: gravity alone makes the *)
(* first IMU reading differ from it.                                       *)
(***************************************************************************)
EXTENDS Integers

CONSTANTS
  ClockMod,   (* clock values: 2^32 *)
  ReadPeriod, (* PERIOD_US: a reading younger than this is used again *)
  MaxStale,   (* MAX_STALE_US, after which a reading is not valid *)
  Retry,      (* SENSOR_RETRY_US between attempts to start a sensor *)
  ErrorLimit, (* 3 failed reads in a row lose the sensor *)
  Standby,    (* STANDBY_IDLE_US *)
  MaxLoop,    (* bound: longest time one iteration of loop() takes *)
  SensorFaults   (* bound: changes of a sensor's condition in a run of the node *)

ASSUME SensorAssumption ==
  /\ {ClockMod, ErrorLimit} \subseteq Nat \ {0}
  /\ {ReadPeriod, MaxStale, Retry, Standby, MaxLoop, SensorFaults} \subseteq Nat

Sensors == {"hall", "imu"}

\* The clock wraps every 72 minutes, which no iteration of loop() and no outage
\* that is not yet noticed comes near.
ASSUME WrapAssumption ==
  /\ 1 < ClockMod /\ MaxStale < ClockMod
  /\ ReadPeriod + (2 * ErrorLimit + 1) * MaxLoop < ClockMod

VARIABLES
  t,           (* esp_timer_get_time() as uint32_t *)
  step,        (* where loop() is, or "asleep" *)
  skipped,     (* bound: the last iteration took no sample *)
  ready,       (* hall_ready, imu_ready *)
  last,        (* hall_last, imu_last; 0 for no reading *)
  errors,      (* hall_consecutive_read_errors, imu_... *)
  retry_at,    (* hall_retry_at, imu_retry_at *)
  reading,     (* state.h, state.i *)
  prev,        (* prev_ax to prev_az *)
  motion_at,   (* motion_standby_at; 0 for never *)
  sample,      (* the sample being made: [valid: the sensors, as it says, age: of their
                  readings (history)] *)
  condition,   (* environment: what each sensor would answer *)
  sensor_faults,      (* bound: changes of condition so far *)
  loop_time,   (* history: time since loop() was at its top *)
  read_age,    (* history: age of a reading, MaxStale + 1 if older or of
                  before the sensor was last started *)
  down_for,    (* history: time since a sensor was lost or last tried *)
  at_zero      (* history: the last movement was at 0 of the clock *)

sensors   == <<ready, last, errors, retry_at, reading, read_age, down_for>>
motion    == <<prev, motion_at, at_zero>>
world     == <<condition, sensor_faults>>
sensorVars == <<t, step, skipped, sensors, motion, sample, world, loop_time>>

Passed(a, b)    == (a - b) % ClockMod
IsDue(a, at)    == 2 * Passed(a, at) < ClockMod
Plus(a, d)      == (a + d) % ClockMod
AtMost(n, bound) == IF n < bound THEN n ELSE bound

\* sampleAgeUs32: 0 stands for a sensor that was not read, of any age.
SampleAge(a, since) == IF since = 0 THEN ClockMod ELSE Passed(a, since)

TooOld    == MaxStale + 1
NoSample == [valid |-> {}, age |-> [s \in Sensors |-> TooOld]]
HallAnswers == {"good", "zero", "dead"}
ImuAnswers  == {"up", "down", "dead"}

\* setup(): each sensor is started if it answers, and the deadlines are set.
Booted(c) ==
  /\ t' = 1 /\ skipped' = FALSE /\ loop_time' = 0 /\ step' = "top"
  /\ ready' = [s \in Sensors |-> c[s] # "dead"]
  /\ last' = [s \in Sensors |-> 0]
  /\ errors' = [s \in Sensors |-> 0]
  /\ retry_at' = [s \in Sensors |-> Plus(1, Retry)]
  /\ reading' = [s \in Sensors |-> "none"]
  /\ prev' = "none"
  /\ motion_at' = 0
  /\ at_zero' = FALSE
  /\ sample' = NoSample
  /\ read_age' = [s \in Sensors |-> TooOld]
  /\ down_for' = [s \in Sensors |-> 0]
  /\ sensor_faults' = 0

SensorInit ==
  /\ condition \in [Sensors -> HallAnswers \cup ImuAnswers]
  /\ condition["hall"] \in HallAnswers
  /\ condition["imu"] \in ImuAnswers
  /\ t = 1 /\ skipped = FALSE /\ loop_time = 0 /\ step = "top"
  /\ ready = [s \in Sensors |-> condition[s] # "dead"]
  /\ last = [s \in Sensors |-> 0]
  /\ errors = [s \in Sensors |-> 0]
  /\ retry_at = [s \in Sensors |-> Plus(1, Retry)]
  /\ reading = [s \in Sensors |-> "none"]
  /\ prev = "none"
  /\ motion_at = 0
  /\ at_zero = FALSE
  /\ sample = NoSample
  /\ read_age = [s \in Sensors |-> TooOld]
  /\ down_for = [s \in Sensors |-> 0]
  /\ sensor_faults = 0

\* A node without power.
SensorsUnpowered ==
  /\ condition = [s \in Sensors |-> "dead"]
  /\ t = 1 /\ skipped = FALSE /\ loop_time = MaxLoop /\ step = "unpowered"
  /\ ready = [s \in Sensors |-> TRUE]
  /\ last = [s \in Sensors |-> 0]
  /\ errors = [s \in Sensors |-> 0]
  /\ retry_at = [s \in Sensors |-> Plus(1, Retry)]
  /\ reading = [s \in Sensors |-> "none"]
  /\ prev = "none"
  /\ motion_at = 0
  /\ at_zero = FALSE
  /\ sample = NoSample
  /\ read_age = [s \in Sensors |-> TooOld]
  /\ down_for = [s \in Sensors |-> 0]
  /\ sensor_faults = SensorFaults

-----------------------------------------------------------------------------
(* loop(), up to the sample, and maybeRetrySensors(). *)

IsStandby == motion_at # 0 /\ Passed(t, motion_at) >= Standby

fallAsleep ==
  /\ step = "top"
  /\ IsStandby
  /\ step' = "asleep"
  /\ UNCHANGED <<t, skipped, sensors, motion, sample, world, loop_time>>

\* Tmag5273::begin and Lsm6dsr::begin: the identity is read, the configuration
\* written and read back, and any of it that fails fails all.
HallStarts == condition["hall"] # "dead"
ImuStarts  == condition["imu"] # "dead"

\* The sensors tried again in this iteration, and those that start, the Hall
\* sensor at whichever of its addresses it is found.
RetryDue == {s \in Sensors : ~ready[s] /\ IsDue(t, retry_at[s])}
Starting == {s \in RetryDue : IF s = "hall" THEN HallStarts ELSE ImuStarts}

\* Faulty variant: the time of the last reading survives the outage.
LastKept(s) == last[s]

\* A start forgets the time of the last reading.
LastOf(s) == IF s \in Starting THEN 0 ELSE last[s]

maybeRetrySensors ==
  /\ ready' = [s \in Sensors |-> ready[s] \/ s \in Starting]
  /\ last' = [s \in Sensors |-> LastOf(s)]
  /\ errors' = [s \in Sensors |-> IF s \in Starting THEN 0 ELSE errors[s]]
  /\ retry_at' = [s \in Sensors |-> IF s \in RetryDue THEN Plus(t, Retry) ELSE retry_at[s]]
  /\ read_age' = [s \in Sensors |-> IF s \in Starting THEN TooOld ELSE read_age[s]]
  /\ down_for' = [s \in Sensors |-> IF s \in RetryDue THEN 0 ELSE down_for[s]]

\* An iteration between two samples does nothing else (C3Sender has the
\* schedule, and the rest of loop()).
iterate ==
  /\ step = "top"
  /\ ~IsStandby
  /\ loop_time' = 0
  /\ maybeRetrySensors
  /\ \/ step' = "read hall" /\ skipped' = FALSE
     \/ step' = "top" /\ ~skipped /\ skipped' = TRUE
  /\ UNCHANGED <<t, reading, motion, sample, world>>

-----------------------------------------------------------------------------
(* sampleSensors(), for the Hall sensor and then for the IMU. *)

AfterRead(s) == IF s = "hall" THEN "check hall" ELSE "check imu"
AfterCheck(s) == IF s = "hall" THEN "read imu" ELSE "motion"
Reads(s) == step = (IF s = "hall" THEN "read hall" ELSE "read imu") /\ ready[s]

\* The Hall reading is used again for a while, the IMU is read every time.
ShouldRead(s) == s = "hall" => SampleAge(t, last[s]) >= ReadPeriod

\* Tmag5273::readSample and Lsm6dsr::readSample: all registers, or nothing.
Answers(s) == condition[s] # "dead"

readSucceeds(s) ==
  /\ Reads(s)
  /\ ShouldRead(s)
  /\ Answers(s)
  /\ reading' = [reading EXCEPT ![s] = condition[s]]
  /\ last' = [last EXCEPT ![s] = t]
  /\ errors' = [errors EXCEPT ![s] = 0]
  /\ read_age' = [read_age EXCEPT ![s] = 0]
  /\ step' = AfterRead(s)
  /\ UNCHANGED <<t, skipped, ready, retry_at, down_for, motion, sample, world, loop_time>>

\* Faulty variant: the deadline stays the one of an earlier attempt.
LostKeepingDeadline(s) == retry_at' = retry_at

\* A sensor that is lost is tried again after the retry time.
Lost(s) == retry_at' = [retry_at EXCEPT ![s] = Plus(t, Retry)]

readFails(s) ==
  /\ Reads(s)
  /\ ShouldRead(s)
  /\ ~Answers(s)
  /\ IF errors[s] + 1 < ErrorLimit
       THEN /\ errors' = [errors EXCEPT ![s] = @ + 1]
            /\ UNCHANGED <<ready, retry_at, down_for>>
       ELSE /\ ready' = [ready EXCEPT ![s] = FALSE]
            /\ errors' = [errors EXCEPT ![s] = 0]
            /\ Lost(s)
            /\ down_for' = [down_for EXCEPT ![s] = 0]
  /\ step' = AfterRead(s)
  /\ UNCHANGED <<t, skipped, last, reading, read_age, motion, sample, world, loop_time>>

readNotDue(s) ==
  /\ Reads(s)
  /\ ~ShouldRead(s)
  /\ step' = AfterRead(s)
  /\ UNCHANGED <<t, skipped, sensors, motion, sample, world, loop_time>>

notReady(s) ==
  /\ step = (IF s = "hall" THEN "read hall" ELSE "read imu")
  /\ ~ready[s]
  /\ step' = AfterCheck(s)
  /\ UNCHANGED <<t, skipped, sensors, motion, sample, world, loop_time>>

\* STATUS_HALL_VALID: whether the sensor was lost just now is not asked.
\* STATUS_IMU_VALID: imuValidityBits() does ask.
IsValid(s) ==
  /\ SampleAge(t, last[s]) <= MaxStale
  /\ IF s = "hall" THEN reading[s] # "zero" ELSE ready[s]

check(s) ==
  /\ step = AfterRead(s)
  /\ sample' = IF IsValid(s) THEN [sample EXCEPT !.valid = @ \cup {s}, !.age[s] = read_age[s]]
               ELSE sample
  /\ step' = AfterCheck(s)
  /\ UNCHANGED <<t, skipped, sensors, motion, world, loop_time>>

\* Faulty variant: the first reading is compared with nothing.
MovesLater == ready["imu"] /\ prev # "none" /\ reading["imu"] # prev

\* The difference to the last reading.
Moves == ready["imu"] /\ reading["imu"] # prev

\* Then the sample goes to the FIFO.
noteMotion ==
  /\ step = "motion"
  /\ prev' = IF ready["imu"] THEN reading["imu"] ELSE prev
  /\ motion_at' = IF Moves THEN t ELSE motion_at
  /\ at_zero' = IF ready["imu"] /\ reading["imu"] # prev THEN t = 0 ELSE at_zero
  /\ sample' = NoSample
  /\ step' = "top"
  /\ UNCHANGED <<t, skipped, sensors, world, loop_time>>

SensorLoop ==
  \/ fallAsleep \/ iterate
  \/ \E s \in Sensors :
       \/ readSucceeds(s) \/ readFails(s) \/ readNotDue(s) \/ notReady(s) \/ check(s)
  \/ noteMotion

-----------------------------------------------------------------------------
(* The world. *)

fault ==
  /\ step # "asleep"
  /\ sensor_faults < SensorFaults
  /\ sensor_faults' = sensor_faults + 1
  /\ \/ \E c \in HallAnswers \ {condition["hall"]} : condition' = [condition EXCEPT !["hall"] = c]
     \/ \E c \in ImuAnswers \ {condition["imu"]} : condition' = [condition EXCEPT !["imu"] = c]
  /\ UNCHANGED <<t, step, skipped, sensors, motion, sample, loop_time>>

\* The RST button wakes the node.
reset ==
  /\ step = "asleep"
  /\ Booted(condition)
  /\ UNCHANGED condition

LongestDown == Retry + MaxLoop

passTime ==
  /\ step # "asleep"
  /\ loop_time < MaxLoop
  /\ t' = Plus(t, 1)
  /\ loop_time' = loop_time + 1
  /\ read_age' = [s \in Sensors |-> AtMost(read_age[s] + 1, TooOld)]
  /\ down_for' = [s \in Sensors |->
                    IF ready[s] THEN 0 ELSE AtMost(down_for[s] + 1, LongestDown + 1)]
  /\ UNCHANGED <<step, skipped, ready, last, errors, retry_at, reading, motion,
                 sample, world>>

SensorNext == SensorLoop \/ fault \/ reset \/ passTime

\* loop() and the timer go on.
SensorFairness == WF_sensorVars(SensorLoop) /\ WF_sensorVars(passTime)

SensorSpec == SensorInit /\ [][SensorNext]_sensorVars /\ SensorFairness

-----------------------------------------------------------------------------
\* include/brush_sensor_status.h:5, "wrap-safe for small ages": a sample says
\* VALID only of a reading taken since its sensor was last started and no
\* older than MAX_STALE_US, whatever the outage and however the clock wraps.
ValidIsRecent ==
  \A s \in sample.valid : sample.age[s] <= MaxStale

\* A sensor that is down is tried again within the retry time and the
\* iteration of loop() in which it falls due, across wraps of the clock.
SensorIsRetried ==
  \A s \in Sensors : ~ready[s] => down_for[s] <= LongestDown

\* c3_node.cpp:662, deep sleep after five minutes without large movement: a
\* node whose IMU answers and is not moved falls asleep, each time it was woken.
\* But for a movement noted at 0 of the wrapping clock, which reads as none.
StillNodeSleeps ==
  \A v \in ImuAnswers \ {"dead"} :
    <>[](condition["imu"] = v) => []<>(step = "asleep" \/ at_zero)
=============================================================================
