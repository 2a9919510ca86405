------------------------------ MODULE ImuNode ------------------------------
(***************************************************************************)
(* The steering wheel node (01mobileIMU/src/main.c).  Four activities      *)
(* share its globals without a lock:                                       *)
(*   main     samples, filters, integrates and reports every 10 ms;        *)
(*   trigger  the data-ready handler of the sensor, on the system work     *)
(*            queue, publishes a sample when main has asked for one;       *)
(*   rx       the NUS callback received, on the Bluetooth work queue;      *)
(*   timer    the task watchdog of main.                                   *)
(* trigger and rx are cooperative and preempt main between any two of its  *)
(* accesses, never the other way round: their handlers are one action,     *)
(* main's loop is cut at every access to a shared variable.                *)
(*                                                                         *)
(* The watchdog: main adds a channel, but nothing calls task_wdt_init, which *)
(* gives the channels' timer its expiry function (the linker drops both, see *)
(* 01mobileIMU/build/zephyr/zephyr_final.map:1041-1046).  The timer runs and *)
(* expires, and task_wdt_callback is never called.                         *)
(*                                                                         *)
(* Angles are abstracted to what a zero command is about: a value is fresh *)
(* when it has been computed from globals the last zero command had reset. *)
(***************************************************************************)
EXTENDS Integers

CONSTANTS
  Axes,         \* how many sensor values main copies, one after the other
  LogEvery,     \* LOG_EVERY_N_SAMPLES
  WdtRounds,    \* bound: rounds of main in the 5 s of the task watchdog
  MaxFaults     \* bound: calls of bt_le_adv_start that fail

ASSUME ImuAssumption ==
  /\ Axes \in Nat \ {0} /\ LogEvery \in Nat \ {0} /\ WdtRounds \in Nat \ {0}
  /\ MaxFaults \in Nat

VARIABLES
  main,          \* where main is
  axis,          \* values copied in this round
  loaded, reg,   \* has main loaded the operand of its next store; is it fresh?
  filtered, cumulative, steering,   \* are the three globals fresh?
  sampleCount,   \* sample_count
  printSamples,  \* print_samples
  published,     \* samples published since main's round began
  delivered,     \* do the *_out variables hold a sample (not the zeros of boot)?
  sensor,        \* "silent" so far, "live", or "hung"
  wdt, expired,  \* rounds since the watchdog was fed; has its timer expired?
  rx,            \* the Bluetooth work queue
  radio,         \* "advertising", "connected", "waiting" for the restart, "off"
  faults

angles == <<filtered, cumulative, steering>>
work   == <<axis, loaded, reg>>
sample == <<printSamples, published, delivered>>
watchdog == <<wdt, expired>>
vars == <<main, work, angles, sampleCount, sample, sensor, watchdog, rx, radio, faults>>

Updates == {"filter", "integrate", "correct", "saturate"}
Counters == {"boot", "read", "feed", "report", "sleep", "returned"} \cup Updates

-----------------------------------------------------------------------------
Init ==
  /\ main = "boot" /\ axis = 0 /\ loaded = FALSE /\ reg = TRUE
  /\ filtered = TRUE /\ cumulative = TRUE /\ steering = TRUE
  /\ sampleCount = 0
  /\ printSamples = FALSE /\ published = 0 /\ delivered = FALSE
  /\ sensor \in {"silent", "live"}
  /\ wdt = 0 /\ expired = FALSE /\ rx = "idle" /\ radio = "advertising" /\ faults = 0

-----------------------------------------------------------------------------
(* main.                                                                   *)

\* Initialisation ends with the first fetch and the watchdog channel, or with
\* an early return that leaves Bluetooth running.
MainBoots ==
  /\ main = "boot"
  /\ \/ main' = "read"
     \/ sensor = "silent" /\ main' = "returned"
  /\ UNCHANGED <<work, angles, sampleCount, sample, sensor, watchdog, rx, radio, faults>>

ReadAxis ==
  /\ main = "read"
  /\ axis' = axis + 1
  /\ main' = IF axis' = Axes THEN "filter" ELSE "read"
  /\ UNCHANGED <<loaded, reg, angles, sampleCount, sample, sensor, watchdog, rx, radio, faults>>

\* Each update loads a global, computes, and stores.  From the integration on
\* the compiler may load g_cumulative_angle_deg again or keep what it holds.
Load ==
  /\ main \in Updates /\ ~loaded
  /\ loaded' = TRUE
  /\ \/ main = "filter" /\ reg' = filtered
     \/ main # "filter" /\ reg' = cumulative
     \/ main \in {"correct", "saturate"} /\ UNCHANGED reg
  /\ UNCHANGED <<main, axis, angles, sampleCount, sample, sensor, watchdog, rx, radio, faults>>

\* (clamped only in the branch of a reliable accelerometer vector)
StoreAngleMutant == steering' \in {reg, steering} /\ UNCHANGED <<filtered, cumulative>>
StoreAngle == steering' = reg /\ UNCHANGED <<filtered, cumulative>>

\* Without a reliable accelerometer vector (NAN) the correction is skipped.
Store ==
  /\ main \in Updates /\ loaded
  /\ loaded' = FALSE
  /\ \/ /\ main = "filter" /\ main' = "integrate"
        /\ filtered' = reg /\ UNCHANGED <<cumulative, steering>>
     \/ /\ main = "integrate" /\ main' \in {"correct", "saturate"}
        /\ cumulative' = reg /\ UNCHANGED <<filtered, steering>>
     \/ /\ main = "correct" /\ main' = "saturate"
        /\ cumulative' = reg /\ UNCHANGED <<filtered, steering>>
     \/ /\ main = "saturate" /\ main' = "feed"
        /\ StoreAngle
  /\ UNCHANGED <<axis, reg, sampleCount, sample, sensor, watchdog, rx, radio, faults>>

\* The watchdog is fed while any accelerometer value is not zero.
AccelPresent == delivered

Feed ==
  /\ main = "feed"
  /\ wdt' = IF AccelPresent THEN 0 ELSE wdt
  /\ expired' = (expired /\ ~AccelPresent)
  /\ sampleCount' = sampleCount + 1
  /\ main' = IF sampleCount' >= LogEvery THEN "report" ELSE "sleep"
  /\ UNCHANGED <<work, angles, sample, sensor, rx, radio, faults>>

ReportedMutant == sampleCount      \* the count not reset
Reported == 0

\* bt_nus_send: -ENOTCONN and -EAGAIN are ignored, other errors are logged.
Report ==
  /\ main = "report"
  /\ sampleCount' = Reported
  /\ main' = "sleep"
  /\ UNCHANGED <<work, angles, sample, sensor, watchdog, rx, radio, faults>>

\* The end of a round: ask for a sample, sleep, start over.
Sleep ==
  /\ main = "sleep"
  /\ wdt' = (IF wdt < WdtRounds THEN wdt + 1 ELSE wdt) /\ UNCHANGED expired
  /\ printSamples' = TRUE /\ published' = 0 /\ UNCHANGED delivered
  /\ main' = "read" /\ axis' = 0
  /\ UNCHANGED <<loaded, reg, angles, sampleCount, sensor, rx, radio, faults>>

-----------------------------------------------------------------------------
(* trigger: lsm6dsl_trigger_handler publishes a sample when asked to.      *)
TakenMutant == UNCHANGED printSamples      \* the request not reset
Taken == printSamples' = FALSE

Trigger ==
  /\ sensor = "live" /\ main # "boot" /\ printSamples
  /\ Taken
  /\ published' = (IF published < 2 THEN published + 1 ELSE 2)
  /\ delivered' = TRUE
  /\ UNCHANGED <<main, work, angles, sampleCount, sensor, watchdog, rx, radio, faults>>

SensorStarts ==
  /\ sensor = "silent" /\ sensor' = "live"
  /\ UNCHANGED <<main, work, angles, sampleCount, sample, watchdog, rx, radio, faults>>

SensorHangs ==
  /\ sensor = "live" /\ sensor' = "hung"
  /\ UNCHANGED <<main, work, angles, sampleCount, sample, watchdog, rx, radio, faults>>

\* The timer of the watchdog runs out and has nothing to call.
TimerExpires ==
  /\ main \notin {"boot", "returned"} /\ wdt = WdtRounds /\ ~expired
  /\ expired' = TRUE
  /\ UNCHANGED <<main, work, angles, sampleCount, sample, sensor, wdt, rx, radio, faults>>

-----------------------------------------------------------------------------
(* rx: the NUS callback and the connection callbacks.                      *)

\* "zero" resets the three globals.  What main holds is of before.
Zero ==
  /\ rx = "idle" /\ radio = "connected"
  /\ filtered' = TRUE /\ cumulative' = TRUE /\ steering' = TRUE
  /\ reg' = FALSE
  /\ UNCHANGED <<main, axis, loaded, sampleCount, sample, sensor, watchdog, rx, radio, faults>>

\* "collision" lights the red LED and sleeps for 250 ms in the work queue.
Collision ==
  /\ rx = "idle" /\ radio = "connected"
  /\ rx' = "flashing"
  /\ UNCHANGED <<main, work, angles, sampleCount, sample, sensor, watchdog, radio, faults>>

CollisionEnds ==
  /\ rx = "flashing"
  /\ rx' = "idle"
  /\ UNCHANGED <<main, work, angles, sampleCount, sample, sensor, watchdog, radio, faults>>

Connected ==
  /\ rx = "idle" /\ radio = "advertising"
  /\ radio' = "connected"
  /\ UNCHANGED <<main, work, angles, sampleCount, sample, sensor, watchdog, rx, faults>>

\* disconnected schedules the restart of advertising 500 ms later.
Disconnected ==
  /\ rx = "idle" /\ radio = "connected"
  /\ radio' = "waiting"
  /\ UNCHANGED <<main, work, angles, sampleCount, sample, sensor, watchdog, rx, faults>>

\* adv_restart_work_fn; an error is logged and nobody tries again.
AdvRestarts ==
  /\ radio = "waiting"
  /\ \/ radio' = "advertising" /\ UNCHANGED faults
     \/ radio' = "off" /\ faults < MaxFaults /\ faults' = faults + 1
  /\ UNCHANGED <<main, work, angles, sampleCount, sample, sensor, watchdog, rx>>

-----------------------------------------------------------------------------
MainNext == MainBoots \/ ReadAxis \/ Load \/ Store \/ Feed \/ Report \/ Sleep
SensorNext == Trigger \/ SensorStarts \/ SensorHangs
RxNext == Zero \/ Collision \/ CollisionEnds \/ Connected \/ Disconnected \/ AdvRestarts

Next == MainNext \/ SensorNext \/ TimerExpires \/ RxNext

Spec == Init /\ [][Next]_vars

\* The scheduler runs main, the timer runs the watchdog, the work queues end
\* what they began.  Nothing makes the sensor deliver or a central connect.
FairSpec ==
  /\ Spec
  /\ WF_vars(MainNext) /\ WF_vars(TimerExpires)
  /\ WF_vars(CollisionEnds) /\ WF_vars(AdvRestarts)

-----------------------------------------------------------------------------
(* Properties.                                                             *)

\* Every variable stays within its type.
ImuTypeOK ==
  /\ main \in Counters /\ axis \in 0..Axes
  /\ loaded \in BOOLEAN /\ reg \in BOOLEAN
  /\ filtered \in BOOLEAN /\ cumulative \in BOOLEAN /\ steering \in BOOLEAN
  /\ sampleCount \in 0..LogEvery
  /\ printSamples \in BOOLEAN /\ published \in 0..2 /\ delivered \in BOOLEAN
  /\ sensor \in {"silent", "live", "hung"}
  /\ wdt \in 0..WdtRounds /\ expired \in BOOLEAN
  /\ rx \in {"idle", "flashing"}
  /\ radio \in {"advertising", "connected", "waiting", "off"}
  /\ faults \in 0..MaxFaults

\* The handshake over print_samples: while main copies the six values one by
\* one, at most one new sample is published, so what it computes with comes
\* from two successive samples at most, the older one first.
OnePublicationPerRound == published <= 1

\* Its inductive form: a request that is open has not been served in this
\* round; and where main's loop is when the axes and the rounds are counted.
ImuIInv ==
  /\ ImuTypeOK
  /\ OnePublicationPerRound
  /\ printSamples => published = 0
  /\ main \in {"boot", "read"} => axis < Axes
  /\ main # "report" => sampleCount < LogEvery

\* A zero command that reached the cumulative angle reaches the steering angle
\* too, however it fell into main's round.
SteeringCatchesUp ==
  (cumulative /\ ~steering) ~> (steering \/ ~cumulative)

\* "Accel watchdog expired - sensor may be hung": a node whose sensor delivers
\* for the five seconds of the watchdog is rebooted.
SilentSensorReboots ==
  (sensor = "silent" /\ wdt = WdtRounds) ~> (sensor # "silent" \/ main = "boot")

\* A zero command resets the cumulative angle for good: main never stores a
\* value over it that goes back to before the command.
ZeroIsNotLost == cumulative
=============================================================================
