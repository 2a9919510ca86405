--------------------------- MODULE ImuNodeProofs ---------------------------
(***************************************************************************)
(* The handshake between main and the trigger handler of the wheel node,   *)
(* for any number of axes, rounds and failures.                            *)
(***************************************************************************)
EXTENDS ImuNode, TLAPS

USE DEF OnePublicationPerRound, Updates, Counters, angles, work, sample, watchdog

(* The node boots into the inductive invariant.                            *)
LEMMA InitImuIInv == Init => ImuIInv
<1> SUFFICES ASSUME Init PROVE ImuIInv
  OBVIOUS
<1>1. printSamples => published = 0
  BY Zenon DEF Init
<1>2. /\ loaded \in BOOLEAN /\ reg \in BOOLEAN /\ filtered \in BOOLEAN /\ cumulative \in BOOLEAN
      /\ steering \in BOOLEAN /\ printSamples \in BOOLEAN /\ delivered \in BOOLEAN
      /\ expired \in BOOLEAN
  BY Zenon DEF Init
<1>3. /\ main = "boot" /\ axis = 0 /\ sampleCount = 0 /\ published = 0 /\ wdt = 0 /\ faults = 0
      /\ sensor \in {"silent", "live"} /\ rx = "idle" /\ radio = "advertising"
  BY Zenon DEF Init
<1> QED
  BY <1>1, <1>2, <1>3, ImuAssumption DEF ImuIInv, ImuTypeOK

(* main asks for a sample only when it starts a new round.                 *)
LEMMA MainKeepsImuIInv == ASSUME ImuIInv, MainNext PROVE ImuIInv'
<1>1. CASE MainBoots
  BY <1>1 DEF MainBoots, ImuIInv, ImuTypeOK
<1>2. CASE ReadAxis
  BY <1>2, ImuAssumption DEF ReadAxis, ImuIInv, ImuTypeOK
<1>3. CASE Load
  BY <1>3 DEF Load, ImuIInv, ImuTypeOK
<1>4. CASE Store
  <2>1. reg \in BOOLEAN /\ filtered \in BOOLEAN /\ cumulative \in BOOLEAN /\ steering \in BOOLEAN
    BY Zenon DEF ImuIInv, ImuTypeOK
  <2>2. /\ loaded' \in BOOLEAN /\ filtered' \in {reg, filtered}
        /\ cumulative' \in {reg, cumulative} /\ steering' \in {reg, steering}
    BY <1>4, Zenon DEF Store, StoreAngle
  <2>3. main \in Updates /\ main' \in {"integrate", "correct", "saturate", "feed"}
    BY <1>4, Zenon DEF Store
  <2>4. UNCHANGED <<axis, reg, sampleCount, printSamples, published, delivered, sensor, wdt,
                    expired, rx, radio, faults>>
    BY <1>4, Zenon DEF Store
  <2>5. filtered' \in BOOLEAN /\ cumulative' \in BOOLEAN /\ steering' \in BOOLEAN
    BY <2>1, <2>2, Zenon
  <2> QED
    BY <2>2, <2>3, <2>4, <2>5 DEF ImuIInv, ImuTypeOK
<1>5. CASE Feed
  <2>1. expired' \in BOOLEAN
    BY <1>5, Zenon DEF Feed
  <2>2. /\ main = "feed" /\ wdt' \in {0, wdt} /\ sampleCount' = sampleCount + 1
        /\ main' = IF sampleCount' >= LogEvery THEN "report" ELSE "sleep"
    <3>1. wdt' = IF AccelPresent THEN 0 ELSE wdt
      BY <1>5, Zenon DEF Feed
    <3> QED
      BY <1>5, <3>1, Zenon DEF Feed
  <2>3. UNCHANGED <<axis, loaded, reg, filtered, cumulative, steering, printSamples, published,
                    delivered, sensor, rx, radio, faults>>
    BY <1>5, Zenon DEF Feed
  <2> QED
    BY <2>1, <2>2, <2>3, ImuAssumption DEF ImuIInv, ImuTypeOK
<1>6. CASE Report
  BY <1>6, ImuAssumption DEF Report, Reported, ImuIInv, ImuTypeOK
<1>7. CASE Sleep
  BY <1>7, ImuAssumption DEF Sleep, ImuIInv, ImuTypeOK
<1> QED
  BY <1>1, <1>2, <1>3, <1>4, <1>5, <1>6, <1>7 DEF MainNext

(* The trigger handler closes the request before it publishes.             *)
LEMMA SensorKeepsImuIInv == ASSUME ImuIInv, SensorNext PROVE ImuIInv'
<1>1. CASE Trigger
  <2>1. printSamples /\ ~printSamples'
    BY <1>1, Zenon DEF Trigger, Taken
  <2>2. published' = 1
    <3>1. published = 0
      BY <2>1 DEF ImuIInv
    <3>2. published' = IF published < 2 THEN published + 1 ELSE 2
      BY <1>1, Zenon DEF Trigger
    <3> QED
      BY <3>1, <3>2
  <2>3. printSamples' \in BOOLEAN /\ delivered' \in BOOLEAN
    BY <1>1, Zenon DEF Trigger, Taken
  <2>4. UNCHANGED <<main, axis, loaded, reg, filtered, cumulative, steering, sampleCount, sensor,
                    wdt, expired, rx, radio, faults>>
    BY <1>1, Zenon DEF Trigger
  <2> QED
    BY <2>1, <2>2, <2>3, <2>4 DEF ImuIInv, ImuTypeOK
<1>2. CASE SensorStarts
  BY <1>2 DEF SensorStarts, ImuIInv, ImuTypeOK
<1>3. CASE SensorHangs
  BY <1>3 DEF SensorHangs, ImuIInv, ImuTypeOK
<1> QED
  BY <1>1, <1>2, <1>3 DEF SensorNext

(* The timer of the watchdog touches nothing but itself.                   *)
LEMMA TimerKeepsImuIInv == ASSUME ImuIInv, TimerExpires PROVE ImuIInv'
<1>1. expired' \in BOOLEAN
  BY Zenon DEF TimerExpires
<1>2. UNCHANGED <<main, axis, loaded, reg, filtered, cumulative, steering, sampleCount,
                  printSamples, published, delivered, sensor, wdt, rx, radio, faults>>
  BY Zenon DEF TimerExpires
<1> QED
  BY <1>1, <1>2 DEF ImuIInv, ImuTypeOK

(* The Bluetooth callbacks touch the angles and the radio only.            *)
LEMMA RxKeepsImuIInv == ASSUME ImuIInv, RxNext PROVE ImuIInv'
<1>1. CASE Zero
  BY <1>1 DEF Zero, ImuIInv, ImuTypeOK
<1>2. CASE Collision \/ CollisionEnds
  BY <1>2 DEF Collision, CollisionEnds, ImuIInv, ImuTypeOK
<1>3. CASE Connected \/ Disconnected
  BY <1>3 DEF Connected, Disconnected, ImuIInv, ImuTypeOK
<1>4. CASE AdvRestarts
  BY <1>4, ImuAssumption DEF AdvRestarts, ImuIInv, ImuTypeOK
<1> QED
  BY <1>1, <1>2, <1>3, <1>4 DEF RxNext

(* Every step keeps the inductive invariant.                               *)
LEMMA NextImuIInv == ImuIInv /\ [Next]_vars => ImuIInv'
<1> SUFFICES ASSUME ImuIInv, [Next]_vars PROVE ImuIInv'
  OBVIOUS
<1>1. CASE UNCHANGED vars
  BY <1>1 DEF vars, ImuIInv, ImuTypeOK
<1> QED
  BY <1>1, MainKeepsImuIInv, SensorKeepsImuIInv, TimerKeepsImuIInv, RxKeepsImuIInv DEF Next

(* The inductive invariant of the wheel node holds in every state.         *)
THEOREM ImuInductive == Spec => []ImuIInv
  BY InitImuIInv, NextImuIInv, PTL DEF Spec

(* Type correctness of the globals the four activities share.              *)
THEOREM ImuTypeCorrect == Spec => []ImuTypeOK
  BY ImuInductive, PTL DEF ImuIInv

(* The data main computes with comes from two successive samples at most:  *)
(* print_samples lets the handler publish once per round of main.          *)
THEOREM ImuOnePublicationPerRound == Spec => []OnePublicationPerRound
<1>1. ImuIInv => OnePublicationPerRound
  BY DEF ImuIInv
<1> QED
  BY <1>1, ImuInductive, PTL
=============================================================================
