-------------------------- MODULE RfidNodeProofs --------------------------
(***************************************************************************)
(* The reader node: no LED is left on and the difficulty survives power    *)
(* cycles, for any set of cards and any number of failing calls.           *)
(***************************************************************************)
EXTENDS RfidNode, TLAPS

USE DEF Modes, Cards, Colours, Leds, LedAt, Pattern, store

(* The steps of flash_colour: an LED is on afterwards only if it was on    *)
(* before or is of the pattern; and never after its last step.             *)
LEMMA StepLeds ==
  ASSUME RfidTypeOK, NEW i \in 1..3, LedAt[i] \in AfterStep(main.step, main.colour)
  PROVE  /\ main.step # 7 + i
         /\ main.step <= 6 \/ LedAt[i] \in leds
<1>1. main.step \in 1..10
  BY DEF RfidTypeOK
<1> QED
  BY <1>1 DEF AfterStep

(* The LEDs remain a set of the three LEDs.                                *)
LEMMA StepTyped ==
  ASSUME RfidTypeOK PROVE AfterStep(main.step, main.colour) \subseteq Leds
<1>1. main.step \in 1..10 /\ leds \subseteq Leds
  BY DEF RfidTypeOK
<1> QED
  BY <1>1 DEF AfterStep

(* The node boots into the inductive invariant.                            *)
LEMMA InitRfidIInv == Init => RfidIInv
<1> SUFFICES ASSUME Init PROVE RfidIInv
  OBVIOUS
<1> QED
  BY RfidAssumption
     DEF Init, RfidIInv, RfidTypeOK, LedsAccounted, RamMatchesFlash, MainAt, RxIdle

(* The boot sequence: the difficulty is loaded before anyone can set it,   *)
(* and the only LED it lights is the red one of a failed reader.           *)
LEMMA BootKeepsRfidIInv ==
  ASSUME RfidIInv, LoadDifficulty \/ StartBluetooth \/ StartReader PROVE RfidIInv'
<1> USE RfidAssumption DEF RfidIInv, RfidTypeOK, LedsAccounted, RamMatchesFlash, MainAt
<1>1. CASE LoadDifficulty
  BY <1>1 DEF LoadDifficulty, Loaded
<1>2. CASE StartBluetooth
  BY <1>2 DEF StartBluetooth, Loaded, Fault
<1>3. CASE StartReader
  BY <1>3 DEF StartReader, Loaded, Fault
<1> QED
  BY <1>1, <1>2, <1>3

(* What a flash of main is asked to show.                                  *)
LEMMA FlashTyped ==
  ASSUME RfidTypeOK, NEW mode \in Modes, Flash(mode)
  PROVE  /\ main'.pc = "flash" /\ main'.step = 1
         /\ main' \in [pc : {"flash"}, card : Scans \cup {"none"}, colour : Colours,
                       last : Colours, step : {1}]
<1>1. Top(mode) \in Colours /\ ColourOf(main.card, mode) \in Colours
  BY DEF Top, ColourOf, Required
<1>2. main \in [pc : {"boot", "start", "reader", "first", "second", "flash", "scan", "halted", "returned"},
                card : Scans \cup {"none"}, colour : Colours, last : Colours, step : 1..10]
  BY DEF RfidTypeOK
<1> HIDE DEF Colours
<1> QED
  BY <1>1, <1>2 DEF Flash, Colours

(* A new flash of main begins with step 1: whatever is on will be off.     *)
LEMMA DecisionKeepsRfidIInv ==
  ASSUME RfidIInv, ReadFirst \/ ReadSecond PROVE RfidIInv'
<1>1. UNCHANGED <<ram, saved, nvs, leds, rx, radio, unsent, faults>>
  BY DEF ReadFirst, ReadSecond
<1>2. CASE main'.pc = "second"
  <2>1. main' = [main EXCEPT !.pc = "second"] /\ main.pc = "first"
    BY <1>2, FlashTyped DEF ReadFirst, ReadSecond, RfidIInv, RfidTypeOK, Flash
  <2>2. RfidTypeOK'
    BY <1>1, <2>1 DEF RfidIInv, RfidTypeOK
  <2> QED
    BY <1>1, <2>1, <2>2 DEF RfidIInv, RfidTypeOK, LedsAccounted, RamMatchesFlash, Loaded
<1>3. CASE \E mode \in Modes : Flash(mode)
  <2>1. RfidTypeOK'
    BY <1>1, <1>3, FlashTyped DEF RfidIInv, RfidTypeOK
  <2>2. LedsAccounted'
    BY <1>1, <1>3, FlashTyped DEF RfidIInv, LedsAccounted
  <2> QED
    BY <1>1, <1>3, <2>1, <2>2, FlashTyped DEF RfidIInv, RamMatchesFlash, Loaded, ReadFirst, ReadSecond
<1>4. main'.pc = "second" \/ \E mode \in Modes : Flash(mode)
  BY DEF ReadFirst, ReadSecond, RfidIInv, RfidTypeOK
<1> QED
  BY <1>2, <1>3, <1>4

(* A scan changes main and the history only.                               *)
LEMMA ScanKeepsRfidIInv ==
  ASSUME RfidIInv, NEW card \in Scans, CardScanned(card) PROVE RfidIInv'
  BY RfidAssumption
     DEF CardScanned, RfidIInv, RfidTypeOK, LedsAccounted, RamMatchesFlash, Loaded, MainAt

(* A step of main's flash takes back what main had switched on.            *)
LEMMA FlashKeepsRfidIInv == ASSUME RfidIInv, FlashStep PROVE RfidIInv'
<1>1. UNCHANGED <<ram, saved, nvs, rx, radio, unsent, faults>>
  BY DEF FlashStep
<1>2. RfidTypeOK'
  <2>1. leds' \subseteq Leds
    BY StepTyped DEF FlashStep, RfidIInv
  <2>2. After(main.colour) \in Colours
    BY DEF After
  <2>3. main' \in [pc : {"flash", "scan"}, card : Scans \cup {"none"}, colour : Colours,
                   last : Colours, step : 1..10]
    <3>1. CASE main.step < 10
      <4>1. main.step + 1 \in 1..10
        BY <3>1 DEF RfidIInv, RfidTypeOK
      <4>2. main' = [main EXCEPT !.step = @ + 1] /\ main.pc = "flash"
        BY <3>1 DEF FlashStep, LastStep
      <4> QED
        BY <4>1, <4>2 DEF RfidIInv, RfidTypeOK
    <3>2. CASE main.step = 10
      <4>1. CASE main.colour = main.last
        BY <3>2, <4>1 DEF FlashStep, LastStep, MainAt
      <4>2. CASE main.colour # main.last
        <5>1. main' = [main EXCEPT !.step = 1, !.colour = After(main.colour)] /\ main.pc = "flash"
          BY <3>2, <4>2 DEF FlashStep, LastStep
        <5>2. main \in [pc : {"boot", "start", "reader", "first", "second", "flash", "scan",
                             "halted", "returned"},
                       card : Scans \cup {"none"}, colour : Colours, last : Colours, step : 1..10]
          BY DEF RfidIInv, RfidTypeOK
        <5>3. 1 \in 1..10
          OBVIOUS
        <5> HIDE DEF Colours
        <5> QED
          BY <2>2, <5>1, <5>2, <5>3
      <4> QED
        BY <4>1, <4>2
    <3> QED
      BY <3>1, <3>2 DEF RfidIInv, RfidTypeOK
  <2> QED
    BY <1>1, <2>1, <2>3 DEF RfidIInv, RfidTypeOK
<1>3. LedsAccounted'
  <2> SUFFICES ASSUME NEW i \in 1..3, LedAt[i] \in leds'
               PROVE  \/ rx.pc = "flashing" /\ LedAt[i] \in Pattern(rx.colour)
                      \/ main'.pc = "flash" /\ main'.step <= 7 + i
    BY <1>1 DEF LedsAccounted
  <2>1. /\ main.step # 7 + i
        /\ main.step <= 6 \/ LedAt[i] \in leds
    BY StepLeds DEF FlashStep, RfidIInv
  <2>2. CASE main.step <= 6
    BY <2>2 DEF FlashStep, LastStep, RfidIInv, RfidTypeOK
  <2>3. CASE LedAt[i] \in leds
    BY <2>1, <2>3 DEF FlashStep, LastStep, RfidIInv, RfidTypeOK, LedsAccounted, MainAt
  <2> QED
    BY <2>1, <2>2, <2>3
<1> QED
  BY <1>1, <1>2, <1>3 DEF FlashStep, RfidIInv, RamMatchesFlash, Loaded, MainAt

(* rx switches everything off before it switches its pattern on.           *)
LEMMA RxKeepsRfidIInv ==
  ASSUME RfidIInv, RxNext \/ \E mode \in Modes : DifficultyReceived(mode) PROVE RfidIInv'
<1> USE RfidAssumption DEF RfidIInv, RfidTypeOK, LedsAccounted, RamMatchesFlash, Loaded
<1>1. CASE DifficultySaved
  <2>1. /\ rx.pc = "saving" /\ rx' = [rx EXCEPT !.pc = "flashing", !.colour = "yellow"]
        /\ leds' = {"red", "green"} /\ UNCHANGED <<ram, main, radio, unsent>>
    BY <1>1 DEF DifficultySaved
  <2>2. /\ faults' \in 0..MaxFaults
        /\ saved' \in Modes \cup {"none"} /\ nvs' \in {"mounted", "behind", "unmounted"}
    BY <1>1 DEF DifficultySaved, Fault
  <2>3. RfidTypeOK'
    BY <2>1, <2>2
  <2>4. LedsAccounted'
    BY <2>1
  <2>5. nvs' = "mounted" => saved' = rx.mode
    BY <1>1 DEF DifficultySaved
  <2>6. ram = rx.mode
    BY <2>1
  <2> QED
    BY <2>1, <2>3, <2>4, <2>5, <2>6
<1>2. CASE RxFlashEnds
  BY <1>2 DEF RxFlashEnds, After, RxIdle
<1>3. CASE \E mode \in Modes : DifficultyReceived(mode)
  BY <1>3 DEF DifficultyReceived, RxIdle
<1> QED
  BY <1>1, <1>2, <1>3 DEF RxNext

(* The radio and the power supply.                                         *)
LEMMA RestKeepsRfidIInv ==
  ASSUME RfidIInv, Connected \/ Disconnected \/ AdvRestarts \/ PowerCycle PROVE RfidIInv'
<1> USE RfidAssumption DEF RfidIInv, RfidTypeOK, LedsAccounted, RamMatchesFlash, Loaded
<1>1. CASE Connected \/ Disconnected
  BY <1>1 DEF Connected, Disconnected
<1>2. CASE AdvRestarts
  BY <1>2 DEF AdvRestarts, Fault
<1>3. CASE PowerCycle
  BY <1>3 DEF PowerCycle, MainAt, RxIdle
<1> QED
  BY <1>1, <1>2, <1>3

(* Every step keeps the inductive invariant.                               *)
LEMMA NextRfidIInv == RfidIInv /\ [Next]_vars => RfidIInv'
<1> SUFFICES ASSUME RfidIInv, [Next]_vars PROVE RfidIInv'
  OBVIOUS
<1>1. CASE UNCHANGED vars
  BY <1>1 DEF vars, RfidIInv, RfidTypeOK, LedsAccounted, RamMatchesFlash, Loaded
<1> QED
  BY <1>1, BootKeepsRfidIInv, DecisionKeepsRfidIInv, ScanKeepsRfidIInv, FlashKeepsRfidIInv,
     RxKeepsRfidIInv, RestKeepsRfidIInv DEF Next, MainNext, CentralNext

(* The inductive invariant of the reader node holds in every state.        *)
THEOREM RfidInductive == Spec => []RfidIInv
  BY InitRfidIInv, NextRfidIInv, PTL DEF Spec

(* Type correctness; flash_colour never gets past its ten steps.           *)
THEOREM RfidTypeCorrect == Spec => []RfidTypeOK
  BY RfidInductive, PTL DEF RfidIInv

(* However the card loop and a new difficulty interleave their flashes,    *)
(* they leave no LED on.                                                   *)
THEOREM RfidLedsOffWhenIdle == Spec => []LedsOffWhenIdle
<1>1. RfidIInv => LedsOffWhenIdle
  BY DEF RfidIInv, RfidTypeOK, LedsAccounted, LedsOffWhenIdle
<1> QED
  BY <1>1, RfidInductive, PTL

(* The difficulty in force is the one a boot would load, across crashes in *)
(* the middle of a save.                                                   *)
THEOREM RfidRamMatchesFlash == Spec => []RamMatchesFlash
  BY RfidInductive, PTL DEF RfidIInv
=============================================================================
