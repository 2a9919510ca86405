------------------------------ MODULE RfidNode ------------------------------
(***************************************************************************)
(* The card reader node (02RFID/src/main.c).  Three threads share the      *)
(* difficulty and the three LEDs without a lock:                           *)
(*   main   boots, then waits for cards, reports and flashes each of them; *)
(*   rx     the NUS callback received, on the Bluetooth work queue: sets,  *)
(*          saves and flashes a new difficulty;                            *)
(*   sys    the system work queue, which restarts advertising.             *)
(* rx is cooperative: it preempts main anywhere and gives way only while   *)
(* it waits for the flash and while a flash of the LEDs sleeps.  main is   *)
(* cut at every access to the difficulty and to an LED.                    *)
(*                                                                         *)
(* The answer of the reader (rc522_checkCard) is the colour of a known     *)
(* card or "unknown".  NVS and the power supply are external.              *)
(***************************************************************************)
EXTENDS Integers

CONSTANTS
  Scans,      \* what the visitor may present: cards and "unknown"
  MaxFaults   \* bound: calls of the Bluetooth stack, SPI and NVS that fail

Modes == {"esy", "med", "hrd"}
Cards == {"yellow", "green", "purple"}
Colours == Cards \cup {"white"}
Leds == {"red", "green", "blue"}

ASSUME RfidAssumption == Scans \subseteq Cards \cup {"unknown"} /\ MaxFaults \in Nat

VARIABLES
  ram,          \* g_difficulty
  saved,        \* the difficulty in NVS, or "none"
  nvs,          \* the file system since this boot: "mounted", "behind" after a
                \* save that failed, or "unmounted" if nvs_init failed
  leds,         \* the LEDs that are on
  main,         \* main's counter, the card, the colour flashed, the last one
                \* to flash, and the next step of flash_colour
  rx,           \* the Bluetooth work queue: counter, mode received, colour
  radio,        \* "off", "advertising", "connected", "waiting" for the restart
  unsent,       \* history: cards scanned while nobody was connected
  faults

store == <<saved, nvs>>
vars == <<ram, store, leds, main, rx, radio, unsent, faults>>

-----------------------------------------------------------------------------
(* flash_colour: all off, some on, a second of sleep, all off.             *)
LedAt == <<"red", "green", "blue">>
Pattern(colour) ==
  CASE colour = "purple" -> {"red", "blue"}
    [] colour = "green"  -> {"green"}
    [] colour = "yellow" -> {"red", "green"}
    [] OTHER             -> Leds

\* Steps 1-3 switch an LED off, 4-6 one of the pattern on, 7 sleeps, 8-10
\* switch off again.
LastStepMutant == 9                \* blue forgotten at the end
LastStepMutantLong == 11           \* a fourth LED
LastStep == 10

AfterStep(step, colour) ==
  CASE step \in 1..3 -> leds \ {LedAt[step]}
    [] step \in 4..6 -> leds \cup ({LedAt[step - 3]} \cap Pattern(colour))
    [] step \in 8..10 -> leds \ {LedAt[step - 7]}
    [] OTHER -> leds

\* A difficulty is shown by yellow; yellow and green; yellow, green and purple.
Top(mode) == CASE mode = "esy" -> "yellow" [] mode = "med" -> "green" [] OTHER -> "purple"
After(colour) == IF colour = "yellow" THEN "green" ELSE "purple"

\* A card flashes in its colour if the difficulty asks for it.
Required(mode) ==
  CASE mode = "esy" -> {"yellow"} [] mode = "med" -> {"yellow", "green"} [] OTHER -> Cards
ColourOf(card, mode) == IF card \in Required(mode) THEN card ELSE "white"

MainAt(pc) == [pc |-> pc, card |-> "none", colour |-> "white", last |-> "white", step |-> 1]

\* main begins to flash: the difficulty at boot (no card), or a card.
Flash(mode) ==
  main' = [main EXCEPT !.pc = "flash", !.step = 1,
             !.colour = IF main.card = "none" THEN "yellow" ELSE ColourOf(main.card, mode),
             !.last = IF main.card = "none" THEN Top(mode) ELSE ColourOf(main.card, mode)]

RxIdle == [pc |-> "idle", mode |-> "hrd", colour |-> "yellow"]
Fault == faults < MaxFaults /\ faults' = faults + 1

-----------------------------------------------------------------------------
Init ==
  /\ ram = "hrd"
  /\ saved \in Modes \cup {"none"} /\ nvs \in {"mounted", "unmounted"}
  /\ leds = {} /\ main = MainAt("boot") /\ rx = RxIdle
  /\ radio = "off" /\ unsent = {} /\ faults = 0

(* main.                                                                   *)

LoadedMutant == "hrd"      \* the value read is not used
Loaded == IF nvs # "unmounted" /\ saved # "none" THEN saved ELSE "hrd"

LoadDifficulty ==
  /\ main.pc = "boot"
  /\ ram' = Loaded
  /\ main' = MainAt("start")
  /\ UNCHANGED <<store, leds, rx, radio, unsent, faults>>

\* Bluetooth is enabled and advertises; an error ends main, before or after.
StartBluetooth ==
  /\ main.pc = "start"
  /\ \/ main' = MainAt("reader") /\ radio' = "advertising" /\ UNCHANGED faults
     \/ main' = MainAt("returned") /\ radio' \in {"off", "advertising"} /\ Fault
  /\ UNCHANGED <<ram, store, leds, rx, unsent>>

\* rc522_init fails only when SPI is not ready: red light, main returns.
StartReader ==
  /\ main.pc = "reader"
  /\ \/ main' = MainAt("first") /\ UNCHANGED <<leds, faults>>
     \/ main' = MainAt("halted") /\ leds' = leds \cup {"red"} /\ Fault
  /\ UNCHANGED <<ram, store, rx, radio, unsent>>

\* The card loop: report a known card, then look at the difficulty.  The
\* answer of bt_nus_send is not used: without a connection the scan is gone.
CardScanned(card) ==
  /\ main.pc = "scan"
  /\ unsent' = CASE card = "unknown" -> unsent
                 [] radio = "connected" -> unsent \ {card}
                 [] OTHER -> unsent \cup {card}
  /\ main' = [MainAt("first") EXCEPT !.card = card]
  /\ UNCHANGED <<ram, store, leds, rx, radio, faults>>

\* The difficulty is compared with "esy" and then, read again, with "med".
\* An unknown card flashes white whatever it is.
ReadFirst ==
  /\ main.pc = "first"
  /\ IF ram = "esy" \/ main.card = "unknown"
       THEN Flash("esy")
       ELSE main' = [main EXCEPT !.pc = "second"]
  /\ UNCHANGED <<ram, store, leds, rx, radio, unsent, faults>>

ReadSecond ==
  /\ main.pc = "second"
  /\ Flash(IF ram = "med" THEN "med" ELSE "hrd")
  /\ UNCHANGED <<ram, store, leds, rx, radio, unsent, faults>>

\* One step of flash_colour; then the next colour, or the card loop.
FlashStep ==
  /\ main.pc = "flash"
  /\ leds' = AfterStep(main.step, main.colour)
  /\ main' = IF main.step < LastStep THEN [main EXCEPT !.step = @ + 1]
             ELSE IF main.colour = main.last THEN MainAt("scan")
             ELSE [main EXCEPT !.step = 1, !.colour = After(@)]
  /\ UNCHANGED <<ram, store, rx, radio, unsent, faults>>

-----------------------------------------------------------------------------
(* rx.                                                                     *)

\* received: the RAM copy first, then NVS, which waits for the flash.
DifficultyReceived(mode) ==
  /\ rx.pc = "idle" /\ radio = "connected"
  /\ ram' = mode
  /\ rx' = [RxIdle EXCEPT !.pc = "saving", !.mode = mode]
  /\ UNCHANGED <<store, leds, main, radio, unsent, faults>>

\* save_difficulty has returned, an error is logged; the first flash begins.
DifficultySaved ==
  /\ rx.pc = "saving"
  /\ \/ nvs # "unmounted" /\ saved' = rx.mode /\ nvs' = "mounted" /\ UNCHANGED faults
     \/ nvs = "unmounted" /\ UNCHANGED <<store, faults>>
     \/ nvs # "unmounted" /\ nvs' = "behind" /\ Fault /\ UNCHANGED saved
  /\ leds' = Pattern("yellow")
  /\ rx' = [rx EXCEPT !.pc = "flashing", !.colour = "yellow"]
  /\ UNCHANGED <<ram, main, radio, unsent>>

\* The sleep of a flash is over: all off, and the next colour on.
RxFlashEnds ==
  /\ rx.pc = "flashing"
  /\ IF rx.colour = Top(rx.mode)
       THEN leds' = {} /\ rx' = RxIdle
       ELSE leds' = Pattern(After(rx.colour)) /\ rx' = [rx EXCEPT !.colour = After(@)]
  /\ UNCHANGED <<ram, store, main, radio, unsent, faults>>

Connected ==
  /\ rx.pc = "idle" /\ radio = "advertising"
  /\ radio' = "connected"
  /\ UNCHANGED <<ram, store, leds, main, rx, unsent, faults>>

\* The stack handles the end of a link in the work queue that rx keeps busy.
Disconnected ==
  /\ rx.pc = "idle" /\ radio = "connected"
  /\ radio' = "waiting"
  /\ UNCHANGED <<ram, store, leds, main, rx, unsent, faults>>

AdvRestarts ==
  /\ radio = "waiting"
  /\ \/ radio' = "advertising" /\ UNCHANGED faults
     \/ radio' = "off" /\ Fault
  /\ UNCHANGED <<ram, store, leds, main, rx, unsent>>

\* The node is switched off and on.  NVS holds a write that was under way
\* completely or not at all.
PowerCycle ==
  /\ main.pc # "boot"
  /\ ram' = "hrd"
  /\ saved' \in {saved} \cup (IF rx.pc = "saving" /\ nvs # "unmounted" THEN {rx.mode} ELSE {})
  /\ nvs' \in {"mounted", "unmounted"}
  /\ leds' = {} /\ main' = MainAt("boot") /\ rx' = RxIdle /\ radio' = "off"
  /\ UNCHANGED <<unsent, faults>>

-----------------------------------------------------------------------------
MainNext ==
  \/ LoadDifficulty \/ StartBluetooth \/ StartReader
  \/ ReadFirst \/ ReadSecond \/ FlashStep
RxNext == DifficultySaved \/ RxFlashEnds
CentralNext ==
  \/ \E card \in Scans : CardScanned(card)
  \/ \E mode \in Modes : DifficultyReceived(mode)
  \/ Connected \/ Disconnected

Next == MainNext \/ RxNext \/ CentralNext \/ AdvRestarts \/ PowerCycle

Spec == Init /\ [][Next]_vars

\* The threads get the processor and their sleeps end.
FairSpec == Spec /\ WF_vars(MainNext) /\ WF_vars(RxNext) /\ WF_vars(AdvRestarts)

-----------------------------------------------------------------------------
(* Properties.                                                             *)

\* Every variable stays within its type; flash_colour has ten steps.
RfidTypeOK ==
  /\ ram \in Modes /\ saved \in Modes \cup {"none"}
  /\ nvs \in {"mounted", "behind", "unmounted"}
  /\ leds \subseteq Leds
  /\ main \in [pc : {"boot", "start", "reader", "first", "second", "flash", "scan", "halted", "returned"},
               card : Scans \cup {"none"}, colour : Colours, last : Colours, step : 1..10]
  /\ rx \in [pc : {"idle", "saving", "flashing"}, mode : Modes, colour : Cards]
  /\ radio \in {"off", "advertising", "connected", "waiting"}
  /\ unsent \subseteq Cards
  /\ faults \in 0..MaxFaults

\* "LEDs always turned off after flash_colour() completes": two threads may
\* flash at the same time, interleaved at every single LED, and still no LED is
\* left on by both (the red light of a failed reader excepted).
LedsOffWhenIdle ==
  main.pc # "flash" /\ rx.pc # "flashing" =>
    leds \subseteq (IF main.pc = "halted" THEN {"red"} ELSE {})

\* The difficulty survives a power cycle: outside of a save, whatever crashes
\* and saves came before, a boot from here would load the difficulty in force.
RamMatchesFlash ==
  main.pc # "boot" /\ rx.pc # "saving" /\ nvs = "mounted" => ram = Loaded

\* An LED that is on is in the flash of rx, or main has yet to switch it off,
\* or it is the red light of main.
LedsAccounted ==
  \A i \in 1..3 : LedAt[i] \in leds =>
    \/ rx.pc = "flashing" /\ LedAt[i] \in Pattern(rx.colour)
    \/ main.pc = "flash" /\ main.step <= 7 + i
    \/ main.pc = "halted" /\ i = 1

\* The inductive invariant.  What is being saved is in force already, and
\* nothing is received before Bluetooth is enabled.
RfidIInv ==
  /\ RfidTypeOK /\ LedsAccounted /\ RamMatchesFlash
  /\ rx.pc = "saving" => ram = rx.mode
  /\ main.pc \in {"boot", "start"} => rx.pc = "idle" /\ radio = "off"

\* "Scans collected while offline are automatically delivered on the next BLE
\* connection": once a central is there and nobody switches the node off any
\* more, a scan that was missed is sent.
SupplySettles == <>[][~PowerCycle]_vars
OfflineScansDelivered ==
  SupplySettles =>
    \A card \in Cards : card \in unsent /\ radio = "connected" ~> card \notin unsent
=============================================================================
