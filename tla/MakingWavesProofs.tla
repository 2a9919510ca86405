-------------------------- MODULE MakingWavesProofs --------------------------
(***************************************************************************)
(* What a visit promises, for any choice of difficulties, any length of     *)
(* the queue of the base and any number of reader threads.                  *)
(***************************************************************************)
EXTENDS MakingWaves, TLAPS

(* What the fields of the GUI are worth, without the base behind them.      *)
GuiTypeOK ==
  /\ screen \in {"home", "opening", "collect", "countdown", "sail"}
  /\ difficulty \in AllLevels /\ reader \in 0..MaxReaders
  /\ port \in [Readers -> {"none", "opening", "open"}]
  /\ scanned \in SUBSET Cards /\ earned \in SUBSET Cards

(* A card in the reader of the GUI has been read in this visit, or the      *)
(* visitor has been let through.                                            *)
VisitIInv == GuiTypeOK /\ scanned \subseteq earned /\ VoyageIsEarned

(* A new thread takes a slot of its own, and nobody's cards.                *)
LEMMA NewReaderHasNoCards ==
  ASSUME GuiTypeOK, StartsReader
  PROVE  /\ scanned' = {} /\ reader' \in 1..MaxReaders
         /\ port' \in [Readers -> {"none", "opening", "open"}]
<1>1. PICK i \in Readers : /\ reader' = i /\ port' = [port EXCEPT ![i] = "opening"]
                           /\ scanned' = {}
  BY Zenon DEF StartsReader
<1> QED
  BY <1>1 DEF GuiTypeOK, Readers

LEMMA VisitIInvHolds == Spec => []VisitIInv
<1>1. Init => VisitIInv
  BY WavesAssumption DEF Init, VisitIInv, GuiTypeOK, VoyageIsEarned, Readers, AllLevels, Cards
<1>2. VisitIInv /\ [Next]_vars => VisitIInv'
  <2> SUFFICES ASSUME VisitIInv, [Next]_vars PROVE VisitIInv'
    OBVIOUS
  <2> USE DEF VisitIInv, GuiTypeOK, VoyageIsEarned, pages, gui, base
  <2>1. CASE ConnectClicked
    BY <2>1, NewReaderHasNoCards DEF ConnectClicked
  <2>2. CASE SpaceAtHome
    BY <2>2 DEF SpaceAtHome
  <2>3. CASE SpaceAtCollect
    <3>1. Required' \subseteq Cards
      BY DEF Required, Cards
    <3> QED
      BY <2>3, <3>1 DEF SpaceAtCollect
  <2>4. CASE ImuCommand
    BY <2>4 DEF ImuCommand, Required
  <2>5. CASE ConnectAtSea
    <3>1. /\ scanned' = {} /\ reader' \in 0..MaxReaders
          /\ port' \in [Readers -> {"none", "opening", "open"}]
      <4>1. CASE IsConnected
        BY <2>5, <4>1, WavesAssumption DEF ConnectAtSea
      <4>2. CASE ~IsConnected
        BY <2>5, <4>2, NewReaderHasNoCards DEF ConnectAtSea
      <4> QED
        BY <4>1, <4>2
    <3> QED
      BY <2>5, <3>1 DEF ConnectAtSea, Required
  <2>6. CASE Home
    <3>1. port' \in [Readers -> {"none", "opening", "open"}]
      BY <2>6 DEF Home, Closed, Readers
    <3>2. scanned' = {} /\ earned' = {} /\ screen' = "home" /\ reader' = 0 /\ difficulty' = "hard"
      BY <2>6 DEF Home, ReaderAfterHome
    <3> QED
      BY <3>1, <3>2, WavesAssumption DEF AllLevels
  <2>7. ASSUME NEW level \in Levels, DifficultyClicked(level) PROVE VisitIInv'
    BY <2>7, WavesAssumption DEF DifficultyClicked
  <2>8. ASSUME NEW card \in Cards, CardScanned(card) PROVE VisitIInv'
    <3>1. /\ scanned' \subseteq earned' /\ scanned' \subseteq Cards
          /\ earned \subseteq earned' /\ earned' \subseteq Cards
      BY <2>8 DEF CardScanned, KnownColours
    <3>2. UNCHANGED <<screen, difficulty, reader, port>>
      BY <2>8 DEF CardScanned
    <3> QED
      BY <3>1, <3>2 DEF Required
  <2>9. CASE GuiNext
    <3>1. CASE ConnectReturns
      BY <2>9, <3>1 DEF ConnectReturns
    <3>2. CASE HomeEnds
      BY <3>2 DEF HomeEnds
    <3>3. CASE CardsComplete
      BY <3>3 DEF CardsComplete, Required
    <3>4. CASE SetsSail
      BY <3>4 DEF SetsSail, Required
    <3> QED
      BY <2>9, <3>1, <3>2, <3>3, <3>4 DEF GuiNext
  <2>10. ASSUME NEW i \in Readers, PortOpens(i) \/ PortFails(i) PROVE VisitIInv'
    BY <2>10 DEF PortOpens, PortFails, Required
  <2>11. CASE CommandHandled
    BY <2>11 DEF CommandHandled, Required
  <2>12. CASE SessionChanges
    BY <2>12 DEF SessionChanges, Required
  <2>13. CASE CablePulled
    BY <2>13 DEF CablePulled, Required
  <2>14. CASE UNCHANGED vars
    BY <2>14 DEF vars, Required
  <2>15. CASE Restarts
    <3>1. reader' \in 0..MaxReaders /\ port' \in [Readers -> {"none", "opening", "open"}]
      BY <2>15, WavesAssumption DEF Restarts, Starts, Readers
    <3>2. scanned' = {} /\ earned' = {} /\ screen' = "home" /\ difficulty' = "hard"
      BY <2>15 DEF Restarts, Starts
    <3> QED
      BY <3>1, <3>2 DEF AllLevels
  <2> QED
    BY <2>1, <2>2, <2>3, <2>4, <2>5, <2>6, <2>7, <2>8, <2>9, <2>10, <2>11, <2>12, <2>13, <2>14,
       <2>15
    DEF Next, VisitorNext, ReaderNext
<1> QED
  BY <1>1, <1>2, PTL DEF Spec

(* Who gets to the countdown without SPACE has held every card of the       *)
(* chosen difficulty to the reader in this visit.                           *)
THEOREM VoyagesAreEarned == Spec => []VoyageIsEarned
<1>1. VisitIInv => VoyageIsEarned
  BY DEF VisitIInv
<1> QED
  BY <1>1, VisitIInvHolds, PTL

-----------------------------------------------------------------------------
(* Threads.                                                                *)

(* A thread that is alive is the reader of the GUI, or the GUI has let go   *)
(* of it.                                                                   *)
THEOREM OneReaderHolds == Spec => []OneReaderPerPort
<1>1. Init => OneReaderPerPort
  BY DEF Init, OneReaderPerPort, Live
<1>2. VisitIInv /\ OneReaderPerPort /\ [Next]_vars => OneReaderPerPort'
  <2> SUFFICES ASSUME VisitIInv, OneReaderPerPort, [Next]_vars, ~stray' PROVE Live' \subseteq {reader'}
    BY DEF OneReaderPerPort
  <2>0. port \in [Readers -> {"none", "opening", "open"}]
    BY DEF VisitIInv, GuiTypeOK
  <2>1. ASSUME StartsReader PROVE Live' \subseteq {reader'}
    <3>1. PICK i \in Readers : reader' = i /\ port' = [port EXCEPT ![i] = "opening"]
      BY <2>1, Zenon DEF StartsReader
    <3>2. Live = {}
      BY <2>1, Zenon DEF StartsReader
    <3> QED
      BY <2>0, <3>1, <3>2 DEF Live
  <2>2. CASE ConnectAtSea
    <3>1. ~IsConnected
      BY <2>2, Zenon DEF ConnectAtSea
    <3> QED
      BY <2>1, <2>2, <3>1 DEF ConnectAtSea
  <2>3. CASE Home
    <3>1. ~stray /\ reader \notin Live \ Open
      BY <2>3, Zenon DEF Home
    <3>2. Live \subseteq {reader}
      BY <3>1 DEF OneReaderPerPort
    <3>3. port' = IF reader = 0 THEN port ELSE [port EXCEPT ![reader] = Closed(@)]
      BY <2>3 DEF Home
    <3>4. CASE reader = 0
      BY <2>0, <3>2, <3>3, <3>4 DEF Live, Readers
    <3>5. CASE reader # 0
      <4>1. reader \in Readers
        BY <3>5 DEF VisitIInv, GuiTypeOK, Readers
      <4>2. port[reader] # "opening"
        BY <2>0, <3>1, <4>1 DEF Live, Open
      <4>3. \A i \in Readers : port'[i] = IF i = reader THEN Closed(port[i]) ELSE port[i]
        BY <2>0, <3>3, <3>5, <4>1
      <4>4. \A i \in Readers : port'[i] = "none"
        BY <2>0, <3>2, <4>2, <4>3 DEF Live, Closed
      <4> QED
        BY <4>4 DEF Live
    <3> QED
      BY <3>4, <3>5
  <2>4. ASSUME NEW i \in Readers, PortOpens(i) \/ PortFails(i) PROVE Live' \subseteq {reader'}
    <3>0. UNCHANGED <<stray, reader>>
      BY <2>4 DEF PortOpens, PortFails
    <3>1. ~stray /\ reader' = reader
      BY <3>0, Zenon
    <3>2. Live' \subseteq Live
      BY <2>0, <2>4 DEF PortOpens, PortFails, Live
    <3> QED
      BY <3>1, <3>2 DEF OneReaderPerPort
  <2>5. CASE UNCHANGED <<reader, port, stray>>
    BY <2>5 DEF OneReaderPerPort, Live
  <2>6. CASE ConnectClicked
    BY <2>1, <2>6 DEF ConnectClicked
  <2>7. ASSUME NEW level \in Levels, DifficultyClicked(level) PROVE UNCHANGED <<reader, port, stray>>
    BY <2>7 DEF DifficultyClicked, gui
  <2>8. ASSUME NEW card \in Cards, CardScanned(card) PROVE UNCHANGED <<reader, port, stray>>
    BY <2>8 DEF CardScanned
  <2>9. CASE SpaceAtHome \/ SpaceAtCollect \/ ImuCommand \/ GuiNext \/ CommandHandled
             \/ SessionChanges \/ CablePulled \/ UNCHANGED vars
    <3>1. UNCHANGED <<reader, port, stray>>
      BY <2>9 DEF SpaceAtHome, SpaceAtCollect, ImuCommand, GuiNext, ConnectReturns, HomeEnds,
         CardsComplete, SetsSail, CommandHandled, SessionChanges, CablePulled, gui, vars
    <3> QED
      BY <2>5, <3>1
  <2>10. CASE Restarts
    BY <2>10 DEF Restarts, Starts, Live
  <2> QED
    BY <2>2, <2>3, <2>4, <2>5, <2>6, <2>7, <2>8, <2>9, <2>10 DEF Next, VisitorNext, ReaderNext
<1> QED
  BY <1>1, <1>2, VisitIInvHolds, PTL DEF Spec

-----------------------------------------------------------------------------
(* The difficulty.                                                         *)

QueueTypeOK == commands \in Seq(AllLevels \cup {"zero"}) /\ Len(commands) <= QueueSize

(* A command that is handed over is the last of the queue, if there is room. *)
LEMMA SendAppends ==
  ASSUME QueueTypeOK, NEW command \in AllLevels \cup {"zero"}, Sends(command)
  PROVE  /\ QueueTypeOK'
         /\ \/ commands' = commands
            \/ /\ Len(commands') = Len(commands) + 1 /\ commands'[Len(commands) + 1] = command
               /\ \A k \in 1..Len(commands) : commands'[k] = commands[k]
<1>1. CASE commands' = commands
  BY <1>1 DEF QueueTypeOK
<1>2. CASE commands' = Append(commands, command) /\ HasRoom
  BY <1>2, WavesAssumption DEF QueueTypeOK, HasRoom
<1> QED
  BY <1>1, <1>2 DEF Sends

(* What is handled leaves the head of the queue.                           *)
LEMMA HandledIsHead ==
  ASSUME QueueTypeOK, commands # <<>>, commands' = Tail(commands)
  PROVE  /\ QueueTypeOK' /\ Head(commands) = commands[1] /\ 1 \in 1..Len(commands)
         /\ Len(commands') = Len(commands) - 1
         /\ \A k \in 1..Len(commands') : commands'[k] = commands[k + 1]
<1>1. Len(commands) \in Nat \ {0}
  BY DEF QueueTypeOK
<1>2. Len(commands') = Len(commands) - 1 /\ commands' \in Seq(AllLevels \cup {"zero"})
  BY DEF QueueTypeOK
<1>3. QueueTypeOK'
  BY <1>1, <1>2, WavesAssumption DEF QueueTypeOK
<1>4. \A k \in 1..Len(commands') : commands'[k] = commands[k + 1]
  BY <1>1, <1>2 DEF QueueTypeOK
<1>5. Head(commands) = commands[1]
  BY DEF QueueTypeOK
<1> QED
  BY <1>1, <1>2, <1>3, <1>4, <1>5

(* With the difficulty last in the queue, or in the node and none in the    *)
(* queue, the node ends up with it; this is kept by every step.            *)
LEMMA ModeInvariantHolds == Spec => [](QueueTypeOK /\ ScreenAgreesWithNode)
<1> DEFINE Inv == QueueTypeOK /\ ScreenAgreesWithNode
<1>1. Init => Inv
  <2> SUFFICES ASSUME Init PROVE Inv
    OBVIOUS
  <2>1. ~agreed
    BY Zenon DEF Init
  <2>2. commands = <<>>
    BY Zenon DEF Init
  <2>3. QueueTypeOK
    BY <2>2, WavesAssumption DEF QueueTypeOK
  <2> QED
    BY <2>1, <2>3, Zenon DEF ScreenAgreesWithNode
<1>2. VisitIInv /\ Inv /\ [Next]_vars => Inv'
  <2> SUFFICES ASSUME VisitIInv, QueueTypeOK, ScreenAgreesWithNode, [Next]_vars PROVE Inv'
    BY Zenon
  <2>0. difficulty \in AllLevels
    BY DEF VisitIInv, GuiTypeOK
  <2>a. ASSUME UNCHANGED <<commands, mode, difficulty, agreed>> PROVE Inv'
    <3>1. QueueTypeOK'
      BY <2>a DEF QueueTypeOK
    <3>2. ModesHeld' = ModesHeld
      BY <2>a DEF ModesHeld
    <3> QED
      BY <2>a, <3>1, <3>2 DEF ScreenAgreesWithNode
  <2>b. ASSUME UNCHANGED commands \/ commands' = <<>>, ~agreed' PROVE Inv'
    <3>1. QueueTypeOK'
      <4>1. CASE UNCHANGED commands
        BY <4>1 DEF QueueTypeOK
      <4>2. CASE commands' = <<>>
        BY <4>2, WavesAssumption DEF QueueTypeOK
      <4> QED
        BY <2>b, <4>1, <4>2
    <3> QED
      BY <2>b, <3>1, Zenon DEF ScreenAgreesWithNode
  <2>1. CASE ConnectReturns
    <3>1. CASE ~IsConnected
      <4>1. UNCHANGED <<commands, mode, difficulty, agreed>>
        BY <2>1, <3>1 DEF ConnectReturns
      <4> QED
        BY <2>a, <4>1
    <3>2. CASE IsConnected
      <4>1. Sends(difficulty)
        <5>1. Sends(ModeToSend)
          BY <2>1, <3>2, Zenon DEF ConnectReturns
        <5> QED
          BY <5>1 DEF ModeToSend
      <4>2. agreed' = (commands' # commands) /\ UNCHANGED <<difficulty, mode>>
        BY <2>1, <3>2, Zenon DEF ConnectReturns
      <4>3. QueueTypeOK'
        BY <2>0, <4>1, SendAppends
      <4>4. ASSUME agreed' PROVE ScreenAgreesWithNode'
        <5>1. commands' # commands
          BY <4>2, <4>4, Zenon
        <5>2. /\ Len(commands') = Len(commands) + 1
              /\ commands'[Len(commands) + 1] = difficulty
          BY <2>0, <4>1, <5>1, SendAppends
        <5>3. Len(commands) + 1 \in ModesHeld' /\ \A j \in ModesHeld' : j <= Len(commands) + 1
          BY <2>0, <4>3, <5>2 DEF ModesHeld, QueueTypeOK
        <5> QED
          BY <4>2, <5>2, <5>3 DEF ScreenAgreesWithNode
      <4> QED
        BY <4>3, <4>4, Zenon DEF ScreenAgreesWithNode
    <3> QED
      BY <3>1, <3>2
  <2>2. CASE ImuCommand
    <3>1. Sends("zero") /\ UNCHANGED <<mode, difficulty, agreed>>
      BY <2>2 DEF ImuCommand, pages
    <3>2. QueueTypeOK'
      BY <3>1, SendAppends
    <3>3. ModesHeld' = ModesHeld /\ \A k \in ModesHeld : commands'[k] = commands[k]
      <4>1. CASE commands' = commands
        BY <4>1 DEF ModesHeld
      <4>2. CASE commands' # commands
        <5>1. /\ Len(commands') = Len(commands) + 1 /\ commands'[Len(commands) + 1] = "zero"
              /\ \A k \in 1..Len(commands) : commands'[k] = commands[k]
          BY <3>1, <4>2, SendAppends
        <5>2. "zero" \notin AllLevels
          BY DEF AllLevels
        <5> QED
          BY <3>2, <5>1, <5>2 DEF ModesHeld, QueueTypeOK
      <4> QED
        BY <4>1, <4>2
    <3> QED
      BY <3>1, <3>2, <3>3 DEF ScreenAgreesWithNode
  <2>3. CASE CommandHandled
    <3>1. commands # <<>> /\ commands' = Tail(commands) /\ UNCHANGED difficulty
      BY <2>3 DEF CommandHandled, pages
    <3>2. /\ QueueTypeOK' /\ Head(commands) = commands[1] /\ 1 \in 1..Len(commands)
          /\ Len(commands') = Len(commands) - 1
          /\ \A k \in 1..Len(commands') : commands'[k] = commands[k + 1]
      BY <3>1, HandledIsHead
    <3>3. \A k \in 1..Len(commands') : k \in ModesHeld' <=> k + 1 \in ModesHeld
      BY <3>2 DEF ModesHeld, QueueTypeOK
    <3>4. /\ ModesHeld \subseteq 1..Len(commands) /\ ModesHeld' \subseteq 1..Len(commands')
          /\ Len(commands) \in Nat /\ Len(commands') \in Nat
      BY <3>2 DEF ModesHeld, QueueTypeOK
    \* A later difficulty stays behind the head.
    <3>5. ASSUME NEW k \in ModesHeld, k # 1, commands[k] = difficulty, \A j \in ModesHeld : j <= k
          PROVE  ScreenAgreesWithNode'
      <4>1. k - 1 \in ModesHeld' /\ commands'[k - 1] = difficulty
        BY <3>2, <3>3, <3>4, <3>5
      <4>2. \A j \in ModesHeld' : j <= k - 1
        BY <3>2, <3>3, <3>4, <3>5
      <4> QED
        BY <3>1, <4>1, <4>2 DEF ScreenAgreesWithNode
    \* Nothing is left when the head was the last one.
    <3>6. ASSUME \A j \in ModesHeld : j <= 1 PROVE ModesHeld' = {}
      BY <3>2, <3>3, <3>4, <3>6
    <3>7. CASE Head(commands) \in AllLevels /\ mode' = Head(commands) /\ UNCHANGED agreed
      <4>1. 1 \in ModesHeld
        BY <3>2, <3>7 DEF ModesHeld
      <4>2. ASSUME agreed' PROVE ScreenAgreesWithNode'
        <5>1. agreed
          BY <3>7, <4>2, Zenon
        <5>2. PICK k \in ModesHeld : commands[k] = difficulty /\ \A j \in ModesHeld : j <= k
          BY <4>1, <5>1, Zenon DEF ScreenAgreesWithNode
        <5>3. CASE k = 1
          BY <3>1, <3>2, <3>6, <3>7, <5>2, <5>3 DEF ScreenAgreesWithNode
        <5> QED
          BY <3>5, <5>2, <5>3
      <4> QED
        BY <3>2, <4>2, Zenon DEF ScreenAgreesWithNode
    <3>8. CASE /\ Head(commands) \in AllLevels /\ UNCHANGED mode
               /\ agreed' = (agreed /\ Head(commands) # difficulty)
      <4>1. 1 \in ModesHeld
        BY <3>2, <3>8 DEF ModesHeld
      <4>2. ASSUME agreed' PROVE ScreenAgreesWithNode'
        <5>1. agreed /\ Head(commands) # difficulty
          BY <3>8, <4>2, Zenon
        <5>2. PICK k \in ModesHeld : commands[k] = difficulty /\ \A j \in ModesHeld : j <= k
          BY <4>1, <5>1, Zenon DEF ScreenAgreesWithNode
        <5>3. k # 1
          BY <3>2, <5>1, <5>2, Zenon
        <5> QED
          BY <3>5, <5>2, <5>3
      <4> QED
        BY <3>2, <4>2, Zenon DEF ScreenAgreesWithNode
    <3>9. CASE Head(commands) \notin AllLevels /\ UNCHANGED <<mode, agreed>>
      <4>1. 1 \notin ModesHeld
        BY <3>2, <3>9 DEF ModesHeld
      <4>2. ASSUME agreed' PROVE ScreenAgreesWithNode'
        <5>1. agreed
          BY <3>9, <4>2, Zenon
        <5>2. CASE ModesHeld = {} /\ mode = difficulty
          BY <3>1, <3>6, <3>9, <5>2 DEF ScreenAgreesWithNode
        <5>3. ASSUME NEW k \in ModesHeld, commands[k] = difficulty, \A j \in ModesHeld : j <= k
              PROVE  ScreenAgreesWithNode'
          <6>1. k # 1
            BY <4>1, Zenon
          <6> QED
            BY <3>5, <5>3, <6>1
        <5> QED
          BY <5>1, <5>2, <5>3, Zenon DEF ScreenAgreesWithNode
      <4> QED
        BY <3>2, <4>2, Zenon DEF ScreenAgreesWithNode
    <3> QED
      BY <2>3, <3>7, <3>8, <3>9, Zenon DEF CommandHandled, KnownModes
  <2>4. CASE CablePulled
    BY <2>b, <2>4 DEF CablePulled
  <2>5. CASE Home
    BY <2>b, <2>5 DEF Home, base
  <2>6. ASSUME NEW level \in Levels, DifficultyClicked(level) PROVE Inv'
    BY <2>b, <2>6 DEF DifficultyClicked, base
  <2>7. ASSUME NEW card \in Cards, CardScanned(card) PROVE Inv'
    BY <2>a, <2>7 DEF CardScanned, pages, base
  <2>8. ASSUME NEW i \in Readers, PortOpens(i) \/ PortFails(i) PROVE Inv'
    BY <2>a, <2>8 DEF PortOpens, PortFails, pages, base
  <2>9. CASE \/ ConnectClicked \/ SpaceAtHome \/ SpaceAtCollect \/ ConnectAtSea \/ HomeEnds
             \/ CardsComplete \/ SetsSail \/ SessionChanges \/ UNCHANGED vars
    <3>1. UNCHANGED <<commands, mode, difficulty, agreed>>
      BY <2>9 DEF ConnectClicked, SpaceAtHome, SpaceAtCollect, ConnectAtSea, HomeEnds, CardsComplete,
         SetsSail, SessionChanges, pages, base, vars
    <3> QED
      BY <2>a, <3>1
  <2>10. CASE Restarts
    <3>1. commands' = commands
      BY <2>10 DEF Restarts, base
    <3>2. ~agreed'
      BY <2>10, Zenon DEF Restarts, Starts
    <3> QED
      BY <2>b, <3>1, <3>2
  <2> QED
    BY <2>1, <2>2, <2>3, <2>4, <2>5, <2>6, <2>7, <2>8, <2>9, <2>10
    DEF Next, VisitorNext, GuiNext, ReaderNext
<1> QED
  BY <1>1, <1>2, VisitIInvHolds, PTL DEF Spec

(* Once the base has taken the difficulty of the screen, and neither the    *)
(* visitor nor a lost link has changed it, the node ends up with it.        *)
THEOREM ScreenAndNodeAgree == Spec => []ScreenAgreesWithNode
<1> QED
  BY ModeInvariantHolds, PTL

-----------------------------------------------------------------------------
(* Types.                                                                  *)

FlagsTypeOK == connecting \in BOOLEAN /\ agreed \in BOOLEAN /\ stray \in BOOLEAN
NodeTypeOK == session \in [{"rfid"} -> Sessions!States] /\ mode \in AllLevels

LEMMA FlagsHold == Spec => []FlagsTypeOK
<1>1. Init => FlagsTypeOK
  BY Zenon DEF Init, FlagsTypeOK
<1>2. FlagsTypeOK /\ [Next]_vars => FlagsTypeOK'
  <2> SUFFICES ASSUME connecting \in BOOLEAN, agreed \in BOOLEAN, stray \in BOOLEAN, [Next]_vars
               PROVE  FlagsTypeOK'
    BY Zenon DEF FlagsTypeOK
  <2>a. ASSUME UNCHANGED <<connecting, agreed, stray>> PROVE FlagsTypeOK'
    <3>1. connecting' = connecting /\ agreed' = agreed /\ stray' = stray
      BY <2>a
    <3> QED
      BY <3>1, Zenon DEF FlagsTypeOK
  <2>b. ASSUME StartsReader PROVE stray' \in BOOLEAN
    BY <2>b, Zenon DEF StartsReader
  <2>1. CASE ConnectClicked
    <3>1. UNCHANGED <<connecting, agreed>>
      BY <2>1 DEF ConnectClicked
    <3>2. connecting' = connecting /\ agreed' = agreed /\ StartsReader
      BY <2>1, <3>1, Zenon DEF ConnectClicked
    <3> QED
      BY <2>b, <3>2, Zenon DEF FlagsTypeOK
  <2>2. CASE SpaceAtHome
    BY <2>2, Zenon DEF SpaceAtHome, FlagsTypeOK
  <2>3. CASE ConnectAtSea
    <3>1. UNCHANGED <<connecting, agreed>>
      BY <2>3 DEF ConnectAtSea, pages
    <3>2. connecting' = connecting /\ agreed' = agreed
      BY <3>1
    <3>3. stray' \in BOOLEAN
      BY <2>3, <2>b, Zenon DEF ConnectAtSea
    <3> QED
      BY <3>2, <3>3, Zenon DEF FlagsTypeOK
  <2>4. CASE Home
    BY <2>4, Zenon DEF Home, FlagsTypeOK
  <2>5. ASSUME NEW level \in Levels, DifficultyClicked(level) PROVE FlagsTypeOK'
    BY <2>5, Zenon DEF DifficultyClicked, FlagsTypeOK
  <2>6. CASE ConnectReturns
    <3>1. connecting' \in BOOLEAN /\ agreed' \in BOOLEAN
      <4>1. CASE IsConnected
        BY <2>6, <4>1, Zenon DEF ConnectReturns
      <4>2. CASE ~IsConnected
        BY <2>6, <4>2, Zenon DEF ConnectReturns
      <4> QED
        BY <4>1, <4>2
    <3>2. stray' = stray
      BY <2>6, Zenon DEF ConnectReturns
    <3> QED
      BY <3>1, <3>2, Zenon DEF FlagsTypeOK
  <2>7. CASE CommandHandled
    <3>1. UNCHANGED <<connecting, stray>>
      BY <2>7 DEF CommandHandled, pages
    <3>2. connecting' = connecting /\ stray' = stray
      BY <3>1
    <3>3. agreed' \in BOOLEAN
      BY <2>7, Zenon DEF CommandHandled
    <3> QED
      BY <3>2, <3>3, Zenon DEF FlagsTypeOK
  <2>8. CASE CablePulled
    <3>1. UNCHANGED <<connecting, stray>>
      BY <2>8 DEF CablePulled, pages
    <3>2. connecting' = connecting /\ stray' = stray
      BY <3>1
    <3>3. agreed' = FALSE
      BY <2>8, Zenon DEF CablePulled
    <3> QED
      BY <3>2, <3>3, Zenon DEF FlagsTypeOK
  <2>9. ASSUME NEW card \in Cards, CardScanned(card) PROVE FlagsTypeOK'
    BY <2>a, <2>9 DEF CardScanned, pages
  <2>10. ASSUME NEW i \in Readers, PortOpens(i) \/ PortFails(i) PROVE FlagsTypeOK'
    BY <2>a, <2>10 DEF PortOpens, PortFails, pages
  <2>11. CASE \/ SpaceAtCollect \/ ImuCommand \/ HomeEnds \/ CardsComplete \/ SetsSail
              \/ SessionChanges \/ UNCHANGED vars
    <3>1. UNCHANGED <<connecting, agreed, stray>>
      BY <2>11 DEF SpaceAtCollect, ImuCommand, HomeEnds, CardsComplete, SetsSail, SessionChanges,
         pages, vars
    <3> QED
      BY <2>a, <3>1
  <2>12. CASE Restarts
    BY <2>12, Zenon DEF Restarts, Starts, FlagsTypeOK
  <2> QED
    BY <2>1, <2>2, <2>3, <2>4, <2>5, <2>6, <2>7, <2>8, <2>9, <2>10, <2>11, <2>12
    DEF Next, VisitorNext, GuiNext, ReaderNext
<1> QED
  BY <1>1, <1>2, PTL DEF Spec

LEMMA NodeTypesHold == Spec => []NodeTypeOK
<1>1. Init => NodeTypeOK
  BY WavesAssumption DEF Init, NodeTypeOK, Sessions!Init, Sessions!States
<1>2. NodeTypeOK /\ [Next]_vars => NodeTypeOK'
  <2> SUFFICES ASSUME NodeTypeOK, [Next]_vars PROVE NodeTypeOK'
    OBVIOUS
  <2>1. CASE CommandHandled
    BY <2>1 DEF CommandHandled, NodeTypeOK, KnownModes
  <2>2. CASE SessionChanges
    <3>1. PICK from \in Sessions!States, to \in Sessions!States : Sessions!Moves("rfid", from, to)
      BY <2>2 DEF SessionChanges, Sessions!Next, Sessions!Open, Sessions!Fail, Sessions!Establish,
         Sessions!Lose, Sessions!Close, Sessions!States
    <3>2. session' = [session EXCEPT !["rfid"] = to]
      BY <3>1 DEF Sessions!Moves
    <3> QED
      BY <2>2, <3>2 DEF SessionChanges, NodeTypeOK
  <2>3. CASE CablePulled
    BY <2>3 DEF CablePulled, NodeTypeOK, Sessions!States
  <2>4. CASE UNCHANGED <<session, mode>>
    BY <2>4 DEF NodeTypeOK
  <2>5. ASSUME VisitorNext \/ GuiNext \/ ReaderNext \/ UNCHANGED vars PROVE UNCHANGED <<session, mode>>
    BY <2>5 DEF VisitorNext, GuiNext, ReaderNext, ConnectClicked, SpaceAtHome, SpaceAtCollect,
       ImuCommand, ConnectAtSea, Home, Restarts, DifficultyClicked, CardScanned, ConnectReturns, HomeEnds,
       CardsComplete, SetsSail, PortOpens, PortFails, base, vars
  <2> QED
    BY <2>1, <2>2, <2>3, <2>4, <2>5 DEF Next
<1> QED
  BY <1>1, <1>2, PTL DEF Spec

(* All variables keep their types, and the queue of the base its limit.    *)
THEOREM WavesTypesHold == Spec => []WavesTypeOK
<1>1. VisitIInv /\ QueueTypeOK /\ FlagsTypeOK /\ NodeTypeOK => WavesTypeOK
  BY Zenon DEF VisitIInv, GuiTypeOK, QueueTypeOK, FlagsTypeOK, NodeTypeOK, WavesTypeOK
<1> QED
  BY <1>1, VisitIInvHolds, ModeInvariantHolds, FlagsHold, NodeTypesHold, PTL
==============================================================================
