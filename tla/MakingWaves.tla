----------------------------- MODULE MakingWaves -----------------------------
(***************************************************************************)
(* The exhibit as a visitor meets it: the GUI                               *)
(* (03GUI/ship_navigation-4.py:177-252, 522-964), the base and the card     *)
(* reader node.  The GUI is one event loop after the other: the home screen *)
(* with the difficulty and Connect, the screen that collects the cards, the *)
(* countdown, the voyage, and Home again.  Connect starts a thread that     *)
(* opens the port and reads lines until it fails; Connect waits 600 ms for  *)
(* it, sends the difficulty once, and trusts that it arrives.               *)
(*                                                                          *)
(* The base is taken from its own modules in short: a session with the node *)
(* comes and goes (NodeSessions), commands go through a queue and are lost  *)
(* without one (BaseLink), and a scan reaches the port (Forwarding).  The   *)
(* node keeps its difficulty over a restart (RfidNode).                     *)
(***************************************************************************)
EXTENDS Integers, Sequences

CONSTANTS
  Levels,       \* the difficulties a visitor clicks on
  QueueSize,    \* MSG_QUEUE_SIZE of the base
  MaxReaders    \* bound: reader threads alive at a time

Cards == {"yellow", "green", "purple"}
AllLevels == {"easy", "medium", "hard"}
Readers == 1..MaxReaders

ASSUME WavesAssumption ==
  Levels \subseteq AllLevels /\ QueueSize \in Nat \ {0} /\ MaxReaders \in Nat \ {0}

VARIABLES
  screen,       \* "home", "opening" while Connect waits, "collect", "countdown", "sail"
  connecting,   \* the flag of the home screen: once it is down the loop ends
                \* with the events pygame has handed over together
  difficulty,   \* chosen on the home screen; REQUIRED follows it
  reader,       \* the reader of the GUI, 0 for None
  port,         \* the port of each thread: "none" when the thread has ended
  scanned,      \* the cards the reader of the GUI has seen
  commands,     \* lines on their way through the base
  session,      \* the session of the base with the card reader node
  mode,         \* the difficulty of the node
  earned,       \* history: cards the GUI has read in this visit, or waived with SPACE
  agreed,       \* history: the base has taken the difficulty of the screen,
                \* and nothing has happened to either since
  stray         \* history: the GUI has let go of a thread that was not done

pages == <<screen, connecting, difficulty>>
gui == <<reader, port, scanned>>
base == <<commands, session, mode>>
vars == <<pages, gui, base, earned, agreed, stray>>

Sessions == INSTANCE NodeSessions WITH Peers <- {"rfid"}, Capacity <- 2
InSession == session["rfid"] = "open"

\* DIFF_REQUIRED, for the difficulty the home screen is left with.
Required ==
  CASE difficulty = "easy" -> {"yellow"}
    [] difficulty = "medium" -> {"yellow", "green"}
    [] OTHER -> Cards

-----------------------------------------------------------------------------
(* SerialReader.                                                           *)

Live == {i \in Readers : port[i] # "none"}
Open == {i \in Readers : port[i] = "open"}
IsConnected == reader # 0 /\ port[reader] = "open"

\* reader = SerialReader(...); the one before lives on.
StartsReader ==
  \E i \in Readers \ (Live \cup {reader}) :
     /\ \A j \in Readers \ (Live \cup {reader}) : i <= j
     /\ reader' = i /\ port' = [port EXCEPT ![i] = "opening"] /\ scanned' = {}
     /\ stray' = (stray \/ Live # {})

PortOpens(i) ==
  /\ port[i] = "opening"
  /\ port' = [port EXCEPT ![i] = "open"]
  /\ UNCHANGED <<pages, reader, scanned, base, earned, agreed, stray>>

\* A SerialException ends the thread: no port, a pulled cable, or a port that
\* opens only once and is open.
PortFails(i) ==
  /\ port[i] # "none"
  /\ port' = [port EXCEPT ![i] = "none"]
  /\ UNCHANGED <<pages, reader, scanned, base, earned, agreed, stray>>

HasRoomMutant == TRUE
HasRoom == Len(commands) < QueueSize

\* send_raw through a connected reader: the write may fail, and the base drops
\* a line its queue has no room for.
Sends(command) ==
  \/ commands' = Append(commands, command) /\ HasRoom
  \/ commands' = commands

-----------------------------------------------------------------------------
(* The home screen.                                                        *)

\* The click is not sent: that is left to Connect.
DifficultyClicked(level) ==
  /\ screen = "home" /\ level # difficulty
  /\ difficulty' = level /\ agreed' = FALSE
  /\ UNCHANGED <<screen, connecting, gui, base, earned, stray>>

ConnectClicked ==
  /\ screen = "home"
  /\ screen' = "opening"
  /\ StartsReader
  /\ UNCHANGED <<connecting, difficulty, base, earned, agreed>>

\* 600 ms later.
ModeToSendMutant == "hard"
ModeToSend == difficulty
ConnectReturns ==
  /\ screen = "opening"
  /\ screen' = "home"
  /\ IF IsConnected
       THEN /\ Sends(ModeToSend)
            /\ agreed' = (commands' # commands)
            /\ connecting' = FALSE
       ELSE UNCHANGED <<commands, agreed, connecting>>
  /\ UNCHANGED <<difficulty, gui, session, mode, earned, stray>>

SpaceAtHome ==
  /\ screen = "home"
  /\ connecting' = FALSE
  /\ UNCHANGED <<screen, difficulty, gui, base, earned, agreed, stray>>

\* The events are handled, the loop ends.
HomeEnds ==
  /\ screen = "home" /\ ~connecting
  /\ screen' = "collect"
  /\ UNCHANGED <<connecting, difficulty, gui, base, earned, agreed, stray>>

(* The other screens.                                                      *)

CardsComplete ==
  /\ screen = "collect" /\ Required \subseteq scanned
  /\ screen' = "countdown"
  /\ UNCHANGED <<connecting, difficulty, gui, base, earned, agreed, stray>>

SpaceAtCollect ==
  /\ screen = "collect"
  /\ screen' = "countdown" /\ earned' = Cards
  /\ UNCHANGED <<connecting, difficulty, gui, base, agreed, stray>>

SetsSail ==
  /\ screen = "countdown"
  /\ screen' = "sail"
  /\ UNCHANGED <<connecting, difficulty, gui, base, earned, agreed, stray>>

\* The button Zero, or an obstacle: a command for the other node.
ImuCommand ==
  /\ screen = "sail" /\ IsConnected
  /\ Sends("zero")
  /\ UNCHANGED <<pages, gui, session, mode, earned, agreed, stray>>

\* Connect in the voyage: a connected reader is dropped as it is.
ConnectAtSea ==
  /\ screen = "sail"
  /\ IF IsConnected
       THEN reader' = 0 /\ scanned' = {} /\ stray' = TRUE /\ UNCHANGED port
       ELSE StartsReader
  /\ UNCHANGED <<pages, base, earned, agreed>>

\* Home closes the port of the reader it has, if that has come to open it, and
\* forgets the reader with its cards.
ReaderAfterHomeMutant == reader
ReaderAfterHome == 0
ClosedMutant(state) == state
Closed(state) == IF state = "open" THEN "none" ELSE state
Home ==
  /\ screen = "sail"
  /\ screen' = "home" /\ connecting' = TRUE /\ difficulty' = "hard"
  /\ port' = IF reader = 0 THEN port ELSE [port EXCEPT ![reader] = Closed(@)]
  /\ reader' = ReaderAfterHome
  /\ scanned' = IF ReaderAfterHome = 0 THEN {} ELSE scanned
  /\ earned' = {} /\ agreed' = FALSE /\ stray' = (stray \/ reader \in Live \ Open)
  /\ UNCHANGED <<base>>

\* Quit, which ends every thread, and a start with or without --port.
Starts ==
  /\ screen' = "home" /\ connecting' = TRUE /\ difficulty' = "hard" /\ scanned' = {}
  /\ \/ reader' = 0 /\ port' = [i \in Readers |-> "none"]
     \/ reader' = 1 /\ port' = [i \in Readers |-> IF i = 1 THEN "opening" ELSE "none"]
  /\ earned' = {} /\ agreed' = FALSE /\ stray' = FALSE
Restarts == screen # "opening" /\ Starts /\ UNCHANGED base

-----------------------------------------------------------------------------
(* The base and the node.                                                  *)

KnownModesMutant == {"easy", "medium"}
KnownModes == AllLevels

\* The base writes the difficulty to the node, or has nobody to write it to, or
\* loses it with the link.
CommandHandled ==
  /\ commands # <<>>
  /\ commands' = Tail(commands)
  /\ \/ /\ InSession /\ Head(commands) \in KnownModes
        /\ mode' = Head(commands) /\ UNCHANGED agreed
     \/ /\ Head(commands) \in AllLevels
        /\ agreed' = (agreed /\ Head(commands) # difficulty) /\ UNCHANGED mode
     \/ Head(commands) \notin KnownModes /\ UNCHANGED <<mode, agreed>>
  /\ UNCHANGED <<pages, gui, session, earned, stray>>

KnownColoursMutant == {"yellow", "green"}
KnownColours == Cards

\* The line of a scan is read by the reader of the GUI, unless there is another
\* thread with the port open that takes it, or a part of it.
CardScanned(card) ==
  /\ InSession
  /\ \/ /\ IsConnected
        /\ scanned' = scanned \cup ({card} \cap KnownColours)
        /\ earned' = earned \cup {card}
     \/ Open # {reader} /\ UNCHANGED <<scanned, earned>>
  /\ UNCHANGED <<pages, reader, port, base, agreed, stray>>

\* Sessions with the node are those of NodeSessions, which BaseCentral implements.
SessionChanges ==
  /\ Sessions!Next
  /\ UNCHANGED <<pages, gui, commands, mode, earned, agreed, stray>>

\* What is on its way goes with the supply of the base; the threads notice later.
CablePulled ==
  /\ commands' = <<>> /\ session' = [p \in {"rfid"} |-> "none"] /\ agreed' = FALSE
  /\ UNCHANGED <<pages, gui, mode, earned, stray>>

-----------------------------------------------------------------------------
\* Started with or without --port.
Init ==
  /\ screen = "home" /\ connecting = TRUE /\ difficulty = "hard"
  /\ \/ reader = 0 /\ port = [i \in Readers |-> "none"]
     \/ reader = 1 /\ port = [i \in Readers |-> IF i = 1 THEN "opening" ELSE "none"]
  /\ scanned = {}
  /\ commands = <<>> /\ Sessions!Init /\ mode \in Levels
  /\ earned = {} /\ agreed = FALSE /\ stray = FALSE

VisitorNext ==
  \/ ConnectClicked \/ SpaceAtHome \/ SpaceAtCollect
  \/ ImuCommand \/ ConnectAtSea \/ Home \/ Restarts
  \/ \E level \in Levels : DifficultyClicked(level)
  \/ \E card \in Cards : CardScanned(card)
GuiNext == ConnectReturns \/ HomeEnds \/ CardsComplete \/ SetsSail
ReaderNext == \E i \in Readers : PortOpens(i) \/ PortFails(i)

Next == VisitorNext \/ GuiNext \/ ReaderNext \/ CommandHandled \/ SessionChanges \/ CablePulled

Spec == Init /\ [][Next]_vars

\* The loop of a screen runs and so does the base; a card that lies on the
\* reader is scanned again and again.
FairSpec ==
  /\ Spec /\ WF_vars(GuiNext) /\ WF_vars(CommandHandled)
  /\ \A card \in Cards : WF_vars(CardScanned(card))

-----------------------------------------------------------------------------
WavesTypeOK ==
  /\ screen \in {"home", "opening", "collect", "countdown", "sail"}
  /\ connecting \in BOOLEAN /\ difficulty \in AllLevels
  /\ reader \in 0..MaxReaders /\ port \in [Readers -> {"none", "opening", "open"}]
  /\ scanned \in SUBSET Cards
  /\ commands \in Seq(AllLevels \cup {"zero"}) /\ Len(commands) <= QueueSize
  /\ session \in [{"rfid"} -> Sessions!States] /\ mode \in AllLevels
  /\ earned \in SUBSET Cards /\ agreed \in BOOLEAN /\ stray \in BOOLEAN

\* A voyage begins with the cards of this visit: not those the visitor before
\* has left in a reader.
VoyageIsEarned ==
  screen \in {"countdown", "sail"} => Required \subseteq earned

\* The difficulties among the lines the base holds.
ModesHeld == {k \in DOMAIN commands : commands[k] \in AllLevels}

\* The difficulty of the screen is the one the node ends up with when what the
\* base holds is written: no command of an earlier visit comes after it.
ScreenAgreesWithNode ==
  agreed => \/ ModesHeld = {} /\ mode = difficulty
            \/ \E k \in ModesHeld : /\ commands[k] = difficulty
                                     /\ \A j \in ModesHeld : j <= k

\* The port has one reader, that of the GUI, as long as nobody disconnects in
\* the voyage, connects twice, or goes home before the port is open.
OneReaderPerPort == ~stray => Live \subseteq {reader}

\* A difficulty the base has taken reaches the node, or the link, the cable or
\* the visitor has made an end of it.
DifficultyArrives == agreed ~> mode = difficulty \/ ~agreed

\* A visitor who holds every card to a reader that works gets to sea.
Settled == InSession /\ ~stray /\ IsConnected
VoyageBegins == screen = "collect" ~> screen # "collect" \/ ~Settled
=============================================================================
