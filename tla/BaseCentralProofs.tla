------------------------- MODULE BaseCentralProofs -------------------------
(***************************************************************************)
(* What holds of the base station's connection manager for every set of    *)
(* peripherals, every table size, every number of connection objects and   *)
(* any number of failing controller commands.                              *)
(*                                                                         *)
(* The argument: an entry of nodes[] is filled only by the receive thread  *)
(* and emptied only for a connection that has ended, so between choosing   *)
(* an entry and filling it nothing another thread does can take it away    *)
(* (RxConsistent); the other conjuncts of IInv then survive each action.   *)
(***************************************************************************)
EXTENDS BaseCentral, TLAPS

(* The actions that touch neither the table, nor the stack's objects, nor  *)
(* the receive thread.                                                     *)
Bystander ==
  \/ MainBoots \/ MainScanStarted \/ ScanRestartRuns \/ SysScanStarted
  \/ \E p \in Peers :
       PeerAdvertises(p) \/ PeerLeaves(p) \/ Hear(p) \/ DeviceFoundIgnored(p)

USE NodeAssumption, FlagAssumption, FaultAssumption, NullAssumption

(* The initial states satisfy the inductive invariant.                     *)
LEMMA InitIInv == Init => IInv
<1> SUFFICES ASSUME Init PROVE IInv
  OBVIOUS
<1>1. TypeOK
  <2>1. rx \in [pc : RxCounters, peer : Peers \cup {NoPeer}, slot : Slots \cup {0},
               conn : Conns \cup {NoConn}]
    BY DEF Init, RxIdle, RxCounters
  <2>2. linkSt \in [Conns -> LinkStates] /\ refs \in [Conns -> 0..2] /\ faults \in 0..MaxFaults
    BY DEF Init, LinkStates
  <2> QED
    BY <2>1, <2>2 DEF Init, TypeOK
<1>2. LinksAreTracked /\ RefsBalance /\ NamesMatchLinks /\ OneEntryPerPeer
  BY DEF Init, LinksAreTracked, RefsBalance, NamesMatchLinks, OneEntryPerPeer,
         InTable, StackRefs, AppRefs
<1>3. RxConsistent
  BY DEF Init, RxConsistent, RxIdle
<1> QED
  BY <1>1, <1>2, <1>3 DEF IInv

(* A failing controller command stays within the bound.                    *)
LEMMA FaultType ==
  ASSUME TypeOK, faults' = faults \/ Fault
  PROVE  faults' \in 0..MaxFaults
BY DEF TypeOK, Fault

(* start_scan changes the scanner only, and stays within the fault bound.  *)
LEMMA StartScanType ==
  ASSUME TypeOK, StartScan
  PROVE  scanning' \in BOOLEAN /\ seen' \subseteq Peers /\ faults' \in 0..MaxFaults
<1>1. scanning' \in BOOLEAN
  BY Zenon DEF TypeOK, StartScan
<1>2. seen' \subseteq Peers
  BY DEF TypeOK, StartScan
<1>3. faults' = faults \/ Fault
  BY DEF StartScan
<1> QED
  BY <1>1, <1>2, <1>3, FaultType

(* Bystanders keep the inductive invariant.                                *)
LEMMA BystanderKeepsIInv ==
  ASSUME IInv, Bystander
  PROVE  IInv'
<1>1. UNCHANGED <<table, links, rx>>
  BY DEF Bystander, MainBoots, MainScanStarted, ScanRestartRuns, SysScanStarted,
         PeerAdvertises, PeerLeaves, Hear, DeviceFoundIgnored, table, links, scanner
<1>2. TypeOK'
  <2> USE DEF IInv
  <2>1. CASE MainBoots
    <3>1. faults' \in 0..MaxFaults
      BY <2>1, FaultType DEF MainBoots
    <3> QED
      BY <2>1, <3>1 DEF TypeOK, MainBoots, table, links, scanner
  <2>2. CASE MainScanStarted
    BY <2>2, StartScanType DEF TypeOK, MainScanStarted, table, links
  <2>3. CASE ScanRestartRuns
    BY <2>3 DEF TypeOK, ScanRestartRuns, table, links, scanner
  <2>4. CASE SysScanStarted
    BY <2>4, StartScanType DEF TypeOK, SysScanStarted, table, links
  <2>5. ASSUME NEW p \in Peers,
               PeerAdvertises(p) \/ PeerLeaves(p) \/ Hear(p) \/ DeviceFoundIgnored(p)
        PROVE  TypeOK'
    BY <2>5 DEF TypeOK, PeerAdvertises, PeerLeaves, Hear, DeviceFoundIgnored,
                table, links, scanner
  <2> QED
    BY <2>1, <2>2, <2>3, <2>4, <2>5 DEF Bystander
<1>3. LinksAreTracked' /\ RefsBalance' /\ NamesMatchLinks' /\ OneEntryPerPeer'
  BY <1>1 DEF IInv, LinksAreTracked, RefsBalance, NamesMatchLinks, OneEntryPerPeer,
              InTable, StackRefs, AppRefs, table, links
<1>4. RxConsistent'
  BY <1>1 DEF IInv, RxConsistent, FreeSlots, Tracked, table, links
<1> QED
  BY <1>2, <1>3, <1>4 DEF IInv
-----------------------------------------------------------------------------
(* get_node finds the one entry of a connection, so memset empties exactly *)
(* the entries that hold it and one reference goes if there is one.        *)
LEMMA ClearNodeEmpties ==
  ASSUME IInv, NEW c \in Conns
  PROVE  /\ Unref(c) = IF InTable(c) THEN 1 ELSE 0
         /\ ClearNode(c) =>
              /\ nodeConn' = [i \in Slots |-> IF nodeConn[i] = c THEN NoConn ELSE nodeConn[i]]
              /\ nodeName' = [i \in Slots |-> IF nodeConn[i] = c THEN NoName ELSE nodeName[i]]
<1>1. Unref(c) = IF InTable(c) THEN 1 ELSE 0
  BY DEF Unref, NodesOf, InTable
<1>2. \A i \in Slots : IsNodeOf(i, c) <=> nodeConn[i] = c
  BY DEF IInv, LinksAreTracked, IsNodeOf, NodesOf, Slots
<1> QED
  BY <1>1, <1>2 DEF ClearNode

(* device_found chooses a free entry and an untracked peripheral.          *)
LEMMA ChoiceKeepsIInv ==
  ASSUME IInv, NEW p \in Peers, DeviceFoundChosen(p)
  PROVE  IInv'
<1>1. PICK i \in Slots : /\ FirstFree(i)
                         /\ rx' = [pc |-> "stopping", peer |-> p, slot |-> i, conn |-> NoConn]
  BY DEF DeviceFoundChosen
<1>2. TypeOK'
  BY <1>1 DEF IInv, TypeOK, RxCounters, DeviceFoundChosen, table, links
<1>3. LinksAreTracked' /\ RefsBalance' /\ NamesMatchLinks' /\ OneEntryPerPeer'
  BY DEF DeviceFoundChosen, IInv, LinksAreTracked, RefsBalance, NamesMatchLinks,
         OneEntryPerPeer, InTable, StackRefs, AppRefs, table, links
<1>4. RxConsistent'
  BY <1>1 DEF IInv, RxConsistent, DeviceFoundChosen, FirstFree, FreeSlots, Tracked,
              table, links
<1> QED
  BY <1>2, <1>3, <1>4 DEF IInv

(* When the scanner has stopped, either nothing changes but rx, or a fresh *)
(* object is created for a peripheral no entry leads to.                   *)
LEMMA ScanStoppedKeepsIInv ==
  ASSUME IInv, ScanStopped
  PROVE  IInv'
<1>1. CASE UNCHANGED links /\ rx' \in {RxIdle, [RxIdle EXCEPT !.pc = "starting"]}
  <2>1. TypeOK'
    <3>1. faults' \in 0..MaxFaults
      BY FaultType DEF ScanStopped, IInv
    <3>2. scanning' \in BOOLEAN
      BY Zenon DEF ScanStopped, IInv, TypeOK
    <3>3. rx' \in [pc : RxCounters, peer : Peers \cup {NoPeer}, slot : Slots \cup {0},
                   conn : Conns \cup {NoConn}]
      BY <1>1 DEF RxIdle, RxCounters
    <3> QED
      BY <1>1, <3>1, <3>2, <3>3 DEF ScanStopped, IInv, TypeOK, table, links
  <2>2. UNCHANGED <<table, links>> /\ rx.pc = "stopping"
    BY <1>1 DEF ScanStopped
  <2>3. LinksAreTracked' /\ RefsBalance' /\ NamesMatchLinks' /\ OneEntryPerPeer'
    BY <2>2 DEF IInv, LinksAreTracked, RefsBalance, NamesMatchLinks, OneEntryPerPeer,
                InTable, StackRefs, AppRefs, table, links
  <2>4. RxConsistent'
    BY <1>1, <2>2 DEF IInv, RxConsistent, RxIdle, table, links
  <2> QED
    BY <2>1, <2>3, <2>4 DEF IInv
<1>2. ASSUME NEW c \in Conns,
             refs[c] = 0,
             scanning' = FALSE, UNCHANGED faults,
             linkSt' = [linkSt EXCEPT ![c] = "creating"],
             linkPeer' = [linkPeer EXCEPT ![c] = rx.peer],
             refs' = [refs EXCEPT ![c] = 2],
             rx' = [rx EXCEPT !.pc = "creating", !.conn = c]
      PROVE  IInv'
  <2>1. rx.pc = "stopping" /\ rx.slot \in FreeSlots /\ rx.peer \in Peers /\ ~Tracked(rx.peer)
    BY DEF ScanStopped, IInv, RxConsistent
  <2>2. linkSt[c] = "unused" /\ ~InTable(c)
    BY <1>2 DEF IInv, TypeOK, RefsBalance, StackRefs, AppRefs, LinksAreTracked, LinkStates
  <2>3. UNCHANGED table
    BY DEF ScanStopped
  <2>4. TypeOK'
    <3>1. UNCHANGED <<seen, reports, adv, sys, main, work>>
      BY DEF ScanStopped
    <3>2. linkSt' \in [Conns -> LinkStates] /\ refs' \in [Conns -> 0..2]
      BY <1>2 DEF IInv, TypeOK, LinkStates
    <3>3. rx' \in [pc : RxCounters, peer : Peers \cup {NoPeer}, slot : Slots \cup {0},
                   conn : Conns \cup {NoConn}]
      BY <1>2 DEF IInv, TypeOK, RxCounters
    <3> QED
      BY <1>2, <2>1, <2>3, <3>1, <3>2, <3>3 DEF IInv, TypeOK, table
  <2>5. LinksAreTracked'
    BY <1>2, <2>2, <2>3 DEF IInv, TypeOK, LinksAreTracked, InTable, table
  <2>6. RefsBalance'
    BY <1>2, <2>2, <2>3 DEF IInv, TypeOK, RefsBalance, StackRefs, AppRefs, InTable, table
  <2>7. NamesMatchLinks' /\ OneEntryPerPeer'
    BY <1>2, <2>2, <2>3 DEF IInv, TypeOK, NamesMatchLinks, OneEntryPerPeer, InTable, table
  <2>8. RxConsistent'
    BY <1>2, <2>1, <2>2, <2>3 DEF IInv, TypeOK, RxConsistent, FreeSlots, Tracked, InTable, table
  <2> QED
    BY <2>4, <2>5, <2>6, <2>7, <2>8 DEF IInv
<1> QED
  BY <1>1, <1>2 DEF ScanStopped
(* A refused attempt gives its object back; the entry was free all along.  *)
LEMMA CreateFailsKeepsIInv ==
  ASSUME IInv, CreateFails
  PROVE  IInv'
<1> DEFINE c == rx.conn
<1>1. /\ rx.pc = "creating" /\ c \in Conns /\ linkSt[c] = "creating" /\ ~InTable(c)
      /\ rx.slot \in Slots /\ nodeConn[rx.slot] = NoConn
  BY DEF CreateFails, IInv, RxConsistent, LinksAreTracked, FreeSlots
<1>2. /\ linkSt' = [linkSt EXCEPT ![c] = "unused"]
      /\ linkPeer' = [linkPeer EXCEPT ![c] = NoPeer]
      /\ refs' = [refs EXCEPT ![c] = 0]
      /\ rx' = [RxIdle EXCEPT !.pc = "starting"]
      /\ UNCHANGED <<nodeName, scanning, seen, reports, adv, sys, main, work>>
  BY DEF CreateFails, scanner
<1>3. nodeConn' = nodeConn
  BY <1>1 DEF CreateFails, IInv, TypeOK
<1> HIDE DEF c
<1>4. TypeOK'
  <2>1. faults' \in 0..MaxFaults
    BY FaultType DEF CreateFails, IInv
  <2>2. linkSt' \in [Conns -> LinkStates] /\ refs' \in [Conns -> 0..2]
    BY <1>1, <1>2 DEF IInv, TypeOK, LinkStates
  <2>3. rx' \in [pc : RxCounters, peer : Peers \cup {NoPeer}, slot : Slots \cup {0},
                 conn : Conns \cup {NoConn}]
    BY <1>2 DEF RxIdle, RxCounters
  <2> QED
    BY <1>2, <1>3, <2>1, <2>2, <2>3 DEF IInv, TypeOK
<1>5. LinksAreTracked' /\ NamesMatchLinks' /\ OneEntryPerPeer'
  BY <1>1, <1>2, <1>3 DEF IInv, TypeOK, LinksAreTracked, NamesMatchLinks, OneEntryPerPeer, InTable
<1>6. RefsBalance'
  BY <1>1, <1>2, <1>3 DEF IInv, TypeOK, RefsBalance, StackRefs, AppRefs, InTable
<1>7. RxConsistent'
  BY <1>1, <1>2, <1>3 DEF c, IInv, TypeOK, RxConsistent, RxIdle
<1> QED
  BY <1>4, <1>5, <1>6, <1>7 DEF IInv

(* An accepted attempt fills the free entry with a connection and a name.  *)
LEMMA CreateSucceedsKeepsIInv ==
  ASSUME IInv, CreateSucceeds
  PROVE  IInv'
<1> DEFINE c == rx.conn
           i == rx.slot
<1>1. /\ rx.pc = "creating" /\ c \in Conns /\ linkSt[c] = "creating" /\ ~InTable(c)
      /\ i \in Slots /\ nodeConn[i] = NoConn
      /\ linkPeer[c] = rx.peer /\ rx.peer \in Peers /\ ~Tracked(rx.peer)
  BY DEF CreateSucceeds, IInv, RxConsistent, LinksAreTracked, FreeSlots
<1>2. /\ linkSt' = [linkSt EXCEPT ![c] = "initiating"]
      /\ nodeConn' = [nodeConn EXCEPT ![i] = c]
      /\ nodeName' = [nodeName EXCEPT ![i] = NodeName[rx.peer]]
      /\ rx' = RxIdle
      /\ UNCHANGED <<linkPeer, refs, scanning, seen, reports, adv, sys, main, work, faults>>
  BY DEF CreateSucceeds, TakeNode, scanner
<1>3. \A d \in Conns : linkSt[d] = "creating" => d = c
  BY <1>1 DEF IInv, RxConsistent
<1> HIDE DEF c, i
<1>4. TypeOK'
  <2>1. linkSt' \in [Conns -> LinkStates] /\ nodeConn' \in [Slots -> Conns \cup {NoConn}]
    BY <1>1, <1>2 DEF IInv, TypeOK, LinkStates
  <2>2. nodeName' \in [Slots -> Names \cup {NoName}]
    BY <1>1, <1>2 DEF IInv, TypeOK, Names
  <2>3. rx' \in [pc : RxCounters, peer : Peers \cup {NoPeer}, slot : Slots \cup {0},
                 conn : Conns \cup {NoConn}]
    BY <1>2 DEF RxIdle, RxCounters
  <2> QED
    BY <1>2, <2>1, <2>2, <2>3 DEF IInv, TypeOK
<1>5. \A d \in Conns : InTable(d)' <=> InTable(d) \/ d = c
  BY <1>1, <1>2 DEF IInv, TypeOK, InTable
<1>6. LinksAreTracked'
  <2>1. \A d \in Conns : InTable(d)' <=> linkSt'[d] \in {"initiating", "up", "lost"}
    BY <1>1, <1>2, <1>5 DEF IInv, TypeOK, LinksAreTracked
  <2>2. \A j, k \in Slots : nodeConn'[j] = nodeConn'[k] /\ nodeConn'[j] # NoConn => j = k
    BY <1>1, <1>2 DEF IInv, TypeOK, LinksAreTracked, InTable
  <2> QED
    BY <2>1, <2>2 DEF LinksAreTracked, InTable
<1>7. RefsBalance'
  <2>1. \A d \in Conns : StackRefs(d)' = StackRefs(d) /\ AppRefs(d)' = AppRefs(d)
    BY <1>1, <1>2, <1>3, <1>5 DEF IInv, TypeOK, StackRefs, AppRefs
  <2> QED
    BY <1>2, <2>1 DEF IInv, RefsBalance
<1>8. NamesMatchLinks'
  BY <1>1, <1>2 DEF IInv, TypeOK, NamesMatchLinks
<1>9. OneEntryPerPeer'
  BY <1>1, <1>2 DEF IInv, TypeOK, OneEntryPerPeer, Tracked
<1>10. RxConsistent'
  BY <1>1, <1>2, <1>3 DEF IInv, TypeOK, RxConsistent, RxIdle
<1> QED
  BY <1>4, <1>6, <1>7, <1>8, <1>9, <1>10 DEF IInv

(* Restarting the scanner in rx returns the object of a failed attempt.    *)
LEMMA RxScanStartedKeepsIInv ==
  ASSUME IInv, RxScanStarted
  PROVE  IInv'
<1>1. /\ rx.pc = "starting" /\ rx' = RxIdle
      /\ UNCHANGED <<nodeConn, nodeName, reports, adv, sys, main, work>>
  BY DEF RxScanStarted, table
<1>2. scanning' \in BOOLEAN /\ seen' \subseteq Peers /\ faults' \in 0..MaxFaults
  BY StartScanType DEF RxScanStarted, IInv
<1>3. rx' \in [pc : RxCounters, peer : Peers \cup {NoPeer}, slot : Slots \cup {0},
               conn : Conns \cup {NoConn}]
  BY <1>1 DEF RxIdle, RxCounters
<1>4. CASE UNCHANGED links /\ rx.conn = NoConn
  <2>1. TypeOK'
    BY <1>1, <1>2, <1>3, <1>4 DEF IInv, TypeOK, links
  <2>2. LinksAreTracked' /\ RefsBalance' /\ NamesMatchLinks' /\ OneEntryPerPeer'
    BY <1>1, <1>4 DEF IInv, LinksAreTracked, RefsBalance, NamesMatchLinks, OneEntryPerPeer,
                      InTable, StackRefs, AppRefs, links
  <2>3. RxConsistent'
    BY <1>1, <1>4 DEF IInv, RxConsistent, RxIdle, links
  <2> QED
    BY <2>1, <2>2, <2>3 DEF IInv
<1>5. ASSUME NEW c \in Conns, rx.conn = c,
             linkSt' = [linkSt EXCEPT ![c] = "unused"],
             linkPeer' = [linkPeer EXCEPT ![c] = NoPeer],
             refs' = [refs EXCEPT ![c] = @ - 1]
      PROVE  IInv'
  <2>1. linkSt[c] = "failed" /\ ~InTable(c) /\ refs[c] = 1
    BY <1>1, <1>5 DEF IInv, RxConsistent, LinksAreTracked, RefsBalance, StackRefs, AppRefs
  <2>2. refs' = [refs EXCEPT ![c] = 0]
    BY <1>5, <2>1 DEF IInv, TypeOK
  <2>3. TypeOK'
    <3>1. linkSt' \in [Conns -> LinkStates] /\ refs' \in [Conns -> 0..2]
      BY <1>5, <2>2 DEF IInv, TypeOK, LinkStates
    <3> QED
      BY <1>1, <1>2, <1>3, <1>5, <3>1 DEF IInv, TypeOK
  <2>4. LinksAreTracked' /\ NamesMatchLinks' /\ OneEntryPerPeer'
    BY <1>1, <1>5, <2>1 DEF IInv, TypeOK, LinksAreTracked, NamesMatchLinks, OneEntryPerPeer, InTable
  <2>5. RefsBalance'
    BY <1>1, <1>5, <2>1, <2>2 DEF IInv, TypeOK, RefsBalance, StackRefs, AppRefs, InTable
  <2>6. RxConsistent'
    BY <1>1, <1>5, <2>1 DEF IInv, TypeOK, RxConsistent, RxIdle
  <2> QED
    BY <2>3, <2>4, <2>5, <2>6 DEF IInv
<1> QED
  BY <1>4, <1>5 DEF RxScanStarted, IInv, TypeOK
(* connected with an error clears the entry of the connection.             *)
LEMMA ConnectFailedKeepsIInv ==
  ASSUME IInv, NEW c \in Conns, ConnectFailed(c)
  PROVE  IInv'
<1>1. rx.pc = "idle" /\ linkSt[c] = "initiating" /\ InTable(c) /\ refs[c] = 2
  BY DEF ConnectFailed, IInv, LinksAreTracked, RefsBalance, StackRefs, AppRefs
<1>2. /\ linkSt' = [linkSt EXCEPT ![c] = "failed"]
      /\ nodeConn' = [i \in Slots |-> IF nodeConn[i] = c THEN NoConn ELSE nodeConn[i]]
      /\ nodeName' = [i \in Slots |-> IF nodeConn[i] = c THEN NoName ELSE nodeName[i]]
      /\ rx' = [RxIdle EXCEPT !.pc = "starting", !.conn = c]
      /\ UNCHANGED <<linkPeer, scanning, seen, reports, adv, sys, main, work, faults>>
  BY ClearNodeEmpties DEF ConnectFailed, scanner
<1>3. refs' = [refs EXCEPT ![c] = 1]
  <2>1. Unref(c) = 1
    BY <1>1, ClearNodeEmpties
  <2>2. refs' = [refs EXCEPT ![c] = 2 - 1]
    BY <1>1, <2>1 DEF ConnectFailed
  <2> QED
    BY <2>2
<1>4. TypeOK'
  <2>1. linkSt' \in [Conns -> LinkStates] /\ refs' \in [Conns -> 0..2]
    BY <1>2, <1>3 DEF IInv, TypeOK, LinkStates
  <2>2. rx' \in [pc : RxCounters, peer : Peers \cup {NoPeer}, slot : Slots \cup {0},
                 conn : Conns \cup {NoConn}]
    BY <1>2 DEF RxIdle, RxCounters
  <2> QED
    BY <1>2, <2>1, <2>2 DEF IInv, TypeOK
<1>5. \A d \in Conns : InTable(d)' <=> InTable(d) /\ d # c
  BY <1>2 DEF IInv, TypeOK, InTable
<1>6. LinksAreTracked'
  BY <1>2, <1>5 DEF IInv, TypeOK, LinksAreTracked, InTable
<1>7. RefsBalance'
  BY <1>1, <1>2, <1>3, <1>5 DEF IInv, TypeOK, RefsBalance, StackRefs, AppRefs
<1>8. NamesMatchLinks' /\ OneEntryPerPeer'
  BY <1>2 DEF IInv, NamesMatchLinks, OneEntryPerPeer
<1>9. RxConsistent'
  BY <1>1, <1>2 DEF IInv, TypeOK, RxConsistent, RxIdle
<1> QED
  BY <1>4, <1>6, <1>7, <1>8, <1>9 DEF IInv

(* connected without an error always finds the entry of the connection.    *)
LEMMA ConnectedKeepsIInv ==
  ASSUME IInv, NEW c \in Conns, Connected(c)
  PROVE  IInv'
<1>1. rx.pc = "idle" /\ linkSt[c] = "initiating" /\ InTable(c)
  BY DEF Connected, IInv, LinksAreTracked
<1>2. /\ linkSt' = [linkSt EXCEPT ![c] = "up"]
      /\ rx' = [RxIdle EXCEPT !.pc = "updating", !.conn = c]
      /\ adv' = adv \ {linkPeer[c]}
      /\ UNCHANGED <<nodeConn, nodeName, linkPeer, refs, scanning, seen, reports,
                     sys, main, work, faults>>
  BY <1>1 DEF Connected, InTable, NodesOf, table, scanner
<1>3. TypeOK'
  <2>1. linkSt' \in [Conns -> LinkStates]
    BY <1>2 DEF IInv, TypeOK, LinkStates
  <2>2. rx' \in [pc : RxCounters, peer : Peers \cup {NoPeer}, slot : Slots \cup {0},
                 conn : Conns \cup {NoConn}]
    BY <1>2 DEF RxIdle, RxCounters
  <2> QED
    BY <1>2, <2>1, <2>2 DEF IInv, TypeOK
<1>4. LinksAreTracked' /\ NamesMatchLinks' /\ OneEntryPerPeer'
  BY <1>1, <1>2 DEF IInv, TypeOK, LinksAreTracked, NamesMatchLinks, OneEntryPerPeer, InTable
<1>5. RefsBalance'
  BY <1>1, <1>2 DEF IInv, TypeOK, RefsBalance, StackRefs, AppRefs, InTable
<1>6. RxConsistent'
  BY <1>1, <1>2 DEF IInv, TypeOK, RxConsistent, RxIdle
<1> QED
  BY <1>3, <1>4, <1>5, <1>6 DEF IInv

(* The end of connected touches neither the table nor the links.           *)
LEMMA ConnectedReturnsKeepsIInv ==
  ASSUME IInv, ConnectedReturns
  PROVE  IInv'
<1>1. /\ rx.pc = "updating" /\ rx' = RxIdle /\ UNCHANGED <<table, links>>
      /\ UNCHANGED <<scanning, seen, reports, adv, sys, main, faults>>
  BY DEF ConnectedReturns, scanner
<1>2. TypeOK'
  <2>1. work' \in BOOLEAN
    BY Zenon DEF ConnectedReturns, ScheduleRescan
  <2>2. rx' \in [pc : RxCounters, peer : Peers \cup {NoPeer}, slot : Slots \cup {0},
                 conn : Conns \cup {NoConn}]
    BY <1>1 DEF RxIdle, RxCounters
  <2> QED
    BY <1>1, <2>1, <2>2 DEF IInv, TypeOK, table, links
<1>3. LinksAreTracked' /\ RefsBalance' /\ NamesMatchLinks' /\ OneEntryPerPeer'
  BY <1>1 DEF IInv, LinksAreTracked, RefsBalance, NamesMatchLinks, OneEntryPerPeer,
              InTable, StackRefs, AppRefs, table, links
<1>4. RxConsistent'
  BY <1>1 DEF IInv, RxConsistent, RxIdle, table, links
<1> QED
  BY <1>2, <1>3, <1>4 DEF IInv

(* disconnected empties the entry and gives both references back.  It may  *)
(* run while rx waits with a free entry in hand: that entry stays free.    *)
LEMMA DisconnectedKeepsIInv ==
  ASSUME IInv, NEW c \in Conns, Disconnected(c)
  PROVE  IInv'
<1>1. linkSt[c] = "lost" /\ InTable(c) /\ refs[c] = 2
  BY DEF Disconnected, IInv, LinksAreTracked, RefsBalance, StackRefs, AppRefs
<1>2. /\ linkSt' = [linkSt EXCEPT ![c] = "unused"]
      /\ linkPeer' = [linkPeer EXCEPT ![c] = NoPeer]
      /\ nodeConn' = [i \in Slots |-> IF nodeConn[i] = c THEN NoConn ELSE nodeConn[i]]
      /\ nodeName' = [i \in Slots |-> IF nodeConn[i] = c THEN NoName ELSE nodeName[i]]
      /\ UNCHANGED <<scanning, seen, reports, adv, rx, sys, main, faults>>
  BY ClearNodeEmpties DEF Disconnected, scanner
<1>3. refs' = [refs EXCEPT ![c] = 0]
  <2>1. Unref(c) = 1
    BY <1>1, ClearNodeEmpties
  <2>2. refs' = [refs EXCEPT ![c] = 2 - 1 - 1]
    BY <1>1, <2>1 DEF Disconnected
  <2> QED
    BY <2>2
<1>4. TypeOK'
  <2>1. linkSt' \in [Conns -> LinkStates] /\ refs' \in [Conns -> 0..2]
    BY <1>2, <1>3 DEF IInv, TypeOK, LinkStates
  <2>2. work' \in BOOLEAN
    BY Zenon DEF Disconnected, ScheduleRescan
  <2> QED
    BY <1>2, <2>1, <2>2 DEF IInv, TypeOK
<1>5. \A d \in Conns : InTable(d)' <=> InTable(d) /\ d # c
  BY <1>2 DEF IInv, TypeOK, InTable
<1>6. LinksAreTracked'
  BY <1>2, <1>5 DEF IInv, TypeOK, LinksAreTracked, InTable
<1>7. RefsBalance'
  BY <1>1, <1>2, <1>3, <1>5 DEF IInv, TypeOK, RefsBalance, StackRefs, AppRefs
<1>8. NamesMatchLinks' /\ OneEntryPerPeer'
  BY <1>2 DEF IInv, TypeOK, NamesMatchLinks, OneEntryPerPeer
<1>9. RxConsistent'
  <2>1. Tracked(rx.peer)' => Tracked(rx.peer)
    BY <1>2 DEF IInv, TypeOK, Tracked
  <2>2. rx.slot \in FreeSlots => rx'.slot \in FreeSlots'
    BY <1>2 DEF IInv, TypeOK, FreeSlots
  <2> QED
    BY <1>1, <1>2, <2>1, <2>2 DEF IInv, TypeOK, RxConsistent, Tracked
<1> QED
  BY <1>4, <1>6, <1>7, <1>8, <1>9 DEF IInv

(* A lost link keeps its entry and its references until disconnected.      *)
LEMMA LinkLostKeepsIInv ==
  ASSUME IInv, NEW c \in Conns, LinkLost(c)
  PROVE  IInv'
<1>1. /\ rx.pc = "idle" /\ linkSt[c] = "up"
      /\ linkSt' = [linkSt EXCEPT ![c] = "lost"]
      /\ UNCHANGED <<nodeConn, nodeName, linkPeer, refs, scanning, seen, reports, adv,
                     rx, sys, main, work, faults>>
  BY DEF LinkLost, table, scanner
<1>2. TypeOK'
  <2>1. linkSt' \in [Conns -> LinkStates]
    BY <1>1 DEF IInv, TypeOK, LinkStates
  <2> QED
    BY <1>1, <2>1 DEF IInv, TypeOK
<1>3. LinksAreTracked' /\ NamesMatchLinks' /\ OneEntryPerPeer'
  BY <1>1 DEF IInv, TypeOK, LinksAreTracked, NamesMatchLinks, OneEntryPerPeer, InTable
<1>4. RefsBalance'
  BY <1>1 DEF IInv, TypeOK, RefsBalance, StackRefs, AppRefs, InTable
<1>5. RxConsistent'
  BY <1>1 DEF IInv, TypeOK, RxConsistent, FreeSlots, Tracked
<1> QED
  BY <1>2, <1>3, <1>4, <1>5 DEF IInv

-----------------------------------------------------------------------------
(* Every step, of every thread and of the radio, keeps the invariant.      *)
LEMMA NextIInv == IInv /\ [Next]_vars => IInv'
<1> SUFFICES ASSUME IInv, [Next]_vars PROVE IInv'
  OBVIOUS
<1>1. CASE Bystander
  BY <1>1, BystanderKeepsIInv
<1>2. CASE ScanStopped
  BY <1>2, ScanStoppedKeepsIInv
<1>3. CASE CreateFails
  BY <1>3, CreateFailsKeepsIInv
<1>4. CASE CreateSucceeds
  BY <1>4, CreateSucceedsKeepsIInv
<1>5. CASE RxScanStarted
  BY <1>5, RxScanStartedKeepsIInv
<1>6. CASE ConnectedReturns
  BY <1>6, ConnectedReturnsKeepsIInv
<1>7. ASSUME NEW p \in Peers, DeviceFoundChosen(p) PROVE IInv'
  BY <1>7, ChoiceKeepsIInv
<1>8. ASSUME NEW c \in Conns, ConnectFailed(c) \/ Connected(c) \/ LinkLost(c) \/ Disconnected(c)
      PROVE  IInv'
  BY <1>8, ConnectFailedKeepsIInv, ConnectedKeepsIInv, LinkLostKeepsIInv, DisconnectedKeepsIInv
<1>9. CASE UNCHANGED vars
  BY <1>9 DEF vars, table, links, scanner, IInv, TypeOK, LinksAreTracked, RefsBalance,
              NamesMatchLinks, OneEntryPerPeer, RxConsistent, FreeSlots, Tracked, InTable,
              StackRefs, AppRefs
<1> QED
  BY <1>1, <1>2, <1>3, <1>4, <1>5, <1>6, <1>7, <1>8, <1>9
     DEF Next, MainNext, RxNext, SysNext, RadioNext, Bystander

(* The inductive invariant holds of every reachable state.                 *)
THEOREM BaseInductive == Spec => []IInv
BY InitIInv, NextIInv, PTL DEF Spec

(* Type correctness of nodes[], the stack's objects and the threads.       *)
THEOREM BaseTypeCorrect == Spec => []TypeOK
BY BaseInductive, PTL DEF IInv

(* connected always finds its node: a connection of the stack is held by   *)
(* exactly one entry of nodes[], and an entry holds no dead object.        *)
THEOREM BaseLinksAreTracked == Spec => []LinksAreTracked
BY BaseInductive, PTL DEF IInv

(* Every reference taken is given back exactly once, whatever fails.       *)
THEOREM BaseRefsBalance == Spec => []RefsBalance
BY BaseInductive, PTL DEF IInv

(* A command addressed to a name reaches a peripheral of that name.        *)
THEOREM BaseNamesMatchLinks == Spec => []NamesMatchLinks
BY BaseInductive, PTL DEF IInv

(* No peripheral occupies two entries.                                     *)
THEOREM BaseOneEntryPerPeer == Spec => []OneEntryPerPeer
BY BaseInductive, PTL DEF IInv

(* What device_found checked before it waited is still true afterwards.    *)
THEOREM BaseChoiceStaysValid == Spec => []ChoiceStaysValid
<1>1. IInv => ChoiceStaysValid
  BY DEF IInv, TypeOK, RxConsistent, LinksAreTracked, InTable, ChoiceStaysValid, FreeSlots,
         Tracked, Alive
<1> QED
  BY <1>1, BaseInductive, PTL

(* An entry in use is emptied only for a connection that has ended, and    *)
(* never passes from one connection to another.                            *)
THEOREM BaseEntriesAreNotStolen == Spec => EntriesAreNotStolen
<1> DEFINE Kept == \A i \in Slots :
      nodeConn[i] # NoConn /\ nodeConn'[i] # nodeConn[i] =>
        nodeConn'[i] = NoConn /\ linkSt'[nodeConn[i]] \in {"unused", "failed"}
<1>1. IInv /\ [Next]_vars => [Kept]_vars
  <2> SUFFICES ASSUME IInv, Next PROVE Kept
    OBVIOUS
  <2>1. CASE UNCHANGED nodeConn
    BY <2>1
  <2>2. CASE CreateSucceeds
    BY <2>2 DEF CreateSucceeds, TakeNode, IInv, TypeOK, RxConsistent, FreeSlots
  <2>3. CASE CreateFails
    BY <2>3 DEF CreateFails, IInv, TypeOK, RxConsistent, FreeSlots
  <2>4. ASSUME NEW c \in Conns, ConnectFailed(c) \/ Disconnected(c) PROVE Kept
    <3>1. nodeConn' = [i \in Slots |-> IF nodeConn[i] = c THEN NoConn ELSE nodeConn[i]]
      BY <2>4, ClearNodeEmpties DEF ConnectFailed, Disconnected
    <3>2. linkSt'[c] \in {"unused", "failed"}
      BY <2>4 DEF ConnectFailed, Disconnected, IInv, TypeOK
    <3> QED
      BY <3>1, <3>2
  <2> QED
    BY <2>1, <2>2, <2>3, <2>4
       DEF Next, MainNext, RxNext, SysNext, RadioNext, MainBoots, MainScanStarted, ScanStopped,
           RxScanStarted, ConnectedReturns, DeviceFoundIgnored, DeviceFoundChosen, Connected,
           LinkLost, ScanRestartRuns, SysScanStarted, PeerAdvertises, PeerLeaves, Hear, table
<1> QED
  BY <1>1, BaseInductive, PTL DEF Spec, EntriesAreNotStolen
=============================================================================
