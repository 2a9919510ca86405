---------------------------- MODULE BaseCentral ----------------------------
(***************************************************************************)
(* The connection manager of the base station (00base/src/main.c): the     *)
(* node table nodes[MAX_NODES], the scanner, the connection attempts and   *)
(* the delayable work item that restarts the scanner.                      *)
(*                                                                         *)
(* Three threads of the build run this code:                               *)
(*   rx    the Bluetooth receive work queue: device_found, connected;      *)
(*   sys   the system work queue: scan_restart_work_fn, disconnected;      *)
(*   main  the main thread, until main() returns.                          *)
(* rx and sys are cooperative: one of them runs until it waits for the     *)
(* controller, which happens inside bt_le_scan_start, bt_le_scan_stop,     *)
(* bt_conn_le_create and bt_conn_le_data_len_update.  A handler is         *)
(* therefore split exactly at these calls, and an action is what runs      *)
(* between two of them.                                                    *)
(*                                                                         *)
(* The Bluetooth stack and the peripherals are external: connection        *)
(* objects with their reference counts, the duplicate filter of the        *)
(* controller, and peripherals that come, go and lose links at will.       *)
(***************************************************************************)
EXTENDS Integers, FiniteSets

CONSTANTS
  Peers,            \* peripherals whose advertised name is a target name
  NodeName,         \* the name each peripheral advertises
  MaxNodes,         \* MAX_NODES, the size of nodes[]
  Conns,            \* connection objects of the stack (CONFIG_BT_MAX_CONN)
  ParallelScanInit, \* may the controller scan while it initiates?
  StaleLinks,       \* may a peripheral advertise before its loss is noticed?
  MaxFaults,        \* bound on failing controller commands
  NoPeer, NoConn, NoName

ASSUME NodeAssumption == MaxNodes \in Nat \ {0}
ASSUME FlagAssumption == ParallelScanInit \in BOOLEAN /\ StaleLinks \in BOOLEAN
ASSUME FaultAssumption == MaxFaults \in Nat
ASSUME NullAssumption ==
  /\ NoPeer \notin Peers
  /\ NoConn \notin Conns
  /\ \A p \in Peers : NodeName[p] # NoName

Slots == 1..MaxNodes
Names == {NodeName[p] : p \in Peers}
LinkStates == {"unused", "creating", "initiating", "up", "lost", "failed"}
RxCounters == {"idle", "stopping", "creating", "starting", "updating"}

VARIABLES
  nodeConn, nodeName,        \* nodes[i].conn and nodes[i].name
  linkSt, linkPeer, refs,    \* the stack's connection objects
  scanning, seen, reports,   \* scanner, its duplicate filter, reports queued for rx
  adv,                       \* peripherals that advertise now
  rx, sys, main,             \* where each thread is
  work,                      \* is scan_restart_work pending?
  faults                     \* failed controller commands so far

table    == <<nodeConn, nodeName>>
links    == <<linkSt, linkPeer, refs>>
scanner  == <<scanning, seen, reports>>
vars     == <<table, links, scanner, adv, rx, sys, main, work, faults>>

RxIdle == [pc |-> "idle", peer |-> NoPeer, slot |-> 0, conn |-> NoConn]

-----------------------------------------------------------------------------
(* Operators on the node table and on the stack.                           *)

FreeSlots == {i \in Slots : nodeConn[i] = NoConn}

\* get_free_node takes the first free entry of nodes[].
FirstFreeMutant(i) == i = 1          \* the NULL test forgotten
FirstFree(i) == i \in FreeSlots /\ \A j \in FreeSlots : i <= j

\* get_node: the first entry whose conn is c, if there is one.
NodesOf(c) == {i \in Slots : nodeConn[i] = c}
IsNodeOf(i, c) == i \in NodesOf(c) /\ \A j \in NodesOf(c) : i <= j

\* bt_conn_unref(node->conn) where a node was found: references given back.
UnrefMutantNone(c) == 0
UnrefMutantTwice(c) == 2
Unref(c) == IF NodesOf(c) = {} THEN 0 ELSE 1

\* memset of the entry of connection c.
ClearNodeMutant(c) == UNCHANGED table
ClearNode(c) ==
  /\ nodeConn' = [i \in Slots |-> IF IsNodeOf(i, c) THEN NoConn ELSE nodeConn[i]]
  /\ nodeName' = [i \in Slots |-> IF IsNodeOf(i, c) THEN NoName ELSE nodeName[i]]

\* bt_conn_le_create writes &node->conn and strncpy node->name.
TakeNodeMutant(i, c, p) == nodeConn' = [nodeConn EXCEPT ![i] = c] /\ UNCHANGED nodeName
TakeNode(i, c, p) ==
  /\ nodeConn' = [nodeConn EXCEPT ![i] = c]
  /\ nodeName' = [nodeName EXCEPT ![i] = NodeName[p]]

\* k_work_schedule keeps the deadline of an item that is already pending.
ScheduleRescanMutant(cond) == UNCHANGED work
ScheduleRescan(cond) == work' = (work \/ cond)

\* The address comparison of device_found over the entries in use.
TrackedMutant(p) == FALSE
Tracked(p) == \E i \in Slots : nodeConn[i] # NoConn /\ linkPeer[nodeConn[i]] = p

Initiating == \E c \in Conns : linkSt[c] = "initiating"
MayScan == ParallelScanInit \/ ~Initiating

\* Links that the stack still counts as a connection to their peripheral.
Alive(c) == linkSt[c] \in {"creating", "initiating", "up"}

-----------------------------------------------------------------------------
Init ==
  /\ nodeConn = [i \in Slots |-> NoConn]
  /\ nodeName = [i \in Slots |-> NoName]
  /\ linkSt = [c \in Conns |-> "unused"]
  /\ linkPeer = [c \in Conns |-> NoPeer]
  /\ refs = [c \in Conns |-> 0]
  /\ scanning = FALSE /\ seen = {} /\ reports = {}
  /\ adv \in SUBSET Peers
  /\ rx = RxIdle /\ sys = "idle" /\ main = "boot"
  /\ work = FALSE
  /\ faults = 0

-----------------------------------------------------------------------------
(* start_scan.  The call is entered by setting the thread's counter to     *)
(* "starting"; this is what the controller did when bt_le_scan_start       *)
(* returns.  An error is printed and forgotten.                            *)
Fault == faults < MaxFaults /\ faults' = faults + 1

StartScan ==
  \/ /\ scanning                                   \* -EALREADY
     /\ UNCHANGED <<scanning, seen, faults>>
  \/ /\ ~scanning /\ MayScan
     /\ scanning' = TRUE /\ seen' = {}
     /\ UNCHANGED faults
  \/ /\ ~scanning /\ ~MayScan
     /\ UNCHANGED <<scanning, seen, faults>>
  \/ /\ ~scanning /\ Fault
     /\ UNCHANGED <<scanning, seen>>

\* main: bt_enable, the one-shot rescan, and base_entry through smf_set_initial.
MainBoots ==
  /\ main = "boot"
  /\ \/ main' = "starting" /\ work' = TRUE /\ UNCHANGED faults
     \/ main' = "failed" /\ UNCHANGED work /\ Fault
  /\ UNCHANGED <<table, links, scanner, adv, rx, sys>>

MainScanStarted ==
  /\ main = "starting"
  /\ StartScan
  /\ main' = "done"
  /\ UNCHANGED <<table, links, reports, adv, rx, sys, work>>

-----------------------------------------------------------------------------
(* device_found, called for a report while the scan callback is set.       *)

\* No free entry, or the peripheral is in the table already.
DeviceFoundIgnored(p) ==
  /\ rx.pc = "idle" /\ p \in reports
  /\ reports' = reports \ {p}
  /\ ~scanning \/ FreeSlots = {} \/ Tracked(p)
  /\ UNCHANGED <<table, links, scanning, seen, adv, rx, sys, main, work, faults>>

\* The entry is chosen here, before bt_le_scan_stop waits for the controller.
DeviceFoundChosen(p) ==
  /\ rx.pc = "idle" /\ p \in reports
  /\ reports' = reports \ {p}
  /\ scanning /\ ~Tracked(p)
  /\ \E i \in Slots :
       /\ FirstFree(i)
       /\ rx' = [pc |-> "stopping", peer |-> p, slot |-> i, conn |-> NoConn]
  /\ UNCHANGED <<table, links, scanning, seen, adv, sys, main, work, faults>>

\* bt_le_scan_stop has returned; without an error bt_conn_le_create begins.
ScanStopped ==
  /\ rx.pc = "stopping"
  /\ \/ /\ Fault
        /\ rx' = RxIdle
        /\ UNCHANGED <<links, scanning>>
     \/ /\ scanning' = FALSE /\ UNCHANGED faults
        /\ \/ \* the stack refuses: already initiating, already connected, or no object
              /\ \/ Initiating
                 \/ \E c \in Conns : Alive(c) /\ linkPeer[c] = rx.peer
                 \/ \A c \in Conns : refs[c] > 0
              /\ rx' = [RxIdle EXCEPT !.pc = "starting"]
              /\ UNCHANGED links
           \/ /\ ~Initiating
              /\ \A c \in Conns : ~(Alive(c) /\ linkPeer[c] = rx.peer)
              /\ \E c \in Conns :
                   /\ refs[c] = 0
                   /\ linkSt' = [linkSt EXCEPT ![c] = "creating"]
                   /\ linkPeer' = [linkPeer EXCEPT ![c] = rx.peer]
                   /\ refs' = [refs EXCEPT ![c] = 2]
                   /\ rx' = [rx EXCEPT !.pc = "creating", !.conn = c]
  /\ UNCHANGED <<table, seen, reports, adv, sys, main, work>>

\* bt_conn_le_create has returned.  With an error the entry stays NULL and
\* the scanner is restarted; without one the entry takes the connection and
\* the name the peripheral advertised.
CreateFails ==
  /\ rx.pc = "creating"
  /\ \/ scanning /\ ~ParallelScanInit /\ UNCHANGED faults
     \/ Fault
  /\ linkSt' = [linkSt EXCEPT ![rx.conn] = "unused"]
  /\ linkPeer' = [linkPeer EXCEPT ![rx.conn] = NoPeer]
  /\ refs' = [refs EXCEPT ![rx.conn] = 0]
  /\ nodeConn' = [nodeConn EXCEPT ![rx.slot] = NoConn]
  /\ rx' = [RxIdle EXCEPT !.pc = "starting"]
  /\ UNCHANGED <<nodeName, scanner, adv, sys, main, work>>

CreateSucceeds ==
  /\ rx.pc = "creating"
  /\ ParallelScanInit \/ ~scanning
  /\ linkSt' = [linkSt EXCEPT ![rx.conn] = "initiating"]
  /\ TakeNode(rx.slot, rx.conn, rx.peer)
  /\ rx' = RxIdle
  /\ UNCHANGED <<linkPeer, refs, scanner, adv, sys, main, work, faults>>

\* start_scan in rx returns; after a failed connection attempt the stack
\* then drops the reference it held during the callback.
RxScanStarted ==
  /\ rx.pc = "starting"
  /\ StartScan
  /\ IF rx.conn = NoConn
       THEN UNCHANGED links
       ELSE /\ linkSt' = [linkSt EXCEPT ![rx.conn] = "unused"]
            /\ linkPeer' = [linkPeer EXCEPT ![rx.conn] = NoPeer]
            /\ refs' = [refs EXCEPT ![rx.conn] = @ - 1]
  /\ rx' = RxIdle
  /\ UNCHANGED <<table, reports, adv, sys, main, work>>

-----------------------------------------------------------------------------
(* connected.                                                              *)

\* conn_err # 0: the entry is unreferenced and cleared, the scanner restarted.
ConnectFailed(c) ==
  /\ rx.pc = "idle" /\ linkSt[c] = "initiating"
  /\ linkSt' = [linkSt EXCEPT ![c] = "failed"]
  /\ refs' = [refs EXCEPT ![c] = @ - Unref(c)]
  /\ ClearNode(c)
  /\ rx' = [RxIdle EXCEPT !.pc = "starting", !.conn = c]
  /\ UNCHANGED <<linkPeer, scanner, adv, sys, main, work, faults>>

\* conn_err = 0: a connection without an entry is closed, any other one goes
\* on to bt_conn_le_data_len_update, which waits.
Connected(c) ==
  /\ rx.pc = "idle" /\ linkSt[c] = "initiating" /\ linkPeer[c] \in adv
  /\ adv' = adv \ {linkPeer[c]}
  /\ IF NodesOf(c) = {}
       THEN linkSt' = [linkSt EXCEPT ![c] = "lost"] /\ UNCHANGED rx
       ELSE /\ linkSt' = [linkSt EXCEPT ![c] = "up"]
            /\ rx' = [RxIdle EXCEPT !.pc = "updating", !.conn = c]
  /\ UNCHANGED <<table, linkPeer, refs, scanner, sys, main, work, faults>>

\* The rest of connected: the rescan is scheduled while an entry is free.
ConnectedReturns ==
  /\ rx.pc = "updating"
  /\ ScheduleRescan(FreeSlots # {})
  /\ rx' = RxIdle
  /\ UNCHANGED <<table, links, scanner, adv, sys, main, faults>>

-----------------------------------------------------------------------------
(* The system work queue.                                                  *)

\* disconnected, and then the stack's own reference goes.
Disconnected(c) ==
  /\ sys = "idle" /\ linkSt[c] = "lost"
  /\ ClearNode(c)
  /\ refs' = [refs EXCEPT ![c] = @ - Unref(c) - 1]
  /\ ScheduleRescan(NodesOf(c) # {})
  /\ linkSt' = [linkSt EXCEPT ![c] = "unused"]
  /\ linkPeer' = [linkPeer EXCEPT ![c] = NoPeer]
  /\ UNCHANGED <<scanner, adv, rx, sys, main, faults>>

\* scan_restart_work_fn, when the delay has passed.
ScanRestartRuns ==
  /\ sys = "idle" /\ work
  /\ work' = FALSE
  /\ sys' = IF FreeSlots = {} THEN "idle" ELSE "starting"
  /\ UNCHANGED <<table, links, scanner, adv, rx, main, faults>>

SysScanStarted ==
  /\ sys = "starting"
  /\ StartScan
  /\ sys' = "idle"
  /\ UNCHANGED <<table, links, reports, adv, rx, main, work>>

-----------------------------------------------------------------------------
(* The controller and the peripherals.                                     *)

\* A peripheral is switched on, restarts, or advertises again after a loss
\* (500 ms after it notices).  One that reboots may do so before the base has
\* noticed that the link is dead (StaleLinks).
PeerAdvertises(p) ==
  /\ p \notin adv
  /\ StaleLinks \/ ~Tracked(p)
  /\ adv' = adv \cup {p}
  /\ UNCHANGED <<table, links, scanner, rx, sys, main, work, faults>>

PeerLeaves(p) ==
  /\ p \in adv
  /\ adv' = adv \ {p}
  /\ UNCHANGED <<table, links, scanner, rx, sys, main, work, faults>>

\* BT_LE_SCAN_OPT_FILTER_DUPLICATE: one report for each peripheral and scan.
Hear(p) ==
  /\ scanning /\ p \in adv \ seen
  /\ seen' = seen \cup {p} /\ reports' = reports \cup {p}
  /\ UNCHANGED <<table, links, scanning, adv, rx, sys, main, work, faults>>

\* The stack handles the end of a link and defers the callback to sys.
LinkLost(c) ==
  /\ rx.pc = "idle" /\ linkSt[c] = "up"
  /\ linkSt' = [linkSt EXCEPT ![c] = "lost"]
  /\ UNCHANGED <<table, linkPeer, refs, scanner, adv, rx, sys, main, work, faults>>

-----------------------------------------------------------------------------
MainNext == MainBoots \/ MainScanStarted

RxNext ==
  \/ ScanStopped \/ CreateFails \/ CreateSucceeds \/ RxScanStarted \/ ConnectedReturns
  \/ \E p \in Peers : DeviceFoundIgnored(p) \/ DeviceFoundChosen(p)
  \/ \E c \in Conns : ConnectFailed(c) \/ Connected(c) \/ LinkLost(c)

SysNext ==
  \/ ScanRestartRuns \/ SysScanStarted
  \/ \E c \in Conns : Disconnected(c)

RadioNext == \E p \in Peers : PeerAdvertises(p) \/ PeerLeaves(p) \/ Hear(p)

Next == MainNext \/ RxNext \/ SysNext \/ RadioNext

Spec == Init /\ [][Next]_vars
-----------------------------------------------------------------------------
(* Fairness.  A thread that waits for the controller goes on and a queued  *)
(* item that stays runnable is served; the controller hears who keeps      *)
(* advertising, ends every connection attempt and notices every dead link; *)
(* and of the attempts to reach a peripheral that is there, not every one  *)
(* fails (the only strong condition beside the dead links).                *)
RxReturns == ScanStopped \/ CreateFails \/ CreateSucceeds \/ RxScanStarted \/ ConnectedReturns
ReportServed(p) == DeviceFoundIgnored(p) \/ DeviceFoundChosen(p)
AttemptEnds == \E c \in Conns : Connected(c) \/ ConnectFailed(c)
AttemptReaches == \E c \in Conns : Connected(c)
DeadLinkNoticed == \E c \in Conns : linkPeer[c] \in adv /\ LinkLost(c)

Fairness ==
  /\ WF_vars(MainNext)
  /\ WF_vars(RxReturns) /\ WF_vars(AttemptEnds)
  /\ WF_vars(SysScanStarted) /\ WF_vars(ScanRestartRuns)
  /\ \A p \in Peers : WF_vars(Hear(p)) /\ WF_vars(ReportServed(p))
  /\ \A c \in Conns : WF_vars(Disconnected(c))
  /\ SF_vars(AttemptReaches) /\ SF_vars(DeadLinkNoticed)

FairSpec == Spec /\ Fairness

-----------------------------------------------------------------------------
(* Properties.                                                             *)

\* Every variable stays within its type.
TypeOK ==
  /\ nodeConn \in [Slots -> Conns \cup {NoConn}]
  /\ nodeName \in [Slots -> Names \cup {NoName}]
  /\ linkSt \in [Conns -> LinkStates]
  /\ linkPeer \in [Conns -> Peers \cup {NoPeer}]
  /\ refs \in [Conns -> 0..2]
  /\ scanning \in BOOLEAN /\ seen \subseteq Peers /\ reports \subseteq Peers
  /\ adv \subseteq Peers
  /\ rx \in [pc : RxCounters, peer : Peers \cup {NoPeer}, slot : Slots \cup {0},
             conn : Conns \cup {NoConn}]
  /\ sys \in {"idle", "starting"}
  /\ main \in {"boot", "starting", "done", "failed"}
  /\ work \in BOOLEAN
  /\ faults \in 0..MaxFaults

InTable(c) == \E i \in Slots : nodeConn[i] = c

\* A connection the stack initiates, keeps or has just lost is held by exactly
\* one entry of nodes[], and an entry holds no other: "No node slot found" in
\* connected is never reached, and no link lives on that nobody can write to.
LinksAreTracked ==
  /\ \A c \in Conns : InTable(c) <=> linkSt[c] \in {"initiating", "up", "lost"}
  /\ \A i, j \in Slots : nodeConn[i] = nodeConn[j] /\ nodeConn[i] # NoConn => i = j

\* The references add up: one of the stack for each object in use and one of
\* the application for each entry that holds it (and for one being created).
StackRefs(c) == IF linkSt[c] = "unused" THEN 0 ELSE 1
AppRefs(c) == IF InTable(c) \/ linkSt[c] = "creating" THEN 1 ELSE 0
RefsBalance == \A c \in Conns : refs[c] = StackRefs(c) + AppRefs(c)

\* What device_found checked before it waited for the scanner to stop still
\* holds when it uses it: the chosen entry is free and no link, tracked or not,
\* leads to the peripheral, so bt_conn_le_create is never refused for a
\* duplicate and never overwrites a held reference.
ChoiceStaysValid ==
  /\ rx.pc \in {"stopping", "creating"} => nodeConn[rx.slot] = NoConn
  /\ rx.pc = "stopping" =>
       \A c \in Conns : Alive(c) => linkPeer[c] # rx.peer

\* nus_send_to_node finds nodes by name: the name beside a connection is the
\* one its peripheral advertises.
NamesMatchLinks ==
  \A i \in Slots : nodeConn[i] # NoConn => nodeName[i] = NodeName[linkPeer[nodeConn[i]]]

\* No two entries lead to the same peripheral, not even while the disconnected
\* callback of its old link is still queued on the other work queue.
OneEntryPerPeer ==
  \A i, j \in Slots :
    /\ nodeConn[i] # NoConn /\ nodeConn[j] # NoConn
    /\ linkPeer[nodeConn[i]] = linkPeer[nodeConn[j]]
    => i = j

\* The inductive invariant: beside the properties above, what the counter of
\* the receive thread says about the object and the entry it is working on.
\* Only rx creates and drops objects outside the table, one at a time.
RxConsistent ==
  /\ rx.pc \in {"stopping", "creating"} =>
       rx.slot \in FreeSlots /\ rx.peer \in Peers /\ ~Tracked(rx.peer)
  /\ rx.pc = "creating" => rx.conn \in Conns /\ linkPeer[rx.conn] = rx.peer
  /\ \A c \in Conns :
       /\ linkSt[c] = "creating" <=> rx.pc = "creating" /\ rx.conn = c
       /\ linkSt[c] = "failed" <=> rx.pc = "starting" /\ rx.conn = c
       /\ linkSt[c] # "unused" => linkPeer[c] \in Peers

IInv ==
  TypeOK /\ LinksAreTracked /\ RefsBalance /\ NamesMatchLinks /\ OneEntryPerPeer /\ RxConsistent

\* With as many objects as entries (CONFIG_BT_MAX_CONN = MAX_NODES), a free
\* entry found by device_found is always backed by an object the stack can
\* give: connections that failed or ended leak none.
FreeEntryHasObject ==
  rx.pc \in {"idle", "stopping"} =>
    Cardinality({c \in Conns : refs[c] = 0}) >= Cardinality(FreeSlots)

\* An entry in use is only ever emptied, never handed from one connection to
\* another, and not while its link is being set up or is up.
EntriesAreNotStolen ==
  [][\A i \in Slots :
       nodeConn[i] # NoConn /\ nodeConn'[i] # nodeConn[i] =>
         nodeConn'[i] = NoConn /\ linkSt'[nodeConn[i]] \in {"unused", "failed"}]_vars

\* The table implements NodeSessions: the sessions of different peripherals do
\* not disturb each other, each goes through its states in order, and a session
\* begins only while fewer than MaxNodes others are active.
SessionOf(p) ==
  LET Held(states) == \E i \in Slots : /\ nodeConn[i] # NoConn
                                       /\ linkPeer[nodeConn[i]] = p
                                       /\ linkSt[nodeConn[i]] \in states
  IN  IF Held({"initiating"}) THEN "opening"
      ELSE IF Held({"up"}) THEN "open"
      ELSE IF Held({"lost"}) THEN "closing"
      ELSE "none"

Sessions == INSTANCE NodeSessions
  WITH Capacity <- MaxNodes, session <- [p \in Peers |-> SessionOf(p)]

TableImplementsSessions == Sessions!Spec

\* A base that has booted scans again and again while an entry is free: no
\* interleaving of the work queues forgets to restart the scanner.
FreeEntryIsScannedFor ==
  (main = "done" /\ FreeSlots # {}) ~> (scanning \/ FreeSlots = {})

\* Once the radio has settled (from some moment on no node leaves and no link
\* breaks), a node that is online is connected to, unless others fill the table.
RadioSettles ==
  <>[][~ \E p \in Peers, c \in Conns : PeerLeaves(p) \/ LinkLost(c)]_vars
NodeOnlineIsConnected ==
  RadioSettles => \A p \in Peers : (p \in adv) ~> (p \notin adv \/ FreeSlots = {})
=============================================================================
