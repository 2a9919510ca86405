------------------------------ MODULE BaseLink ------------------------------
(***************************************************************************)
(* The two entries of nodes[] on the base station (00base/src/main.c) from *)
(* the connection of a node to its loss: GATT discovery and subscription,  *)
(* which start in connected() and go on in the callbacks, and the commands *)
(* the UART thread writes to a node.                                       *)
(*                                                                         *)
(* Callbacks run in the Bluetooth receive work queue, the flush of a lost  *)
(* link and disconnected() in the system work queue; both are cooperative, *)
(* so each is one action, cut where it waits.  The UART thread is          *)
(* preemptible: nus_send_to_node is cut at every access to the entry.      *)
(*                                                                         *)
(* Entries and connection objects are both taken lowest first and given    *)
(* back together, so nodes[i] always has the i-th object: nodes[i].conn is *)
(* set exactly while link[i] is not "none", and a thread that still holds  *)
(* the object of a lost link holds that of the entry's next one.           *)
(*                                                                         *)
(* External, modelled from how this file uses it: the ATT layer.  It keeps *)
(* the requests of a link in a queue, has one of them outstanding, takes   *)
(* them from one slab for all links, frees a request before it calls back, *)
(* hands a freed one to a thread that waits, never waits in a callback,    *)
(* and on a lost link calls back every request of the queue without an     *)
(* attribute before it calls disconnected().                               *)
(***************************************************************************)
EXTENDS Integers, Sequences, FiniteSets

CONSTANTS
  ReqSlots,     \* ATT requests the stack can hold (CONFIG_BT_ATT_TX_COUNT)
  RxRounds,     \* responses until the RX characteristic is among the attributes
  QueueSize,    \* MSG_QUEUE_SIZE
  MaxLinks,     \* bound: connections
  MaxLines      \* bound: command lines the GUI sends

ASSUME LinkAssumption ==
  /\ ReqSlots \in Nat \ {0} /\ RxRounds \in Nat \ {0} /\ QueueSize \in Nat \ {0}
  /\ MaxLinks \in Nat /\ MaxLines \in Nat

VARIABLES
  link,        \* per entry, its connection: "none", "opening", "up", "lost"
  made,        \* how many connections there have been
  gen,         \* per entry, the number of its connection; 0 before
  handle,      \* nodes[i].nus_rx_handle: 0, or the connection it was read on
  stage,       \* nodes[i].discover_params.uuid
  rxSet,       \* is nodes[i].rx_discover_params.func set?
  wp,          \* nodes[i].write_params: is func set, and the handle
  att,         \* per link its queue of ATT requests, the first one outstanding
  subscribed,  \* does the stack hold nodes[i].subscribe_params?
  refused,     \* has the stack refused a request of this link's discovery?
  lines,       \* uart_msgq: the number of lines in it
  sent,        \* lines sent so far
  uart,        \* UART thread: counter, entry, handle; was the entry wiped since?
  fault        \* a call through a wiped block: "none", "rx", "write"

entryVars == <<handle, stage, rxSet, wp>>
linkVars == <<link, made, gen>>
uartVars == <<lines, sent, uart>>
vars == <<linkVars, entryVars, att, subscribed, refused, uartVars, fault>>

Nodes == {1, 2}       \* MAX_NODES = CONFIG_BT_MAX_CONN = 2
Kinds == {"mtu", "svc", "tx", "ccc", "sub", "rx", "write", "stray"}
Req(kind, arg) == [kind |-> kind, arg |-> arg]
NoWrite == [func |-> FALSE, handle |-> 0]
UartIdle == [pc |-> "idle", node |-> 1, handle |-> 0, torn |-> FALSE]

-----------------------------------------------------------------------------
(* The ATT layer.                                                          *)

InUse == Len(att[1]) + Len(att[2]) + (IF uart.pc = "holding" THEN 1 ELSE 0)

\* The thread that waits for a request gets the first that is freed on any link.
Woken(thread) == [thread EXCEPT !.pc = IF @ = "blocked" THEN "holding" ELSE @]

\* What a callback finds: its own request is free again, unless a thread waited.
RoomMutant == ReqSlots - InUse + 1                   \* the waiting thread forgotten
Room == ReqSlots - InUse + (IF uart.pc = "blocked" THEN 0 ELSE 1)

\* A callback queues the requests there is room for, without waiting.
FirstOf(reqs, n) == SubSeq(reqs, 1, IF n < Len(reqs) THEN n ELSE Len(reqs))
Requests(i, reqs) ==
  /\ att' = [att EXCEPT ![i] = Tail(@) \o FirstOf(reqs, Room)]
  /\ refused' = [refused EXCEPT ![i] = @ \/ Room < Len(reqs)]

\* connected() of an entry has not got past update_data_length yet.
Starting(i) == link[i] \in {"up", "lost"} /\ stage[i] = "none"

\* The response to the outstanding request, which ends with its callback; the
\* receive work queue has one thread.
Answered(i, kinds) ==
  /\ fault = "none" /\ \A j \in Nodes : ~Starting(j)
  /\ link[i] = "up" /\ att[i] # <<>> /\ Head(att[i]).kind \in kinds
  /\ uart' = Woken(uart)
  /\ UNCHANGED <<linkVars, lines, sent>>

Pending(i, kind) == {k \in DOMAIN att[i] : att[i][k].kind = kind}

-----------------------------------------------------------------------------
Init ==
  /\ link = [i \in Nodes |-> "none"] /\ made = 0 /\ gen = [i \in Nodes |-> 0]
  /\ handle = [i \in Nodes |-> 0] /\ stage = [i \in Nodes |-> "none"]
  /\ rxSet = [i \in Nodes |-> FALSE] /\ wp = [i \in Nodes |-> NoWrite]
  /\ att = [i \in Nodes |-> <<>>]
  /\ subscribed = [i \in Nodes |-> FALSE] /\ refused = [i \in Nodes |-> FALSE]
  /\ lines = 0 /\ sent = 0 /\ uart = UartIdle
  /\ fault = "none"

\* device_found sets the first free entry's conn; the scanner is off until the
\* attempt is over.
Opens(i) ==
  /\ fault = "none"
  /\ link[i] = "none" /\ \A j \in Nodes : j < i => link[j] # "none"
  /\ \A j \in Nodes : link[j] # "opening" /\ ~Starting(j)
  /\ link' = [link EXCEPT ![i] = "opening"]
  /\ UNCHANGED <<made, gen, entryVars, att, subscribed, refused, uartVars, fault>>

\* A connection is made, and connected() waits in update_data_length.
LinkUp(i) ==
  /\ fault = "none" /\ link[i] = "opening" /\ made < MaxLinks
  /\ link' = [link EXCEPT ![i] = "up"]
  /\ made' = made + 1 /\ gen' = [gen EXCEPT ![i] = made + 1]
  /\ UNCHANGED <<entryVars, att, subscribed, refused, uartVars, fault>>

\* connected() goes on: MTU exchange, discovery of the service and, at once,
\* that of the RX characteristic.  It reads none of their results: each is
\* refused where the slab is empty, all are where the link is gone by now.
FirstRequests == <<Req("mtu", 0), Req("svc", 0), Req("rx", 1)>>

Connected(i) ==
  /\ fault = "none" /\ Starting(i)
  /\ stage' = [stage EXCEPT ![i] = "svc"] /\ rxSet' = [rxSet EXCEPT ![i] = TRUE]
  /\ att' = IF link[i] = "up"
              THEN [att EXCEPT ![i] = @ \o FirstOf(FirstRequests, ReqSlots - InUse)]
              ELSE att
  /\ refused' = [refused EXCEPT ![i] = link[i] = "up" /\ ReqSlots - InUse < 3]
  /\ UNCHANGED <<linkVars, handle, wp, subscribed, uartVars, fault>>

\* discover_func moves on to the next stage whether or not the stack takes the
\* request: an error is only logged.
NextStageMutant(kind) == kind      \* the memcpy of the next UUID forgotten
NextStage(kind) == IF kind = "svc" THEN "tx" ELSE "ccc"

AfterStageMutant(kind) == <<Req(NextStage(kind), 0), Req("rx", 1)>>  \* RX discovered in an earlier stage
AfterStage(kind) == <<Req(NextStage(kind), 0)>>

StageFound(i) ==
  /\ Answered(i, {"svc", "tx"})
  /\ stage' = [stage EXCEPT ![i] = NextStage(Head(att[i]).kind)]
  /\ Requests(i, AfterStage(Head(att[i]).kind))
  /\ UNCHANGED <<handle, rxSet, wp, subscribed, fault>>

\* Stage 3: subscribe, and if that succeeds discover the RX handle (again).
CccFound(i) ==
  /\ Answered(i, {"ccc"})
  /\ Requests(i, <<Req("sub", 0), Req("rx", 1)>>)
  /\ subscribed' = [subscribed EXCEPT ![i] = Room > 0]
  /\ rxSet' = [rxSet EXCEPT ![i] = @ \/ Room > 0]
  /\ UNCHANGED <<handle, stage, wp, fault>>

\* rx_discover_func: with the attribute it stores the handle; without one
\* (nothing left, or no request for the next round) it wipes its parameters.
\* The stack calls params->func, which is NULL in a block that was wiped.
RxFault(i) == IF rxSet[i] THEN "none" ELSE "rx"

RxFound(i) ==
  /\ Answered(i, {"rx"})
  /\ Head(att[i]).arg = RxRounds
  /\ handle' = [handle EXCEPT ![i] = IF rxSet[i] THEN gen[i] ELSE @]
  /\ fault' = RxFault(i)
  /\ att' = [att EXCEPT ![i] = Tail(@)]
  /\ UNCHANGED <<stage, rxSet, wp, subscribed, refused>>

RxGoesOn(i) ==
  /\ Answered(i, {"rx"})
  /\ Head(att[i]).arg < RxRounds
  /\ Requests(i, <<Req("rx", Head(att[i]).arg + 1)>>)
  /\ rxSet' = [rxSet EXCEPT ![i] = @ /\ Room > 0]
  /\ fault' = RxFault(i)
  /\ UNCHANGED <<handle, stage, wp, subscribed>>

\* mtu_exchange_cb and the end of the subscription only log.
OtherAnswered(i) ==
  /\ Answered(i, {"mtu", "sub"})
  /\ att' = [att EXCEPT ![i] = Tail(@)]
  /\ UNCHANGED <<entryVars, subscribed, refused, fault>>

\* write_func only logs; the stack calls write_params.func.
WriteFault(i) == IF wp[i].func THEN "none" ELSE "write"

WriteAnswered(i) ==
  /\ Answered(i, {"write", "stray"})
  /\ att' = [att EXCEPT ![i] = Tail(@)]
  /\ fault' = WriteFault(i)
  /\ UNCHANGED <<entryVars, subscribed, refused>>

-----------------------------------------------------------------------------
(* The end of a link.                                                      *)

LinkLost(i) ==
  /\ fault = "none" /\ link[i] = "up"
  /\ link' = [link EXCEPT ![i] = "lost"]
  /\ UNCHANGED <<made, gen, entryVars, att, subscribed, refused, uartVars, fault>>

\* memset of the entry; a thread in the middle of a write to it goes on.
ClearHandleMutant(i) == UNCHANGED handle           \* :804 and :805 forgotten
ClearHandle(i) == handle' = [handle EXCEPT ![i] = 0]

ClearEntry(i) ==
  /\ ClearHandle(i)
  /\ stage' = [stage EXCEPT ![i] = "none"] /\ rxSet' = [rxSet EXCEPT ![i] = FALSE]
  /\ wp' = [wp EXCEPT ![i] = NoWrite]
  /\ gen' = [gen EXCEPT ![i] = 0] /\ refused' = [refused EXCEPT ![i] = FALSE]
  /\ link' = [link EXCEPT ![i] = "none"]
  /\ UNCHANGED made

Torn(thread, i) == [thread EXCEPT !.torn = @ \/ (thread.handle # 0 /\ thread.node = i)]

\* The attempt fails: connected() with an error.
ConnectFails(i) ==
  /\ fault = "none" /\ link[i] = "opening"
  /\ ClearEntry(i)
  /\ uart' = Torn(uart, i)
  /\ UNCHANGED <<att, subscribed, lines, sent, fault>>

\* Every request of the queue is called back without an attribute; the first
\* rx request wipes rx_discover_params, a second one calls what was wiped.
FlushFaults(i) == Cardinality(Pending(i, "rx")) > (IF rxSet[i] THEN 1 ELSE 0)
StrayFaults(i) == Pending(i, "write") \cup Pending(i, "stray") # {} /\ ~wp[i].func

Disconnected(i) ==
  /\ fault = "none" /\ link[i] = "lost" /\ ~Starting(i)
  /\ fault' = IF FlushFaults(i) THEN "rx" ELSE IF StrayFaults(i) THEN "write" ELSE "none"
  /\ att' = [att EXCEPT ![i] = <<>>] /\ subscribed' = [subscribed EXCEPT ![i] = FALSE]
  /\ ClearEntry(i)
  /\ uart' = Torn(IF att[i] = <<>> THEN uart ELSE Woken(uart), i)
  /\ UNCHANGED <<lines, sent>>

-----------------------------------------------------------------------------
(* The UART: uart_cb queues complete lines, uart_rx_thread serves them.    *)

\* k_msgq_put with K_NO_WAIT: a full queue drops the new line.
Queued == IF lines < QueueSize THEN lines + 1 ELSE lines

LineArrives ==
  /\ fault = "none" /\ sent < MaxLines
  /\ sent' = sent + 1
  /\ lines' = Queued
  /\ UNCHANGED <<linkVars, entryVars, att, subscribed, refused, uart, fault>>

UartUnchanged == UNCHANGED <<linkVars, handle, stage, rxSet, subscribed, refused, sent>>

UartTakesLine ==
  /\ fault = "none" /\ uart.pc = "idle" /\ lines > 0
  /\ lines' = lines - 1
  /\ uart' = [uart EXCEPT !.pc = "lookup"]
  /\ UNCHANGED <<wp, att, fault>> /\ UartUnchanged

\* nus_send_to_node finds the entry with the name, its conn and its handle, or
\* returns -ENOENT or -EINVAL.  It reads both once: the build keeps them in
\* registers, and stores the handle before func.
UartLooksUp ==
  /\ fault = "none" /\ uart.pc = "lookup"
  /\ \/ \E i \in Nodes :
          /\ link[i] # "none" /\ handle[i] # 0
          /\ uart' = [pc |-> "found", node |-> i, handle |-> handle[i], torn |-> FALSE]
     \/ (\E i \in Nodes : link[i] = "none" \/ handle[i] = 0) /\ uart' = UartIdle
  /\ UNCHANGED <<lines, wp, att, fault>> /\ UartUnchanged

UartSetsHandle ==
  /\ fault = "none" /\ uart.pc = "found"
  /\ wp' = [wp EXCEPT ![uart.node].handle = uart.handle]
  /\ uart' = [uart EXCEPT !.pc = "handle_set"]
  /\ UNCHANGED <<lines, att, fault>> /\ UartUnchanged

UartSetsFunc ==
  /\ fault = "none" /\ uart.pc = "handle_set"
  /\ wp' = [wp EXCEPT ![uart.node].func = TRUE]
  /\ uart' = [uart EXCEPT !.pc = "prepared"]
  /\ UNCHANGED <<lines, att, fault>> /\ UartUnchanged

\* bt_gatt_write refuses a link that is not up, and takes a request or waits.
UartAllocates ==
  /\ fault = "none" /\ uart.pc = "prepared"
  /\ uart' = IF link[uart.node] # "up" THEN UartIdle
             ELSE [uart EXCEPT !.pc = IF InUse < ReqSlots THEN "holding" ELSE "blocked"]
  /\ UNCHANGED <<lines, wp, att, fault>> /\ UartUnchanged

\* The wait for a request ends after 30 s: -ENOMEM.
UartGivesUp ==
  /\ fault = "none" /\ uart.pc = "blocked"
  /\ uart' = UartIdle
  /\ UNCHANGED <<lines, wp, att, fault>> /\ UartUnchanged

\* The stack encodes the write, with the handle the entry has now, and queues
\* it; where the link is gone it gives the request back.
SendHandle == wp[uart.node].handle

UartSends ==
  /\ fault = "none" /\ uart.pc = "holding"
  /\ att' = IF link[uart.node] = "up"
              THEN [att EXCEPT ![uart.node] =
                      Append(@, Req(IF uart.torn THEN "stray" ELSE "write", SendHandle))]
              ELSE att
  /\ uart' = UartIdle
  /\ UNCHANGED <<lines, wp, fault>> /\ UartUnchanged

-----------------------------------------------------------------------------
RxNext(i) ==
  \/ Connected(i) \/ StageFound(i) \/ CccFound(i) \/ RxFound(i) \/ RxGoesOn(i)
  \/ OtherAnswered(i) \/ WriteAnswered(i)
LinkNext(i) == Opens(i) \/ LinkUp(i) \/ ConnectFails(i) \/ LinkLost(i) \/ Disconnected(i)
UartNext ==
  \/ UartTakesLine \/ UartLooksUp \/ UartSetsHandle \/ UartSetsFunc
  \/ UartAllocates \/ UartGivesUp \/ UartSends

Next == LineArrives \/ UartNext \/ \E i \in Nodes : RxNext(i) \/ LinkNext(i)

Spec == Init /\ [][Next]_vars

\* A node answers its requests while the link is up, the system work queue
\* handles a lost link, and the UART thread gets the processor.
FairSpec ==
  Spec /\ WF_vars(UartNext) /\ \A i \in Nodes : WF_vars(RxNext(i)) /\ WF_vars(Disconnected(i))

-----------------------------------------------------------------------------
(* Properties.                                                             *)

\* Every variable stays within its type; the requests of both links and of the
\* UART thread never exceed the slab.
LinkTypeOK ==
  /\ link \in [Nodes -> {"none", "opening", "up", "lost"}]
  /\ made \in 0..MaxLinks /\ gen \in [Nodes -> 0..MaxLinks]
  /\ handle \in [Nodes -> 0..MaxLinks]
  /\ stage \in [Nodes -> {"none", "svc", "tx", "ccc"}]
  /\ rxSet \in [Nodes -> BOOLEAN]
  /\ wp \in [Nodes -> [func : BOOLEAN, handle : 0..MaxLinks]]
  /\ att \in [Nodes -> Seq([kind : Kinds, arg : 0..(MaxLinks + RxRounds)])]
  /\ InUse <= ReqSlots
  /\ subscribed \in [Nodes -> BOOLEAN] /\ refused \in [Nodes -> BOOLEAN]
  /\ lines \in 0..QueueSize /\ sent \in 0..MaxLines
  /\ uart \in [pc : {"idle", "lookup", "found", "handle_set", "prepared", "blocked", "holding"},
               node : Nodes, handle : 0..MaxLinks, torn : BOOLEAN]
  /\ fault \in {"none", "rx", "write"}

\* rx_discover_params serves two discoveries, one started by connected() and
\* one by discover_func: whenever the link breaks, and whatever requests the
\* stack refuses, no callback finds the block wiped by the other discovery.
NoCallThroughWipedParams == fault # "rx"

\* The two discoveries take turns: at most one of their requests is in a queue,
\* and one for the RX characteristic finds its block as it left it.  The
\* exception is the beginning, when connected() has just started both: then the
\* requests are in one of four orders, and the discovery of the service is
\* never so far ahead that it starts another one for the RX characteristic.
DiscoveryKinds == {"svc", "tx", "ccc", "rx"}
StartPairs ==
  {<<Req("svc", 0), Req("rx", 1)>>, <<Req("rx", 1), Req("tx", 0)>>,
   <<Req("tx", 0), Req("rx", 2)>>, <<Req("rx", 2), Req("ccc", 0)>>}
InTurn(reqs) ==
  \A k, n \in DOMAIN reqs :
    k < n /\ reqs[k].kind \in DiscoveryKinds /\ reqs[n].kind \in DiscoveryKinds
      => <<reqs[k], reqs[n]>> \in StartPairs
DiscoveriesTakeTurns ==
  \A i \in Nodes : InTurn(att[i]) /\ (Pending(i, "rx") # {} => rxSet[i])

\* Whoever else waits for the slab, loses a link or connects again: a command is
\* written to the handle that was discovered on the connection it goes out on,
\* and its answer finds the callback, unless the entry was wiped while
\* nus_send_to_node was at work on it.
WritesUseOwnHandle ==
  \A i \in Nodes : link[i] = "up" =>
    \A k \in Pending(i, "write") : att[i][k].arg = gen[i] /\ wp[i].func

\* A link that stays up delivers notifications and can be written to in the
\* end, unless the stack refused one of its discovery's requests because
\* requests of both links had taken the slab, or was brought down by a call
\* through a wiped block.
LinkIsSetUp ==
  \A i \in Nodes :
    link[i] = "up" ~>
      \/ subscribed[i] /\ handle[i] = gen[i]
      \/ refused[i] \/ link[i] # "up" \/ fault # "none"
=============================================================================
