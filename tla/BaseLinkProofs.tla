--------------------------- MODULE BaseLinkProofs ---------------------------
(***************************************************************************)
(* The connections of the base, for any number of ATT requests, discovery  *)
(* rounds, connections and commands: the requests of both links never      *)
(* exceed the slab, and a command goes to the handle of the connection it  *)
(* is written on unless the entry was wiped under the thread.  If the RX   *)
(* characteristic is found in two responses, the two discoveries never     *)
(* collide in rx_discover_params.                                          *)
(***************************************************************************)
EXTENDS BaseLink, SequenceTheorems, FiniteSetTheorems, TLAPS

Reqs == [kind : Kinds, arg : 0..(MaxLinks + RxRounds)]
Held == IF uart.pc = "holding" THEN 1 ELSE 0
Writing == {"found", "handle_set", "prepared", "blocked", "holding"}

(* The types of what is not Boolean.                                       *)
LinkBase ==
  /\ link \in [Nodes -> {"none", "opening", "up", "lost"}]
  /\ made \in 0..MaxLinks /\ gen \in [Nodes -> 0..MaxLinks]
  /\ handle \in [Nodes -> 0..MaxLinks]
  /\ stage \in [Nodes -> {"none", "svc", "tx", "ccc"}]
  /\ wp \in [Nodes -> [func : BOOLEAN, handle : 0..MaxLinks]]
  /\ att \in [Nodes -> Seq(Reqs)] /\ InUse <= ReqSlots
  /\ lines \in 0..QueueSize /\ sent \in 0..MaxLines
  /\ uart \in [pc : Writing \cup {"idle", "lookup"},
               node : Nodes, handle : 0..MaxLinks, torn : BOOLEAN]
  /\ fault \in {"none", "rx", "write"}

FlagsOK ==
  /\ rxSet \in [Nodes -> BOOLEAN]
  /\ subscribed \in [Nodes -> BOOLEAN] /\ refused \in [Nodes -> BOOLEAN]

(* An entry without a connection is as the memset has left it, and a write *)
(* in the queue of a connection is its own and finds its callback.         *)
EntryOK(i) ==
  /\ handle[i] \in {0, gen[i]}
  /\ link[i] \in {"none", "opening"} => handle[i] = 0 /\ stage[i] = "none" /\ att[i] = <<>>
  /\ \A k \in DOMAIN att[i] : att[i][k].kind = "write" => att[i][k].arg = gen[i] /\ wp[i].func

(* As long as the entry is not wiped under it, the thread's handle is that *)
(* of the connection, and so is what it has put into write_params.         *)
ThreadOK ==
  uart.pc \in Writing /\ ~uart.torn =>
    /\ uart.handle # 0 /\ link[uart.node] \in {"up", "lost"} /\ uart.handle = gen[uart.node]
    /\ uart.pc # "found" => wp[uart.node].handle = uart.handle
    /\ uart.pc \notin {"found", "handle_set"} => wp[uart.node].func

LinkIInv == LinkBase /\ (\A i \in Nodes : EntryOK(i)) /\ ThreadOK

-----------------------------------------------------------------------------
(* The queues of requests.                                                 *)

(* FirstOf takes a prefix, as much as fits.                                *)
LEMMA FirstOfPrefix ==
  ASSUME NEW S, NEW reqs \in Seq(S), NEW n \in Int
  PROVE  /\ FirstOf(reqs, n) \in Seq(S) /\ Len(FirstOf(reqs, n)) \in Nat
         /\ n >= 0 => Len(FirstOf(reqs, n)) <= n
         /\ n <= 0 => Len(FirstOf(reqs, n)) = 0
         /\ Len(FirstOf(reqs, n)) <= Len(reqs) /\ DOMAIN FirstOf(reqs, n) = 1..Len(FirstOf(reqs, n))
         /\ \A i \in 1..Len(FirstOf(reqs, n)) : FirstOf(reqs, n)[i] = reqs[i]
<1> DEFINE m == IF n < Len(reqs) THEN n ELSE Len(reqs)
           f == SubSeq(reqs, 1, m)
<1>1. Len(reqs) \in Nat /\ m \in Int /\ m <= Len(reqs) /\ m <= n
  BY LenProperties
<1>2. \A i \in 1..m : reqs[i] \in S
  BY <1>1, ElementOfSeq
<1>3. /\ f \in Seq(S) /\ Len(f) = IF 1 <= m THEN m - 1 + 1 ELSE 0
      /\ \A i \in 1..(m - 1 + 1) : f[i] = reqs[1 + i - 1]
  <2> HIDE DEF m
  <2> QED
    BY <1>1, <1>2, SubSeqProperties
<1>4. DOMAIN f = 1..Len(f) /\ \A i \in 1..Len(f) : f[i] = reqs[i]
  <2> HIDE DEF m
  <2> QED
    BY <1>1, <1>3, LenProperties
<1>5. f = FirstOf(reqs, n)
  BY DEF FirstOf
<1> HIDE DEF f
<1> QED
  BY <1>1, <1>3, <1>4, <1>5

(* A queue that has lost its first request and may have gained new ones.   *)
MovedOn(q, old, reqs, n) ==
  \/ q = Tail(old)
  \/ q = Tail(old) \o FirstOf(reqs, n)

QueueFacts(q, old, reqs, n) ==
  /\ Len(q) \in Nat /\ DOMAIN q = 1..Len(q) /\ Len(old) \in Nat \ {0}
  /\ n >= 0 => Len(q) <= Len(old) - 1 + n
  /\ n <= 0 => Len(q) = Len(old) - 1
  /\ Len(q) <= Len(old) - 1 + Len(reqs)
  /\ Len(old) - 1 <= Len(q)
  /\ \A k \in 1..(Len(old) - 1) : q[k] = old[k + 1]
  /\ \A k \in 1..Len(q) : k >= Len(old) =>
       k - Len(old) + 1 \in 1..Len(reqs) /\ q[k] = reqs[k - Len(old) + 1]

LEMMA QueueMovesOn ==
  ASSUME NEW S, NEW old \in Seq(S), old # <<>>, NEW reqs \in Seq(S), NEW n \in Int, NEW q,
         MovedOn(q, old, reqs, n)
  PROVE  q \in Seq(S) /\ QueueFacts(q, old, reqs, n)
<1>1. /\ Tail(old) \in Seq(S) /\ Len(Tail(old)) = Len(old) - 1 /\ Len(old) \in Nat \ {0}
      /\ \A k \in 1..(Len(old) - 1) : Tail(old)[k] = old[k + 1]
  BY HeadTailProperties, EmptySeq, LenProperties
<1>2. CASE q = Tail(old)
  BY <1>1, <1>2, LenProperties DEF QueueFacts
<1>3. CASE q = Tail(old) \o FirstOf(reqs, n)
  <2> DEFINE f == FirstOf(reqs, n)
  <2>1. /\ f \in Seq(S) /\ Len(f) \in Nat /\ (n >= 0 => Len(f) <= n) /\ (n <= 0 => Len(f) = 0)
        /\ Len(f) <= Len(reqs) /\ \A k \in 1..Len(f) : f[k] = reqs[k]
    BY FirstOfPrefix, Zenon
  <2>2. q = Tail(old) \o f
    BY <1>3
  <2> HIDE DEF f
  <2>3. /\ q \in Seq(S) /\ Len(q) = Len(old) - 1 + Len(f)
        /\ \A k \in 1..(Len(old) - 1 + Len(f)) :
             q[k] = IF k <= Len(old) - 1 THEN Tail(old)[k] ELSE f[k - (Len(old) - 1)]
    BY <1>1, <2>1, <2>2, ConcatProperties
  <2>4. ASSUME NEW k \in 1..Len(q), k >= Len(old)
        PROVE  k - Len(old) + 1 \in 1..Len(reqs) /\ q[k] = reqs[k - Len(old) + 1]
    <3>1. k - Len(old) + 1 \in 1..Len(f) /\ k - (Len(old) - 1) = k - Len(old) + 1
      BY <1>1, <2>1, <2>3, <2>4
    <3>2. q[k] = f[k - Len(old) + 1]
      BY <1>1, <2>1, <2>3, <2>4, <3>1
    <3>3. Len(reqs) \in Nat
      BY LenProperties
    <3> QED
      BY <2>1, <3>1, <3>2, <3>3
  <2>5. DOMAIN q = 1..Len(q) /\ Len(q) \in Nat
    BY <2>3, LenProperties
  <2>6. Len(reqs) \in Nat
    BY LenProperties
  <2>7. ASSUME NEW k \in 1..(Len(old) - 1) PROVE q[k] = old[k + 1]
    <3>1. k \in 1..(Len(old) - 1 + Len(f)) /\ k <= Len(old) - 1
      BY <1>1, <2>1
    <3> QED
      BY <1>1, <2>3, <3>1
  <2>8. /\ Len(q) = Len(old) - 1 + Len(f) /\ Len(f) \in Nat /\ Len(old) \in Nat \ {0} /\ Len(reqs) \in Nat
        /\ n >= 0 => Len(f) <= n
        /\ n <= 0 => Len(f) = 0
        /\ Len(f) <= Len(reqs)
    BY <1>1, <2>1, <2>3, <2>6
  <2>9. /\ n >= 0 => Len(q) <= Len(old) - 1 + n
        /\ n <= 0 => Len(q) = Len(old) - 1
        /\ Len(q) <= Len(old) - 1 + Len(reqs) /\ Len(old) - 1 <= Len(q)
    BY <2>8
  <2> QED
    BY <1>1, <2>3, <2>4, <2>5, <2>7, <2>9 DEF QueueFacts
<1> QED
  BY <1>2, <1>3 DEF MovedOn

(* One queue changes: the requests in use change by as much.               *)
LEMMA InUseChanges ==
  ASSUME att \in [Nodes -> Seq(Reqs)], NEW i \in Nodes, NEW q \in Seq(Reqs),
         att' = [att EXCEPT ![i] = q]
  PROVE  /\ InUse \in Nat /\ Len(att[i]) \in Nat /\ Len(q) \in Nat
         /\ Held \in {0, 1} /\ Held' \in {0, 1}
         /\ InUse' = InUse - Len(att[i]) + Len(q) - Held + Held'
         /\ Held' = Held => InUse' = InUse - Len(att[i]) + Len(q)
<1>1. Len(att[1]) \in Nat /\ Len(att[2]) \in Nat /\ Len(q) \in Nat
  BY LenProperties DEF Nodes
<1>2. InUse = Len(att[1]) + Len(att[2]) + Held /\ InUse' = Len(att'[1]) + Len(att'[2]) + Held'
  BY DEF InUse, Held
<1>3. Held \in {0, 1} /\ Held' \in {0, 1}
  BY DEF Held
<1>4. CASE i = 1
  <2>1. att'[1] = q /\ att'[2] = att[2]
    BY <1>4 DEF Nodes
  <2> QED
    BY <1>1, <1>2, <1>3, <1>4, <2>1
<1>5. CASE i = 2
  <2>1. att'[2] = q /\ att'[1] = att[1]
    BY <1>5 DEF Nodes
  <2> QED
    BY <1>1, <1>2, <1>3, <1>5, <2>1
<1> QED
  BY <1>4, <1>5 DEF Nodes

(* What that means for the slab: u requests in use become v, a queue of a  *)
(* requests becomes one of b, the thread holds h and then h1.              *)
LEMMA SlabSum ==
  ASSUME NEW R \in Nat, NEW u \in Nat, u <= R, NEW a \in Nat, NEW b \in Nat,
         NEW h \in {0, 1}, NEW h1 \in {0, 1}, NEW v,
         v = u - a + b - h + h1 \/ (h1 = h /\ v = u - a + b),
         \/ h1 = h /\ b <= a - 1 + (R - u + 1)
         \/ h1 = 1 /\ h = 0 /\ b <= a - 1 + (R - u)
         \/ h1 = h /\ b <= a + (R - u)
         \/ h1 = 0 /\ h = 1 /\ b <= a + 1
         \/ h1 = h /\ b <= a
         \/ b < a
  PROVE  v <= R
OBVIOUS

-----------------------------------------------------------------------------
(* The invariant of the writes and the slab, step by step.                 *)

(* A thread that is woken has its request, its entry and its handle.       *)
LEMMA WokenThread ==
  ASSUME LinkBase
  PROVE  /\ Woken(uart) \in [pc : Writing \cup {"idle", "lookup"}, node : Nodes,
                             handle : 0..MaxLinks, torn : BOOLEAN]
         /\ Woken(uart).node = uart.node /\ Woken(uart).handle = uart.handle
         /\ Woken(uart).torn = uart.torn
         /\ Woken(uart).pc = IF uart.pc = "blocked" THEN "holding" ELSE uart.pc
BY DEF LinkBase, Woken, Writing

(* What Answered says without the Boolean variables.                       *)
LEMMA AnswerKeeps ==
  ASSUME NEW i \in Nodes, NEW kinds, Answered(i, kinds)
  PROVE  /\ fault = "none" /\ link[i] = "up" /\ ~Starting(i) /\ att[i] # <<>> /\ Head(att[i]).kind \in kinds
         /\ UNCHANGED <<link, made, gen, lines, sent>> /\ uart' = Woken(uart)
BY DEF Answered, linkVars

(* A callback leaves the request for a waiting thread.                     *)
LEMMA CallbackLeavesRoom ==
  ASSUME LinkBase, NEW i \in Nodes, att[i] # <<>>, uart' = Woken(uart),
         NEW reqs \in Seq(Reqs), NEW q \in Seq(Reqs), MovedOn(q, att[i], reqs, Room),
         att' = [att EXCEPT ![i] = q]
  PROVE  InUse' <= ReqSlots
<1>1. /\ InUse \in Nat /\ Len(att[i]) \in Nat /\ Len(q) \in Nat
      /\ Held \in {0, 1} /\ Held' \in {0, 1}
      /\ InUse' = InUse - Len(att[i]) + Len(q) - Held + Held'
  BY InUseChanges DEF LinkBase
<1>2. att[i] \in Seq(Reqs) /\ InUse <= ReqSlots /\ ReqSlots \in Nat
  BY LinkAssumption DEF LinkBase
<1>3. CASE uart.pc = "blocked"
  <2>1. Held' = 1 /\ Held = 0
    BY <1>3, WokenThread DEF Held
  <2>2. Room \in Int /\ Room >= 0 /\ Room = ReqSlots - InUse
    BY <1>1, <1>2, <1>3 DEF Room
  <2>3. QueueFacts(q, att[i], reqs, Room)
    BY <1>2, <2>2, QueueMovesOn
  <2>4. Len(q) <= Len(att[i]) - 1 + (ReqSlots - InUse)
    BY <2>2, <2>3, Zenon DEF QueueFacts
  <2> QED
    BY <1>1, <1>2, <2>1, <2>4, SlabSum
<1>4. CASE uart.pc # "blocked"
  <2>1. Held' = Held
    BY <1>4, WokenThread DEF Held
  <2>2. Room \in Int /\ Room >= 0 /\ Room = ReqSlots - InUse + 1
    BY <1>1, <1>2, <1>4 DEF Room
  <2>3. QueueFacts(q, att[i], reqs, Room)
    BY <1>2, <2>2, QueueMovesOn
  <2>4. Len(q) <= Len(att[i]) - 1 + (ReqSlots - InUse + 1)
    BY <2>2, <2>3, Zenon DEF QueueFacts
  <2>5. InUse' = InUse - Len(att[i]) + Len(q)
    BY <2>1, InUseChanges DEF LinkBase
  <2> QED
    BY <1>1, <1>2, <2>4, <2>5, SlabSum
<1> QED
  BY <1>3, <1>4

(* The callbacks of the Bluetooth stack that answer a request.             *)
LEMMA CallbackKeepsIInv ==
  ASSUME LinkIInv, NEW i \in Nodes, NEW kinds, Answered(i, kinds),
         NEW reqs \in Seq(Reqs), \A k \in 1..Len(reqs) : reqs[k].kind # "write",
         NEW q, MovedOn(q, att[i], reqs, Room), att' = [att EXCEPT ![i] = q],
         NEW s \in {"svc", "tx", "ccc"}, stage' = stage \/ stage' = [stage EXCEPT ![i] = s],
         fault' \in {"none", "rx", "write"}, wp' = wp,
         handle' = handle \/ handle' = [handle EXCEPT ![i] = gen[i]]
  PROVE  LinkIInv'
<1>1. /\ link[i] = "up" /\ att[i] # <<>> /\ ~Starting(i)
      /\ link' = link /\ made' = made /\ gen' = gen /\ lines' = lines /\ sent' = sent
      /\ uart' = Woken(uart)
  BY AnswerKeeps
<1>2. att[i] \in Seq(Reqs) /\ Room \in Int
  <2>1. InUse \in Nat /\ ReqSlots \in Nat
    BY LinkAssumption, LenProperties DEF LinkIInv, LinkBase, InUse, Nodes
  <2> QED
    BY <2>1 DEF LinkIInv, LinkBase, Room
<1>3. q \in Seq(Reqs) /\ QueueFacts(q, att[i], reqs, Room)
  BY <1>1, <1>2, QueueMovesOn
<1>4. InUse' <= ReqSlots
  BY <1>1, <1>3, CallbackLeavesRoom DEF LinkIInv
<1>5. LinkBase'
  <2>1. att' \in [Nodes -> Seq(Reqs)]
    BY <1>3 DEF LinkIInv, LinkBase
  <2>2. stage' \in [Nodes -> {"none", "svc", "tx", "ccc"}] /\ handle' \in [Nodes -> 0..MaxLinks]
    BY DEF LinkIInv, LinkBase
  <2> QED
    BY <1>1, <1>4, <2>1, <2>2, WokenThread DEF LinkIInv, LinkBase, Reqs
<1>6. ASSUME NEW j \in Nodes PROVE EntryOK(j)'
  <2>1. handle'[j] \in {0, gen[j]} /\ (j # i => att'[j] = att[j] /\ handle'[j] = handle[j] /\ stage'[j] = stage[j])
    BY DEF LinkIInv, LinkBase, EntryOK
  <2>2. CASE j # i
    BY <1>1, <2>1, <2>2 DEF LinkIInv, EntryOK
  <2>3. CASE j = i
    <3>1. att'[j] = q
      BY <2>3 DEF LinkIInv, LinkBase
    <3>2. ASSUME NEW k \in DOMAIN q, q[k].kind = "write" PROVE q[k].arg = gen[i] /\ wp[i].func
      <4>1. k \in 1..Len(q) /\ k < Len(att[i])
        <5>1. k \in 1..Len(q) /\ Len(att[i]) \in Nat /\ Len(q) \in Nat
          BY <1>3 DEF QueueFacts
        <5>2. ASSUME k >= Len(att[i]) PROVE FALSE
          <6>1. k - Len(att[i]) + 1 \in 1..Len(reqs) /\ q[k] = reqs[k - Len(att[i]) + 1]
            BY <1>3, <5>1, <5>2 DEF QueueFacts
          <6> QED
            BY <3>2, <6>1
        <5> QED
          BY <5>1, <5>2
      <4>2. k + 1 \in DOMAIN att[i] /\ q[k] = att[i][k + 1]
        BY <1>2, <1>3, <4>1, LenProperties DEF QueueFacts
      <4> QED
        BY <3>2, <4>2 DEF LinkIInv, EntryOK
    <3> QED
      BY <1>1, <2>1, <2>3, <3>1, <3>2 DEF EntryOK
  <2> QED
    BY <2>2, <2>3
<1>7. ThreadOK'
  BY <1>1, WokenThread DEF LinkIInv, ThreadOK, Writing
<1> QED
  BY <1>5, <1>6, <1>7 DEF LinkIInv

LEMMA InitLinkIInv == Init => LinkIInv
<1> SUFFICES ASSUME Init PROVE LinkIInv
  OBVIOUS
<1>1. /\ link = [i \in Nodes |-> "none"] /\ made = 0 /\ gen = [i \in Nodes |-> 0]
      /\ handle = [i \in Nodes |-> 0] /\ stage = [i \in Nodes |-> "none"]
      /\ wp = [i \in Nodes |-> NoWrite] /\ att = [i \in Nodes |-> <<>>]
      /\ lines = 0 /\ sent = 0 /\ uart = UartIdle /\ fault = "none"
  BY Zenon DEF Init
<1>2. att \in [Nodes -> Seq(Reqs)] /\ \A i \in Nodes : att[i] = <<>> /\ Len(att[i]) = 0
  BY <1>1, EmptySeq
<1>3. InUse = 0 /\ uart.pc = "idle"
  BY <1>1, <1>2 DEF InUse, Nodes, UartIdle
<1>4. LinkBase
  BY <1>1, <1>2, <1>3, LinkAssumption DEF LinkBase, NoWrite, UartIdle, Nodes
<1>5. ASSUME NEW i \in Nodes PROVE EntryOK(i)
  BY <1>1 DEF EntryOK
<1> QED
  BY <1>3, <1>4, <1>5 DEF LinkIInv, ThreadOK, Writing

(* connected() queues its requests behind what a stray write may have left.*)
LEMMA ConnectedKeepsIInv ==
  ASSUME LinkIInv, NEW i \in Nodes, Connected(i)
  PROVE  LinkIInv'
<1>1. /\ Starting(i) /\ stage' = [stage EXCEPT ![i] = "svc"]
      /\ UNCHANGED <<link, made, gen, handle, wp, lines, sent, uart, fault>>
      /\ att' = IF link[i] = "up"
                  THEN [att EXCEPT ![i] = @ \o FirstOf(FirstRequests, ReqSlots - InUse)]
                  ELSE att
  BY Zenon DEF Connected, linkVars, uartVars
<1>2. FirstRequests \in Seq(Reqs) /\ Len(FirstRequests) = 3
      /\ \A k \in 1..3 : FirstRequests[k].kind # "write"
  <2>1. Req("mtu", 0) \in Reqs /\ Req("svc", 0) \in Reqs /\ Req("rx", 1) \in Reqs
    BY LinkAssumption DEF Req, Reqs, Kinds
  <2> QED
    BY <2>1 DEF FirstRequests, Req
<1> DEFINE f == FirstOf(FirstRequests, ReqSlots - InUse)
<1>3. InUse \in Nat /\ InUse <= ReqSlots /\ ReqSlots \in Nat /\ att[i] \in Seq(Reqs) /\ Held' = Held
  BY <1>1, LinkAssumption, LenProperties DEF LinkIInv, LinkBase, InUse, Nodes, Held
<1>4. /\ f \in Seq(Reqs) /\ Len(f) \in Nat /\ Len(f) <= ReqSlots - InUse
      /\ \A k \in 1..Len(f) : f[k].kind # "write"
  <2>1. ReqSlots - InUse \in Int /\ ReqSlots - InUse >= 0
    BY <1>3
  <2>2. /\ f \in Seq(Reqs) /\ Len(f) \in Nat /\ Len(f) <= 3
        /\ Len(f) <= ReqSlots - InUse
        /\ \A k \in 1..Len(f) : f[k] = FirstRequests[k]
    BY <1>2, <2>1, FirstOfPrefix
  <2> HIDE DEF f
  <2> QED
    BY <1>2, <2>1, <2>2
<1> HIDE DEF f
<1>5. /\ att[i] \o f \in Seq(Reqs) /\ Len(att[i] \o f) = Len(att[i]) + Len(f) /\ Len(att[i]) \in Nat
      /\ \A k \in DOMAIN (att[i] \o f) : (att[i] \o f)[k].kind = "write" =>
           k \in DOMAIN att[i] /\ (att[i] \o f)[k] = att[i][k]
  BY <1>3, <1>4, ConcatProperties, LenProperties
<1>6. LinkBase' /\ \A j \in Nodes : j # i => att'[j] = att[j]
  <2>1. CASE link[i] = "up"
    <3>1. att' = [att EXCEPT ![i] = att[i] \o f]
      BY <1>1, <2>1 DEF f
    <3>2. InUse' <= ReqSlots
      <4>1. /\ InUse' = InUse - Len(att[i]) + Len(att[i] \o f) - Held + Held'
            /\ Held \in {0, 1} /\ Held' \in {0, 1} /\ Len(att[i] \o f) \in Nat
        BY <1>5, <3>1, InUseChanges DEF LinkIInv, LinkBase
      <4>2. Len(att[i] \o f) <= Len(att[i]) + (ReqSlots - InUse)
        BY <1>3, <1>4, <1>5
      <4> QED
        BY <1>3, <1>5, <4>1, <4>2, SlabSum
    <3>3. att' \in [Nodes -> Seq(Reqs)]
      BY <1>5, <3>1 DEF LinkIInv, LinkBase
    <3> QED
      BY <1>1, <3>1, <3>2, <3>3 DEF LinkIInv, LinkBase, Reqs
  <2>2. CASE link[i] # "up"
    <3>1. att' = att /\ InUse' = InUse
      BY <1>1, <2>2 DEF InUse
    <3> QED
      BY <1>1, <3>1 DEF LinkIInv, LinkBase, Reqs
  <2> QED
    BY <2>1, <2>2
<1>7. ASSUME NEW j \in Nodes PROVE EntryOK(j)'
  <2>1. CASE j # i
    BY <1>1, <1>6, <2>1 DEF LinkIInv, LinkBase, EntryOK
  <2>2. CASE j = i
    <3>1. att'[i] = att[i] \o f \/ att'[i] = att[i]
      BY <1>1 DEF LinkIInv, LinkBase, f
    <3>2. ASSUME NEW k \in DOMAIN att'[i], att'[i][k].kind = "write"
          PROVE  att'[i][k].arg = gen[i] /\ wp[i].func
      <4>1. k \in DOMAIN att[i] /\ att'[i][k] = att[i][k]
        BY <1>5, <3>1, <3>2
      <4> QED
        BY <3>2, <4>1 DEF LinkIInv, EntryOK
    <3> QED
      BY <1>1, <2>2, <3>2 DEF LinkIInv, EntryOK, Starting
  <2> QED
    BY <2>1, <2>2
<1>8. ThreadOK'
  BY <1>1 DEF LinkIInv, ThreadOK
<1> QED
  BY <1>6, <1>7, <1>8 DEF LinkIInv

(* The end of a connection, or of an attempt to make one, tears a write    *)
(* that a thread has in hand for it.                                       *)
LEMMA TornThread ==
  ASSUME NEW t \in [pc : Writing \cup {"idle", "lookup"}, node : Nodes,
                    handle : 0..MaxLinks, torn : BOOLEAN], NEW i \in Nodes
  PROVE  /\ Torn(t, i) \in [pc : Writing \cup {"idle", "lookup"}, node : Nodes,
                            handle : 0..MaxLinks, torn : BOOLEAN]
         /\ Torn(t, i).pc = t.pc /\ Torn(t, i).node = t.node /\ Torn(t, i).handle = t.handle
         /\ ~Torn(t, i).torn => ~t.torn /\ ~(t.handle # 0 /\ t.node = i)
<1>1. CASE t.handle # 0 /\ t.node = i
  <2>1. Torn(t, i) = [t EXCEPT !.torn = TRUE]
    BY <1>1 DEF Torn
  <2> QED
    BY <2>1
<1>2. CASE ~(t.handle # 0 /\ t.node = i)
  <2>1. Torn(t, i) = [t EXCEPT !.torn = t.torn]
    BY <1>2 DEF Torn
  <2>2. Torn(t, i) = t
    BY <2>1
  <2> QED
    BY <1>2, <2>2
<1> QED
  BY <1>1, <1>2

(* What is left of an entry after the memset, for both ways it ends.       *)
LEMMA ClearKeepsIInv ==
  ASSUME LinkIInv, NEW i \in Nodes, ClearEntry(i), att' = [att EXCEPT ![i] = <<>>],
         InUse' <= ReqSlots, uart' = Torn(uart, i) \/ uart' = Torn(Woken(uart), i),
         lines' = lines, sent' = sent, fault' \in {"none", "rx", "write"}
  PROVE  LinkIInv'
<1>1. /\ handle' = [handle EXCEPT ![i] = 0] /\ stage' = [stage EXCEPT ![i] = "none"]
      /\ wp' = [wp EXCEPT ![i] = NoWrite] /\ gen' = [gen EXCEPT ![i] = 0]
      /\ link' = [link EXCEPT ![i] = "none"] /\ made' = made
  BY Zenon DEF ClearEntry, ClearHandle
<1> DEFINE T == [pc : Writing \cup {"idle", "lookup"}, node : Nodes,
                 handle : 0..MaxLinks, torn : BOOLEAN]
<1>2. /\ uart' \in T /\ uart'.node = uart.node /\ uart'.handle = uart.handle
      /\ uart'.pc \in Writing => uart.pc \in Writing
      /\ uart'.pc # "found" => uart.pc # "found"
      /\ uart'.pc \notin {"found", "handle_set"} => uart.pc \notin {"found", "handle_set"}
      /\ ~uart'.torn => ~uart.torn /\ ~(uart.handle # 0 /\ uart.node = i)
  <2>1. uart \in T /\ Woken(uart) \in T
    BY WokenThread DEF LinkIInv, LinkBase
  <2>2. CASE uart' = Torn(uart, i)
    BY <2>1, <2>2, TornThread
  <2>3. CASE uart' = Torn(Woken(uart), i)
    <3>1. /\ uart' \in T /\ uart'.pc = Woken(uart).pc /\ uart'.node = Woken(uart).node
          /\ uart'.handle = Woken(uart).handle
          /\ ~uart'.torn => ~Woken(uart).torn /\ ~(Woken(uart).handle # 0 /\ Woken(uart).node = i)
      BY <2>1, <2>3, TornThread
    <3>2. /\ Woken(uart).node = uart.node /\ Woken(uart).handle = uart.handle
          /\ Woken(uart).torn = uart.torn
          /\ Woken(uart).pc = IF uart.pc = "blocked" THEN "holding" ELSE uart.pc
      BY WokenThread DEF LinkIInv
    <3> QED
      BY <3>1, <3>2 DEF Writing
  <2> QED
    BY <2>2, <2>3
<1>3. LinkBase'
  <2>1. att' \in [Nodes -> Seq(Reqs)]
    BY EmptySeq DEF LinkIInv, LinkBase
  <2>2. /\ handle' \in [Nodes -> 0..MaxLinks] /\ gen' \in [Nodes -> 0..MaxLinks]
        /\ stage' \in [Nodes -> {"none", "svc", "tx", "ccc"}]
        /\ link' \in [Nodes -> {"none", "opening", "up", "lost"}]
        /\ wp' \in [Nodes -> [func : BOOLEAN, handle : 0..MaxLinks]]
    BY <1>1, LinkAssumption DEF LinkIInv, LinkBase, NoWrite
  <2> QED
    BY <1>1, <1>2, <2>1, <2>2 DEF LinkIInv, LinkBase, Reqs
<1>4. ASSUME NEW j \in Nodes PROVE EntryOK(j)'
  <2>1. CASE j # i
    <3>1. /\ handle'[j] = handle[j] /\ gen'[j] = gen[j] /\ stage'[j] = stage[j]
          /\ link'[j] = link[j] /\ wp'[j] = wp[j] /\ att'[j] = att[j]
      BY <1>1, <2>1 DEF LinkIInv, LinkBase
    <3> QED
      BY <3>1 DEF LinkIInv, EntryOK
  <2>2. CASE j = i
    <3>1. handle'[i] = 0 /\ stage'[i] = "none" /\ att'[i] = <<>>
      BY <1>1 DEF LinkIInv, LinkBase
    <3> QED
      BY <2>2, <3>1 DEF EntryOK
  <2> QED
    BY <2>1, <2>2
<1>5. ThreadOK'
  <2> SUFFICES ASSUME uart'.pc \in Writing, ~uart'.torn
               PROVE  /\ uart'.handle # 0 /\ link'[uart'.node] \in {"up", "lost"}
                      /\ uart'.handle = gen'[uart'.node]
                      /\ uart'.pc # "found" => wp'[uart'.node].handle = uart'.handle
                      /\ uart'.pc \notin {"found", "handle_set"} => wp'[uart'.node].func
    BY DEF ThreadOK
  <2>1. /\ uart.handle # 0 /\ uart.node # i /\ uart.node \in Nodes
        /\ link[uart.node] \in {"up", "lost"} /\ uart.handle = gen[uart.node]
        /\ uart.pc # "found" => wp[uart.node].handle = uart.handle
        /\ uart.pc \notin {"found", "handle_set"} => wp[uart.node].func
    BY <1>2 DEF LinkIInv, LinkBase, ThreadOK
  <2>2. /\ link'[uart.node] = link[uart.node] /\ gen'[uart.node] = gen[uart.node]
        /\ wp'[uart.node] = wp[uart.node]
    BY <1>1, <2>1 DEF LinkIInv, LinkBase
  <2> QED
    BY <1>2, <2>1, <2>2
<1> QED
  BY <1>3, <1>4, <1>5 DEF LinkIInv

LEMMA DisconnectedKeepsIInv ==
  ASSUME LinkIInv, NEW i \in Nodes, Disconnected(i)
  PROVE  LinkIInv'
<1>1. /\ ClearEntry(i) /\ att' = [att EXCEPT ![i] = <<>>] /\ lines' = lines /\ sent' = sent
      /\ uart' = Torn(IF att[i] = <<>> THEN uart ELSE Woken(uart), i)
  BY Zenon DEF Disconnected
<1>2. fault' \in {"none", "rx", "write"}
  <2>1. fault' = IF FlushFaults(i) THEN "rx" ELSE IF StrayFaults(i) THEN "write" ELSE "none"
    BY Zenon DEF Disconnected
  <2> QED
    BY <2>1, Zenon
<1> DEFINE T == [pc : Writing \cup {"idle", "lookup"}, node : Nodes,
                 handle : 0..MaxLinks, torn : BOOLEAN]
<1>3. uart \in T /\ Woken(uart) \in T /\ Woken(uart).pc = IF uart.pc = "blocked" THEN "holding" ELSE uart.pc
  BY WokenThread DEF LinkIInv, LinkBase
<1>4. /\ InUse \in Nat /\ Len(att[i]) \in Nat /\ Len(<<>>) = 0
      /\ Held \in {0, 1} /\ Held' \in {0, 1}
      /\ InUse' = InUse - Len(att[i]) + Len(<<>>) - Held + Held'
  BY <1>1, EmptySeq, InUseChanges DEF LinkIInv, LinkBase
<1>5. InUse <= ReqSlots /\ ReqSlots \in Nat
  BY LinkAssumption DEF LinkIInv, LinkBase
<1>6. CASE att[i] = <<>>
  <2>1. uart' = Torn(uart, i)
    BY <1>1, <1>6
  <2>2. uart'.pc = uart.pc
    BY <1>3, <2>1, TornThread
  <2>3. Held' = Held /\ att' = att
    BY <1>1, <1>6, <2>2 DEF Held, LinkIInv, LinkBase
  <2>4. InUse' = InUse
    BY <2>2, <2>3 DEF InUse
  <2> QED
    BY <1>1, <1>2, <1>5, <2>1, <2>4, ClearKeepsIInv
<1>7. CASE att[i] # <<>>
  <2>1. uart' = Torn(Woken(uart), i)
    BY <1>1, <1>7
  <2>2. Len(att[i]) > 0
    BY <1>7, EmptySeq, LenProperties DEF LinkIInv, LinkBase
  <2>3. 0 \in Nat /\ Len(<<>>) < Len(att[i]) /\ Len(<<>>) \in Nat
    BY <1>4, <2>2
  <2>4. InUse' <= ReqSlots
    BY <1>4, <1>5, <2>3, SlabSum
  <2> QED
    BY <1>1, <1>2, <2>1, <2>4, ClearKeepsIInv
<1> QED
  BY <1>6, <1>7

(* An entry is taken, a link comes up or breaks: the queues stay.          *)
LEMMA LinkKeepsIInv ==
  ASSUME LinkIInv, NEW i \in Nodes, LinkNext(i)
  PROVE  LinkIInv'
<1>1. CASE Opens(i)
  <2>1. /\ link[i] = "none" /\ link' = [link EXCEPT ![i] = "opening"]
        /\ UNCHANGED <<made, gen, handle, stage, wp, att, lines, sent, uart, fault>>
    BY <1>1 DEF Opens, entryVars, uartVars
  <2>2. InUse' = InUse
    BY <2>1 DEF InUse
  <2>3. LinkBase'
    BY <2>1, <2>2 DEF LinkIInv, LinkBase, Reqs
  <2>4. \A j \in Nodes : EntryOK(j)'
    BY <2>1 DEF LinkIInv, LinkBase, EntryOK
  <2>5. ThreadOK'
    BY <2>1 DEF LinkIInv, LinkBase, ThreadOK
  <2> QED
    BY <2>3, <2>4, <2>5 DEF LinkIInv
<1>2. CASE LinkUp(i)
  <2>1. /\ link[i] = "opening" /\ link' = [link EXCEPT ![i] = "up"]
        /\ made' = made + 1 /\ gen' = [gen EXCEPT ![i] = made + 1] /\ made < MaxLinks
        /\ UNCHANGED <<handle, stage, wp, att, lines, sent, uart, fault>>
    BY <1>2 DEF LinkUp, entryVars, uartVars
  <2>2. InUse' = InUse
    BY <2>1 DEF InUse
  <2>3. LinkBase'
    <3>1. made + 1 \in 0..MaxLinks
      BY <2>1, LinkAssumption DEF LinkIInv, LinkBase
    <3>2. gen' \in [Nodes -> 0..MaxLinks] /\ link' \in [Nodes -> {"none", "opening", "up", "lost"}]
      BY <2>1, <3>1 DEF LinkIInv, LinkBase
    <3> QED
      BY <2>1, <2>2, <3>1, <3>2 DEF LinkIInv, LinkBase, Reqs
  <2>4. \A j \in Nodes : EntryOK(j)'
    BY <2>1 DEF LinkIInv, LinkBase, EntryOK
  <2>5. ThreadOK'
    BY <2>1 DEF LinkIInv, LinkBase, ThreadOK
  <2> QED
    BY <2>3, <2>4, <2>5 DEF LinkIInv
<1>3. CASE LinkLost(i)
  <2>1. /\ link[i] = "up" /\ link' = [link EXCEPT ![i] = "lost"]
        /\ UNCHANGED <<made, gen, handle, stage, wp, att, lines, sent, uart, fault>>
    BY <1>3 DEF LinkLost, entryVars, uartVars
  <2>2. InUse' = InUse
    BY <2>1 DEF InUse
  <2>3. LinkBase'
    BY <2>1, <2>2 DEF LinkIInv, LinkBase, Reqs
  <2>4. \A j \in Nodes : EntryOK(j)'
    BY <2>1 DEF LinkIInv, LinkBase, EntryOK
  <2>5. ThreadOK'
    BY <2>1 DEF LinkIInv, LinkBase, ThreadOK
  <2> QED
    BY <2>3, <2>4, <2>5 DEF LinkIInv
<1>4. CASE ConnectFails(i)
  <2>1. /\ link[i] = "opening" /\ ClearEntry(i) /\ uart' = Torn(uart, i)
        /\ UNCHANGED <<att, lines, sent, fault>>
    BY <1>4 DEF ConnectFails
  <2>2. att[i] = <<>>
    BY <2>1 DEF LinkIInv, EntryOK
  <2>3. att' = [att EXCEPT ![i] = <<>>]
    BY <2>1, <2>2 DEF LinkIInv, LinkBase
  <2>4. uart'.pc = uart.pc
    BY <2>1, TornThread DEF LinkIInv, LinkBase
  <2>5. InUse' = InUse
    BY <2>1, <2>4 DEF InUse
  <2> QED
    BY <2>1, <2>3, <2>5, ClearKeepsIInv DEF LinkIInv, LinkBase
<1> QED
  BY <1>1, <1>2, <1>3, <1>4, DisconnectedKeepsIInv DEF LinkNext

(* The answers of the node, each with what its callback queues.            *)
LEMMA RxKeepsIInv ==
  ASSUME LinkIInv, NEW i \in Nodes, RxNext(i)
  PROVE  LinkIInv'
<1>1. /\ Req("tx", 0) \in Reqs /\ Req("ccc", 0) \in Reqs /\ Req("sub", 0) \in Reqs
      /\ Req("rx", 1) \in Reqs
      /\ Req("tx", 0).kind = "tx" /\ Req("ccc", 0).kind = "ccc" /\ Req("sub", 0).kind = "sub"
      /\ \A n : Req("rx", n).kind = "rx"
  BY LinkAssumption DEF Req, Reqs, Kinds
<1>2. fault \in {"none", "rx", "write"} /\ stage \in [Nodes -> {"none", "svc", "tx", "ccc"}]
  BY DEF LinkIInv, LinkBase
<1>a. ASSUME NEW kinds, Answered(i, kinds), NEW reqs \in Seq(Reqs),
             \A k \in 1..Len(reqs) : reqs[k].kind # "write", Requests(i, reqs)
      PROVE  \E q : MovedOn(q, att[i], reqs, Room) /\ att' = [att EXCEPT ![i] = q]
  BY <1>a DEF Requests, MovedOn, LinkIInv, LinkBase
<1>b. ASSUME att' = [att EXCEPT ![i] = Tail(@)]
      PROVE  \E q : MovedOn(q, att[i], <<>>, Room) /\ att' = [att EXCEPT ![i] = q]
  BY <1>b DEF MovedOn, LinkIInv, LinkBase
<1>c. <<>> \in Seq(Reqs) /\ \A k \in 1..Len(<<>>) : <<>>[k].kind # "write"
  BY EmptySeq
<1>3. CASE StageFound(i)
  <2> DEFINE k == Head(att[i]).kind
  <2>1. /\ Answered(i, {"svc", "tx"}) /\ Requests(i, AfterStage(k))
        /\ stage' = [stage EXCEPT ![i] = NextStage(k)] /\ UNCHANGED <<handle, wp, fault>>
    BY <1>3 DEF StageFound
  <2>2. NextStage(k) \in {"svc", "tx", "ccc"} /\ NextStage(k) \in {"tx", "ccc"}
    BY DEF NextStage
  <2>3. AfterStage(k) \in Seq(Reqs) /\ \A n \in 1..Len(AfterStage(k)) : AfterStage(k)[n].kind # "write"
    BY <1>1, <2>2 DEF AfterStage
  <2> HIDE DEF k
  <2>4. PICK q : MovedOn(q, att[i], AfterStage(k), Room) /\ att' = [att EXCEPT ![i] = q]
    BY <1>a, <2>1, <2>3
  <2> QED
    BY <1>2, <2>1, <2>2, <2>3, <2>4, CallbackKeepsIInv
<1>4. CASE CccFound(i)
  <2> DEFINE reqs == <<Req("sub", 0), Req("rx", 1)>>
  <2>1. Answered(i, {"ccc"}) /\ Requests(i, reqs) /\ UNCHANGED <<handle, stage, wp, fault>>
    BY <1>4, Zenon DEF CccFound
  <2>2. reqs \in Seq(Reqs) /\ \A n \in 1..Len(reqs) : reqs[n].kind # "write"
    BY <1>1
  <2> HIDE DEF reqs
  <2>3. PICK q : MovedOn(q, att[i], reqs, Room) /\ att' = [att EXCEPT ![i] = q]
    BY <1>a, <2>1, <2>2
  <2> QED
    BY <1>2, <2>1, <2>2, <2>3, CallbackKeepsIInv
<1>5. RxFault(i) \in {"none", "rx", "write"} /\ WriteFault(i) \in {"none", "rx", "write"}
  BY Zenon DEF RxFault, WriteFault
<1>6. CASE RxFound(i)
  <2>1. /\ Answered(i, {"rx"}) /\ att' = [att EXCEPT ![i] = Tail(@)]
        /\ fault' = RxFault(i) /\ UNCHANGED <<stage, wp>>
    BY <1>6, Zenon DEF RxFound
  <2>2. handle' = handle \/ handle' = [handle EXCEPT ![i] = gen[i]]
    <3>1. handle' = [handle EXCEPT ![i] = IF rxSet[i] THEN gen[i] ELSE handle[i]]
      BY <1>6, Zenon DEF RxFound
    <3>2. CASE rxSet[i]
      BY <3>1, <3>2
    <3>3. CASE ~rxSet[i]
      BY <3>1, <3>3 DEF LinkIInv, LinkBase
    <3> QED
      BY <3>2, <3>3
  <2>3. PICK q : MovedOn(q, att[i], <<>>, Room) /\ att' = [att EXCEPT ![i] = q]
    BY <1>b, <2>1
  <2> QED
    BY <1>c, <1>5, <2>1, <2>2, <2>3, CallbackKeepsIInv
<1>7. CASE RxGoesOn(i)
  <2> DEFINE n == Head(att[i]).arg + 1
             reqs == <<Req("rx", n)>>
  <2>1. /\ Answered(i, {"rx"}) /\ Requests(i, reqs) /\ Head(att[i]).arg < RxRounds
        /\ fault' = RxFault(i) /\ UNCHANGED <<handle, stage, wp>>
    BY <1>7, Zenon DEF RxGoesOn
  <2>2. Head(att[i]) \in Reqs
    BY <2>1, AnswerKeeps, HeadTailProperties DEF LinkIInv, LinkBase
  <2>3. n \in 0..(MaxLinks + RxRounds)
    BY <2>1, <2>2, LinkAssumption DEF Reqs
  <2> HIDE DEF n
  <2>4. Req("rx", n) \in Reqs
    BY <2>3 DEF Req, Reqs, Kinds
  <2>5. reqs \in Seq(Reqs) /\ \A k \in 1..Len(reqs) : reqs[k].kind # "write"
    BY <1>1, <2>4
  <2> HIDE DEF reqs
  <2>6. PICK q : MovedOn(q, att[i], reqs, Room) /\ att' = [att EXCEPT ![i] = q]
    BY <1>a, <2>1, <2>5
  <2> QED
    BY <1>5, <2>1, <2>5, <2>6, CallbackKeepsIInv
<1>8. CASE OtherAnswered(i)
  <2>1. /\ Answered(i, {"mtu", "sub"}) /\ att' = [att EXCEPT ![i] = Tail(@)]
        /\ UNCHANGED <<handle, stage, wp, fault>>
    BY <1>8 DEF OtherAnswered, entryVars
  <2>2. PICK q : MovedOn(q, att[i], <<>>, Room) /\ att' = [att EXCEPT ![i] = q]
    BY <1>b, <2>1
  <2> QED
    BY <1>2, <1>c, <2>1, <2>2, CallbackKeepsIInv
<1>9. CASE WriteAnswered(i)
  <2>1. /\ Answered(i, {"write", "stray"}) /\ att' = [att EXCEPT ![i] = Tail(@)]
        /\ fault' = WriteFault(i) /\ UNCHANGED <<handle, stage, wp>>
    BY <1>9, Zenon DEF WriteAnswered, entryVars
  <2>2. PICK q : MovedOn(q, att[i], <<>>, Room) /\ att' = [att EXCEPT ![i] = q]
    BY <1>b, <2>1
  <2> QED
    BY <1>5, <1>c, <2>1, <2>2, CallbackKeepsIInv
<1> QED
  BY <1>3, <1>4, <1>6, <1>7, <1>8, <1>9, ConnectedKeepsIInv DEF RxNext

LEMMA NatSum == ASSUME NEW a \in Nat, NEW b \in Nat PROVE a + b \in Nat
OBVIOUS

LEMMA ThreadSum ==
  ASSUME NEW R \in Nat, NEW n \in Nat, NEW h, NEW h1, NEW u, NEW v,
         u = n + h, v = n + h1, u <= R,
         \/ h = 0 /\ h1 = 0
         \/ h = 1 /\ h1 = 0
         \/ h = 1 /\ h1 = 1
         \/ u < R /\ h = 0 /\ h1 = 1
  PROVE  v <= R
OBVIOUS

(* A step of the thread that leaves queues and write_params alone.         *)
LEMMA ThreadMoves ==
  ASSUME LinkIInv,
         UNCHANGED <<link, made, gen, handle, stage, wp, att, fault>>,
         lines' \in 0..QueueSize, sent' \in 0..MaxLines,
         uart' \in [pc : Writing \cup {"idle", "lookup"}, node : Nodes,
                    handle : 0..MaxLinks, torn : BOOLEAN],
         Held' <= Held \/ InUse < ReqSlots, ThreadOK'
  PROVE  LinkIInv'
<1>1. InUse \in Nat /\ InUse <= ReqSlots /\ ReqSlots \in Nat /\ Len(att[1]) \in Nat /\ Len(att[2]) \in Nat
  BY LinkAssumption, LenProperties DEF LinkIInv, LinkBase, InUse, Nodes
<1>2. InUse = Len(att[1]) + Len(att[2]) + Held /\ InUse' = Len(att[1]) + Len(att[2]) + Held'
  BY DEF InUse, Held
<1>3. Held \in {0, 1} /\ Held' \in {0, 1}
  BY DEF Held
<1>4. InUse' <= ReqSlots
  <2> DEFINE n == Len(att[1]) + Len(att[2])
  <2>1. n \in Nat
    BY <1>1, NatSum, Zenon
  <2>3. InUse = n + Held /\ InUse' = n + Held'
    BY <1>2, Zenon
  <2> HIDE DEF n
  <2>2. \/ Held = 0 /\ Held' = 0
        \/ Held = 1 /\ Held' = 0
        \/ Held = 1 /\ Held' = 1
        \/ InUse < ReqSlots /\ Held = 0 /\ Held' = 1
    BY <1>3
  <2> QED
    BY <1>1, <2>1, <2>2, <2>3, ThreadSum
<1>5. LinkBase'
  BY <1>4 DEF LinkIInv, LinkBase, Reqs
<1>6. \A j \in Nodes : EntryOK(j)'
  BY DEF LinkIInv, EntryOK
<1> QED
  BY <1>5, <1>6 DEF LinkIInv

(* The UART thread carries the handle from its look-up to its write.       *)
LEMMA UartKeepsIInv == ASSUME LinkIInv, LineArrives \/ UartNext PROVE LinkIInv'
<1> DEFINE T == [pc : Writing \cup {"idle", "lookup"}, node : Nodes,
                 handle : 0..MaxLinks, torn : BOOLEAN]
<1>1. uart \in T /\ lines \in 0..QueueSize /\ sent \in 0..MaxLines
  BY DEF LinkIInv, LinkBase
<1>2. UartIdle \in T /\ UartIdle.pc = "idle"
  BY LinkAssumption DEF UartIdle, Nodes
<1>3. CASE LineArrives
  <2>1. UNCHANGED <<link, made, gen, handle, stage, wp, att, fault, uart>>
    BY <1>3 DEF LineArrives, linkVars, entryVars
  <2>2. sent' \in 0..MaxLines /\ lines' \in 0..QueueSize
    BY <1>1, <1>3, LinkAssumption DEF LineArrives, Queued
  <2>3. ThreadOK' /\ Held' = Held /\ Held \in {0, 1}
    BY <2>1 DEF LinkIInv, ThreadOK, Held
  <2> QED
    BY <1>1, <2>1, <2>2, <2>3, ThreadMoves
<1>4. ASSUME UartNext PROVE UNCHANGED <<link, made, gen, handle, stage, sent>>
  BY <1>4 DEF UartNext, UartTakesLine, UartLooksUp, UartSetsHandle, UartSetsFunc, UartAllocates,
     UartGivesUp, UartSends, UartUnchanged, linkVars
<1>5. CASE UartTakesLine
  <2>1. /\ uart.pc = "idle" /\ lines > 0 /\ lines' = lines - 1
        /\ uart' = [uart EXCEPT !.pc = "lookup"] /\ UNCHANGED <<wp, att, fault>>
    BY <1>5 DEF UartTakesLine
  <2>2. uart' \in T /\ uart'.pc = "lookup" /\ lines' \in 0..QueueSize
    BY <1>1, <2>1, LinkAssumption
  <2>3. ThreadOK' /\ Held' = 0 /\ Held = 0
    BY <2>1, <2>2 DEF ThreadOK, Held, Writing
  <2> QED
    BY <1>1, <1>4, <1>5, <2>1, <2>2, <2>3, ThreadMoves DEF UartNext
<1>6. CASE UartLooksUp
  <2>1. uart.pc = "lookup" /\ UNCHANGED <<lines, wp, att, fault>>
    BY <1>6 DEF UartLooksUp
  <2>2. CASE uart' = UartIdle
    <3>1. ThreadOK' /\ Held' = 0 /\ Held = 0
      BY <1>2, <2>1, <2>2 DEF ThreadOK, Held, Writing
    <3> QED
      BY <1>1, <1>2, <1>4, <1>6, <2>1, <2>2, <3>1, ThreadMoves DEF UartNext
  <2>3. CASE \E i \in Nodes : /\ link[i] # "none" /\ handle[i] # 0
               /\ uart' = [pc |-> "found", node |-> i, handle |-> handle[i], torn |-> FALSE]
    <3>1. PICK i \in Nodes : /\ link[i] # "none" /\ handle[i] # 0
               /\ uart' = [pc |-> "found", node |-> i, handle |-> handle[i], torn |-> FALSE]
      BY <2>3
    <3>2. handle[i] = gen[i] /\ link[i] \in {"up", "lost"} /\ handle[i] \in 0..MaxLinks
      BY <3>1 DEF LinkIInv, LinkBase, EntryOK
    <3>3. uart' \in T /\ uart'.pc = "found" /\ uart'.node = i /\ uart'.handle = handle[i]
      BY <3>1, <3>2 DEF Writing
    <3>4. ThreadOK' /\ Held' = 0 /\ Held = 0
      BY <1>4, <1>6, <2>1, <3>1, <3>2, <3>3 DEF ThreadOK, Held, UartNext
    <3> QED
      BY <1>1, <1>4, <1>6, <2>1, <3>3, <3>4, ThreadMoves DEF UartNext
  <2> QED
    BY <1>6, <2>2, <2>3 DEF UartLooksUp
<1>7. CASE UartSetsHandle \/ UartSetsFunc
  <2>1. /\ uart.pc \in {"found", "handle_set"} /\ UNCHANGED <<lines, att, fault>>
        /\ \/ /\ uart.pc = "found" /\ uart' = [uart EXCEPT !.pc = "handle_set"]
              /\ wp' = [wp EXCEPT ![uart.node].handle = uart.handle]
           \/ /\ uart.pc = "handle_set" /\ uart' = [uart EXCEPT !.pc = "prepared"]
              /\ wp' = [wp EXCEPT ![uart.node].func = TRUE]
    BY <1>7 DEF UartSetsHandle, UartSetsFunc
  <2>2. /\ uart' \in T /\ uart'.pc \in {"handle_set", "prepared"} /\ uart'.node = uart.node
        /\ uart'.handle = uart.handle /\ uart'.torn = uart.torn /\ uart.node \in Nodes
    BY <1>1, <2>1 DEF Writing
  <2>3. /\ wp' \in [Nodes -> [func : BOOLEAN, handle : 0..MaxLinks]]
        /\ \A j \in Nodes : wp[j].func => wp'[j].func
        /\ uart.pc = "found" => wp'[uart.node].handle = uart.handle
        /\ uart.pc = "handle_set" => wp'[uart.node].handle = wp[uart.node].handle /\ wp'[uart.node].func
    <3>1. /\ wp \in [Nodes -> [func : BOOLEAN, handle : 0..MaxLinks]]
          /\ uart.node \in Nodes /\ uart.handle \in 0..MaxLinks
      BY <1>1 DEF LinkIInv, LinkBase
    <3>2. CASE uart.pc = "found"
      <4>1. wp' = [wp EXCEPT ![uart.node].handle = uart.handle]
        BY <2>1, <3>2
      <4>2. \A j \in Nodes : wp'[j].func = wp[j].func
        BY <3>1, <4>1
      <4> QED
        BY <3>1, <3>2, <4>1, <4>2
    <3>3. CASE uart.pc = "handle_set"
      <4>1. wp' = [wp EXCEPT ![uart.node].func = TRUE]
        BY <2>1, <3>3
      <4>2. \A j \in Nodes : wp[j].func => wp'[j].func
        BY <3>1, <4>1
      <4> QED
        BY <3>1, <3>3, <4>1, <4>2
    <3> QED
      BY <2>1, <3>2, <3>3
  <2>4. InUse' = InUse
    BY <2>1, <2>2 DEF InUse
  <2>5. LinkBase'
    BY <1>4, <1>7, <2>1, <2>2, <2>3, <2>4 DEF LinkIInv, LinkBase, Reqs, UartNext
  <2>6. \A j \in Nodes : EntryOK(j)'
    BY <1>4, <1>7, <2>1, <2>3 DEF LinkIInv, EntryOK, UartNext
  <2>7. ThreadOK'
    BY <1>4, <1>7, <2>1, <2>2, <2>3 DEF LinkIInv, ThreadOK, UartNext, Writing
  <2> QED
    BY <2>5, <2>6, <2>7 DEF LinkIInv
<1>8. CASE UartAllocates \/ UartGivesUp
  <2>1. UNCHANGED <<lines, wp, att, fault>> /\ uart.pc \in {"prepared", "blocked"}
    BY <1>8 DEF UartAllocates, UartGivesUp
  <2>2. CASE uart' = UartIdle
    <3>1. ThreadOK' /\ Held' = 0 /\ Held = 0
      BY <1>2, <2>1, <2>2 DEF ThreadOK, Held, Writing
    <3> QED
      BY <1>1, <1>2, <1>4, <1>8, <2>1, <2>2, <3>1, ThreadMoves DEF UartNext
  <2>3. CASE \E p \in {"holding", "blocked"} :
               /\ uart' = [uart EXCEPT !.pc = p] /\ uart.pc = "prepared"
               /\ p = "holding" => InUse < ReqSlots
    <3>1. PICK p \in {"holding", "blocked"} :
               /\ uart' = [uart EXCEPT !.pc = p] /\ uart.pc = "prepared"
               /\ p = "holding" => InUse < ReqSlots
      BY <2>3
    <3>2. uart' \in T /\ uart'.pc = p /\ uart'.node = uart.node /\ uart'.handle = uart.handle
          /\ uart'.torn = uart.torn
      BY <1>1, <3>1 DEF Writing
    <3>3. ThreadOK'
      BY <1>4, <1>8, <2>1, <3>1, <3>2 DEF LinkIInv, ThreadOK, UartNext, Writing
    <3>4. Held' <= Held \/ InUse < ReqSlots
      BY <3>1, <3>2 DEF Held
    <3> QED
      BY <1>1, <1>4, <1>8, <2>1, <3>2, <3>3, <3>4, ThreadMoves DEF UartNext
  <2>4. uart' = UartIdle \/ \E p \in {"holding", "blocked"} :
               /\ uart' = [uart EXCEPT !.pc = p] /\ uart.pc = "prepared"
               /\ p = "holding" => InUse < ReqSlots
    BY <1>8 DEF UartAllocates, UartGivesUp
  <2> QED
    BY <2>2, <2>3, <2>4
<1>9. CASE UartSends
  <2> DEFINE n == uart.node
             r == Req(IF uart.torn THEN "stray" ELSE "write", wp[n].handle)
  <2>1. /\ uart.pc = "holding" /\ uart' = UartIdle /\ UNCHANGED <<lines, wp, fault>>
        /\ att' = IF link[n] = "up" THEN [att EXCEPT ![n] = Append(att[n], r)] ELSE att
    BY <1>9 DEF UartSends, SendHandle
  <2>2. n \in Nodes /\ att[n] \in Seq(Reqs) /\ r \in Reqs /\ (r.kind = "write" <=> ~uart.torn)
        /\ r.arg = wp[n].handle
    <3>1. n \in Nodes /\ wp[n].handle \in 0..MaxLinks /\ att[n] \in Seq(Reqs)
      BY <1>1 DEF LinkIInv, LinkBase
    <3>2. wp[n].handle \in 0..(MaxLinks + RxRounds)
      BY <3>1, LinkAssumption
    <3> QED
      BY <3>1, <3>2 DEF Req, Reqs, Kinds
  <2>3. Held = 1 /\ Held' = 0 /\ uart' \in T /\ uart'.pc = "idle"
    BY <1>2, <2>1 DEF Held
  <2>4. ThreadOK'
    BY <2>3 DEF ThreadOK, Writing
  <2>5. CASE link[n] # "up"
    <3>1. UNCHANGED att /\ Held' <= Held
      BY <2>1, <2>3, <2>5
    <3> QED
      BY <1>1, <1>4, <1>9, <2>1, <2>3, <2>4, <3>1, ThreadMoves DEF UartNext
  <2>6. CASE link[n] = "up"
    <3> HIDE DEF r
    <3>1. /\ Append(att[n], r) \in Seq(Reqs) /\ Len(Append(att[n], r)) = Len(att[n]) + 1
          /\ Len(att[n]) \in Nat
          /\ \A k \in DOMAIN Append(att[n], r) :
               Append(att[n], r)[k] = r \/ (k \in DOMAIN att[n] /\ Append(att[n], r)[k] = att[n][k])
      BY <2>2, AppendProperties, LenProperties
    <3>2. att' = [att EXCEPT ![n] = Append(att[n], r)]
      BY <2>1, <2>6
    <3>3. InUse' <= ReqSlots
      <4>1. /\ InUse \in Nat /\ Len(att[n]) \in Nat /\ Len(Append(att[n], r)) \in Nat
            /\ InUse' = InUse - Len(att[n]) + Len(Append(att[n], r)) - Held + Held'
        BY <2>2, <3>1, <3>2, InUseChanges DEF LinkIInv, LinkBase
      <4>2. InUse <= ReqSlots /\ ReqSlots \in Nat
        BY LinkAssumption DEF LinkIInv, LinkBase
      <4> QED
        BY <2>3, <3>1, <4>1, <4>2, SlabSum
    <3>4. LinkBase'
      <4>1. att' \in [Nodes -> Seq(Reqs)]
        BY <2>2, <3>1, <3>2 DEF LinkIInv, LinkBase
      <4> QED
        BY <1>4, <1>9, <2>1, <2>3, <3>3, <4>1 DEF LinkIInv, LinkBase, Reqs, UartNext
    <3>5. ASSUME NEW j \in Nodes PROVE EntryOK(j)'
      <4>1. CASE j # n
        <5>1. att'[j] = att[j]
          BY <2>2, <3>2, <4>1 DEF LinkIInv, LinkBase
        <5>2. EntryOK(j) /\ UNCHANGED <<link, gen, handle, stage, wp>>
          BY <1>4, <1>9, <2>1 DEF LinkIInv, UartNext
        <5> QED
          BY <5>1, <5>2 DEF EntryOK
      <4>2. CASE j = n
        <5>1. att'[n] = Append(att[n], r)
          BY <2>2, <3>2 DEF LinkIInv, LinkBase
        <5>2. r.kind = "write" => r.arg = gen[n] /\ wp[n].func
          BY <2>1, <2>2 DEF LinkIInv, ThreadOK, Writing
        <5>3. ASSUME NEW k \in DOMAIN att'[n], att'[n][k].kind = "write"
              PROVE  att'[n][k].arg = gen[n] /\ wp[n].func
          <6>1. CASE att'[n][k] = r
            BY <5>2, <5>3, <6>1
          <6>2. CASE k \in DOMAIN att[n] /\ att'[n][k] = att[n][k]
            BY <2>2, <5>3, <6>2 DEF LinkIInv, EntryOK
          <6> QED
            BY <3>1, <5>1, <6>1, <6>2
        <5>4. handle'[n] = handle[n] /\ gen'[n] = gen[n] /\ link'[n] = "up" /\ wp'[n] = wp[n]
          BY <1>4, <1>9, <2>1, <2>6 DEF UartNext
        <5> QED
          BY <2>2, <4>2, <5>3, <5>4 DEF LinkIInv, EntryOK
      <4> QED
        BY <4>1, <4>2
    <3> QED
      BY <2>4, <3>4, <3>5 DEF LinkIInv
  <2> QED
    BY <2>5, <2>6
<1> QED
  BY <1>3, <1>5, <1>6, <1>7, <1>8, <1>9 DEF UartNext

LEMMA LinkIInvHolds == Spec => []LinkIInv
<1>1. LinkIInv /\ [Next]_vars => LinkIInv'
  <2> SUFFICES ASSUME LinkIInv, [Next]_vars PROVE LinkIInv'
    OBVIOUS
  <2>1. CASE UNCHANGED vars
    <3>1. UNCHANGED <<link, made, gen, handle, stage, wp, att, lines, sent, uart, fault>>
      BY <2>1 DEF vars, linkVars, entryVars, uartVars
    <3>2. InUse' = InUse
      BY <3>1 DEF InUse
    <3>3. LinkBase'
      BY <3>1, <3>2 DEF LinkIInv, LinkBase, Reqs
    <3>4. ThreadOK'
      BY <3>1 DEF LinkIInv, ThreadOK
    <3>5. ASSUME NEW i \in Nodes PROVE EntryOK(i)'
      BY <3>1 DEF LinkIInv, EntryOK
    <3> QED
      BY <3>3, <3>4, <3>5 DEF LinkIInv
  <2> QED
    BY <2>1, RxKeepsIInv, LinkKeepsIInv, UartKeepsIInv DEF Next
<1> QED
  BY <1>1, InitLinkIInv, PTL DEF Spec

(* Unless its entry is wiped while the thread is at work on it, a command  *)
(* goes out with the handle that was read on this very connection, and its *)
(* answer finds write_func: however long the thread waits for a request    *)
(* that either link has to free, and whoever connects meanwhile.           *)
THEOREM WritesGoToOwnHandle == Spec => []WritesUseOwnHandle
<1>1. LinkIInv => WritesUseOwnHandle
  BY DEF LinkIInv, EntryOK, WritesUseOwnHandle, Pending
<1> QED
  BY <1>1, LinkIInvHolds, PTL

-----------------------------------------------------------------------------
(* The types of the Boolean variables.                                     *)

LEMMA FlagChanges ==
  ASSUME NEW f \in [Nodes -> BOOLEAN], NEW i \in Nodes, NEW b \in BOOLEAN, NEW g,
         g = [f EXCEPT ![i] = b]
  PROVE  /\ g \in [Nodes -> BOOLEAN]
         /\ g[i] = b /\ \A j \in Nodes : j # i => g[j] = f[j]
BY Zenon

LEMMA FlagsStay ==
  ASSUME LinkIInv, FlagsOK, [Next]_vars
  PROVE  FlagsOK'
<1>1. /\ rxSet \in [Nodes -> BOOLEAN] /\ subscribed \in [Nodes -> BOOLEAN]
      /\ refused \in [Nodes -> BOOLEAN]
  BY Zenon DEF FlagsOK
<1>2. ASSUME UNCHANGED <<rxSet, subscribed, refused>> PROVE FlagsOK'
  <2>1. rxSet' = rxSet /\ subscribed' = subscribed /\ refused' = refused
    BY <1>2
  <2> QED
    BY <1>1, <2>1, Zenon DEF FlagsOK
<1>3. ASSUME NEW i \in Nodes, NEW a \in BOOLEAN, NEW b \in BOOLEAN, NEW c \in BOOLEAN,
             rxSet' = rxSet \/ rxSet' = [rxSet EXCEPT ![i] = a],
             subscribed' = subscribed \/ subscribed' = [subscribed EXCEPT ![i] = b],
             refused' = refused \/ refused' = [refused EXCEPT ![i] = c]
      PROVE  FlagsOK'
  <2>1. rxSet' \in [Nodes -> BOOLEAN]
    BY <1>1, <1>3, FlagChanges, Zenon
  <2>2. subscribed' \in [Nodes -> BOOLEAN]
    BY <1>1, <1>3, FlagChanges, Zenon
  <2>3. refused' \in [Nodes -> BOOLEAN]
    BY <1>1, <1>3, FlagChanges, Zenon
  <2> QED
    BY <2>1, <2>2, <2>3, Zenon DEF FlagsOK
<1>4. ASSUME NEW i \in Nodes, RxNext(i) PROVE FlagsOK'
  <2>1. CASE Connected(i)
    <3>1. /\ rxSet' = [rxSet EXCEPT ![i] = TRUE] /\ subscribed' = subscribed
          /\ refused' = [refused EXCEPT ![i] = (link[i] = "up" /\ ReqSlots - InUse < 3)]
      BY <2>1, Zenon DEF Connected
    <3>2. (link[i] = "up" /\ ReqSlots - InUse < 3) \in BOOLEAN
      OBVIOUS
    <3> QED
      BY <1>3, <3>1, <3>2, Zenon
  <2>2. CASE StageFound(i)
    <3> DEFINE reqs == AfterStage(Head(att[i]).kind)
    <3>1. /\ rxSet' = rxSet /\ subscribed' = subscribed
          /\ refused' = [refused EXCEPT ![i] = (refused[i] \/ Room < Len(reqs))]
      BY <2>2, Zenon DEF StageFound, Requests
    <3>2. (refused[i] \/ Room < Len(reqs)) \in BOOLEAN
      OBVIOUS
    <3> QED
      BY <1>3, <3>1, <3>2, Zenon
  <2>3. CASE CccFound(i)
    <3> DEFINE reqs == <<Req("sub", 0), Req("rx", 1)>>
    <3>1. /\ rxSet' = [rxSet EXCEPT ![i] = (rxSet[i] \/ Room > 0)]
          /\ subscribed' = [subscribed EXCEPT ![i] = (Room > 0)]
          /\ refused' = [refused EXCEPT ![i] = (refused[i] \/ Room < Len(reqs))]
      BY <2>3, Zenon DEF CccFound, Requests
    <3>2. (refused[i] \/ Room < Len(reqs)) \in BOOLEAN
      OBVIOUS
    <3>3. (rxSet[i] \/ Room > 0) \in BOOLEAN
      OBVIOUS
    <3>4. (Room > 0) \in BOOLEAN
      OBVIOUS
    <3> HIDE DEF reqs
    <3> QED
      BY <1>3, <3>1, <3>2, <3>3, <3>4, Zenon
  <2>4. CASE RxGoesOn(i)
    <3> DEFINE reqs == <<Req("rx", Head(att[i]).arg + 1)>>
    <3>1. /\ rxSet' = [rxSet EXCEPT ![i] = (rxSet[i] /\ Room > 0)]
          /\ subscribed' = subscribed
          /\ refused' = [refused EXCEPT ![i] = (refused[i] \/ Room < Len(reqs))]
      BY <2>4, Zenon DEF RxGoesOn, Requests
    <3>2. (refused[i] \/ Room < Len(reqs)) \in BOOLEAN
      OBVIOUS
    <3>3. (rxSet[i] /\ Room > 0) \in BOOLEAN
      OBVIOUS
    <3> QED
      BY <1>3, <3>1, <3>2, <3>3, Zenon
  <2>5. CASE RxFound(i) \/ OtherAnswered(i) \/ WriteAnswered(i)
    <3>1. UNCHANGED <<rxSet, subscribed, refused>>
      BY <2>5 DEF RxFound, OtherAnswered, WriteAnswered, entryVars
    <3> QED
      BY <1>2, <3>1
  <2> QED
    BY <1>4, <2>1, <2>2, <2>3, <2>4, <2>5 DEF RxNext
<1>5. ASSUME NEW i \in Nodes, LinkNext(i) PROVE FlagsOK'
  <2>1. CASE Opens(i) \/ LinkUp(i) \/ LinkLost(i)
    <3>1. UNCHANGED <<rxSet, subscribed, refused>>
      BY <2>1 DEF Opens, LinkUp, LinkLost, entryVars
    <3> QED
      BY <1>2, <3>1
  <2>2. CASE ConnectFails(i) \/ Disconnected(i)
    <3>1. /\ rxSet' = [rxSet EXCEPT ![i] = FALSE] /\ refused' = [refused EXCEPT ![i] = FALSE]
          /\ subscribed' = subscribed \/ subscribed' = [subscribed EXCEPT ![i] = FALSE]
      BY <2>2, Zenon DEF ConnectFails, Disconnected, ClearEntry
    <3> QED
      BY <1>3, <3>1, Zenon
  <2> QED
    BY <1>5, <2>1, <2>2 DEF LinkNext
<1>6. CASE LineArrives \/ UartNext \/ UNCHANGED vars
  <2>1. UNCHANGED <<rxSet, subscribed, refused>>
    BY <1>6 DEF LineArrives, UartNext, UartTakesLine, UartLooksUp, UartSetsHandle, UartSetsFunc,
       UartAllocates, UartGivesUp, UartSends, UartUnchanged, entryVars, vars
  <2> QED
    BY <1>2, <2>1
<1> QED
  BY <1>4, <1>5, <1>6 DEF Next

LEMMA FlagsHold == Spec => [](LinkIInv /\ FlagsOK)
<1>1. Init => FlagsOK
  BY Zenon DEF Init, FlagsOK
<1> QED
  BY <1>1, FlagsStay, LinkIInvHolds, PTL DEF Spec

(* Every variable stays within its type, and the requests of both links     *)
(* never exceed the slab, the one a thread has in its hands included.      *)
THEOREM LinkTypesHold == Spec => []LinkTypeOK
<1>1. LinkIInv /\ FlagsOK => LinkTypeOK
  <2> SUFFICES ASSUME LinkIInv, FlagsOK PROVE LinkTypeOK
    OBVIOUS
  <2>1. /\ rxSet \in [Nodes -> BOOLEAN] /\ subscribed \in [Nodes -> BOOLEAN]
        /\ refused \in [Nodes -> BOOLEAN]
    BY Zenon DEF FlagsOK
  <2>2. uart \in [pc : {"idle", "lookup", "found", "handle_set", "prepared", "blocked", "holding"},
                  node : Nodes, handle : 0..MaxLinks, torn : BOOLEAN]
    BY DEF LinkIInv, LinkBase, Writing
  <2>3. LinkBase
    BY DEF LinkIInv
  <2> QED
    BY <2>1, <2>2, <2>3, Zenon DEF LinkBase, LinkTypeOK, Reqs
<1> QED
  BY <1>1, FlagsHold, PTL

-----------------------------------------------------------------------------
(* The two discoveries take turns, and no callback finds the block of the  *)
(* other one wiped, if the RX characteristic is found in two responses.    *)

NoDiscovery(reqs) == \A k \in DOMAIN reqs : reqs[k].kind \notin DiscoveryKinds

TurnsOK(i) ==
  /\ InTurn(att[i])
  /\ Pending(i, "rx") # {} => rxSet[i]
  /\ stage[i] = "none" => NoDiscovery(att[i])

Turns == (\A i \in Nodes : TurnsOK(i)) /\ fault # "rx"

(* Which pairs may be in a queue.                                          *)
LEMMA PairsOfStart ==
  ASSUME NEW a, NEW b, <<a, b>> \in StartPairs
  PROVE  /\ a.kind = "rx" => b.kind # "rx"
         /\ a.kind # "ccc"
         /\ a.kind = "svc" => b = Req("rx", 1)
         /\ a.kind = "tx" => b = Req("rx", 2)
         /\ a.kind = "rx" /\ a.arg = 1 => b = Req("tx", 0)
         /\ a.kind = "rx" => a.arg \in {1, 2}
BY DEF StartPairs, Req

(* A queue that moves on stays in turn if what is appended goes with what  *)
(* stays.                                                                  *)
LEMMA MovedInTurn ==
  ASSUME NEW S, NEW old \in Seq(S), NEW reqs, NEW n, NEW q, QueueFacts(q, old, reqs, n),
         InTurn(old), NEW x \in 1..Len(reqs),
         \A k \in 1..Len(reqs) : reqs[k].kind \in DiscoveryKinds => k = x,
         \A k \in 2..Len(old) :
           old[k].kind \in DiscoveryKinds /\ reqs[x].kind \in DiscoveryKinds
             => <<old[k], reqs[x]>> \in StartPairs
  PROVE  InTurn(q)
<1> SUFFICES ASSUME NEW k \in DOMAIN q, NEW m \in DOMAIN q, k < m,
                    q[k].kind \in DiscoveryKinds, q[m].kind \in DiscoveryKinds
             PROVE  <<q[k], q[m]>> \in StartPairs
  BY DEF InTurn
<1>1. /\ k \in 1..Len(q) /\ m \in 1..Len(q) /\ Len(q) \in Nat /\ Len(old) \in Nat \ {0}
      /\ DOMAIN old = 1..Len(old)
  BY LenProperties DEF QueueFacts
<1>2. CASE m < Len(old)
  <2>1. k \in 1..(Len(old) - 1) /\ m \in 1..(Len(old) - 1)
    BY <1>1, <1>2
  <2>2. q[k] = old[k + 1] /\ q[m] = old[m + 1]
    BY <2>1, Zenon DEF QueueFacts
  <2>3. k + 1 \in DOMAIN old /\ m + 1 \in DOMAIN old /\ k + 1 < m + 1
    BY <1>1, <2>1
  <2> QED
    BY <2>2, <2>3 DEF InTurn
<1>3. CASE m >= Len(old)
  <2>1. m - Len(old) + 1 = x /\ q[m] = reqs[x]
    BY <1>1, <1>3 DEF QueueFacts
  <2>2. k < Len(old)
    <3>1. ASSUME k >= Len(old) PROVE FALSE
      <4>1. k - Len(old) + 1 = x
        BY <1>1, <3>1 DEF QueueFacts
      <4> QED
        BY <1>1, <2>1, <4>1
    <3> QED
      BY <1>1, <3>1
  <2>3. q[k] = old[k + 1] /\ k + 1 \in 2..Len(old)
    <3>1. k \in 1..(Len(old) - 1) /\ k + 1 \in 2..Len(old)
      BY <1>1, <2>2
    <3> QED
      BY <3>1, Zenon DEF QueueFacts
  <2> QED
    BY <2>1, <2>3
<1> QED
  BY <1>1, <1>2, <1>3

(* A queue that has only lost its first request.                           *)
LEMMA TailInTurn ==
  ASSUME NEW S, NEW old \in Seq(S), old # <<>>, InTurn(old)
  PROVE  /\ InTurn(Tail(old))
         /\ \A k \in DOMAIN Tail(old) : \E m \in DOMAIN old : Tail(old)[k] = old[m]
<1>1. /\ Len(old) \in Nat \ {0} /\ DOMAIN old = 1..Len(old)
      /\ Tail(old) \in Seq(S) /\ Len(Tail(old)) = Len(old) - 1
      /\ \A k \in 1..(Len(old) - 1) : Tail(old)[k] = old[k + 1]
  BY HeadTailProperties, EmptySeq, LenProperties
<1>2. DOMAIN Tail(old) = 1..(Len(old) - 1)
  BY <1>1, LenProperties
<1>3. \A k \in DOMAIN Tail(old) : k + 1 \in DOMAIN old /\ Tail(old)[k] = old[k + 1]
  BY <1>1, <1>2
<1> QED
  BY <1>1, <1>2, <1>3 DEF InTurn

(* The answer to a discovery's request whose callback queues at most one   *)
(* more.                                                                   *)
LEMMA AnswerInTurn ==
  ASSUME LinkIInv, FlagsOK, Turns, NEW i \in Nodes, NEW kinds, Answered(i, kinds),
         NEW reqs \in Seq(Reqs), Requests(i, reqs), NEW x \in 1..Len(reqs),
         \A k \in 1..Len(reqs) : reqs[k].kind \in DiscoveryKinds => k = x,
         \A k \in 2..Len(att[i]) :
           att[i][k].kind \in DiscoveryKinds /\ reqs[x].kind \in DiscoveryKinds
             => <<att[i][k], reqs[x]>> \in StartPairs,
         NEW s \in {"svc", "tx", "ccc"}, stage' = stage \/ stage' = [stage EXCEPT ![i] = s],
         NEW b \in BOOLEAN, rxSet' = rxSet \/ rxSet' = [rxSet EXCEPT ![i] = b],
         Pending(i, "rx")' # {} => rxSet'[i],
         fault' # "rx"
  PROVE  Turns'
<1>1. /\ link[i] = "up" /\ ~Starting(i) /\ att[i] # <<>> /\ att[i] \in Seq(Reqs)
      /\ att \in [Nodes -> Seq(Reqs)] /\ stage \in [Nodes -> {"none", "svc", "tx", "ccc"}]
  BY AnswerKeeps DEF LinkIInv, LinkBase
<1>2. Room \in Int
  <2>1. InUse \in Nat /\ ReqSlots \in Nat
    BY LinkAssumption, LenProperties DEF LinkIInv, LinkBase, InUse, Nodes
  <2> QED
    BY <2>1 DEF Room
<1> DEFINE q == Tail(att[i]) \o FirstOf(reqs, Room)
<1>3. att' = [att EXCEPT ![i] = q]
  BY DEF Requests
<1>4. QueueFacts(q, att[i], reqs, Room)
  BY <1>1, <1>2, QueueMovesOn DEF MovedOn
<1> HIDE DEF q
<1>5. InTurn(q)
  BY <1>1, <1>4, MovedInTurn DEF Turns, TurnsOK
<1>6. att'[i] = q /\ \A j \in Nodes : j # i => att'[j] = att[j]
  BY <1>1, <1>3
<1>7. stage'[i] # "none" /\ \A j \in Nodes : j # i => stage'[j] = stage[j]
  BY <1>1 DEF Starting
<1>8. \A j \in Nodes : j # i => rxSet'[j] = rxSet[j]
  <2>1. rxSet \in [Nodes -> BOOLEAN]
    BY Zenon DEF FlagsOK
  <2>2. CASE rxSet' = [rxSet EXCEPT ![i] = b]
    BY <2>1, <2>2, FlagChanges, Zenon
  <2> QED
    BY <2>2, Zenon
<1>9. ASSUME NEW j \in Nodes PROVE TurnsOK(j)'
  <2>1. CASE j = i
    <3>1. InTurn(att'[i])
      BY <1>5, <1>6
    <3> QED
      BY <1>7, <2>1, <3>1, Zenon DEF TurnsOK
  <2>2. CASE j # i
    <3>1. att'[j] = att[j] /\ stage'[j] = stage[j] /\ TurnsOK(j) /\ rxSet'[j] = rxSet[j]
      BY <1>6, <1>7, <1>8, <2>2, Zenon DEF Turns
    <3>2. Pending(j, "rx")' = Pending(j, "rx")
      BY <3>1, Zenon DEF Pending
    <3> QED
      BY <3>1, <3>2, Zenon DEF TurnsOK
  <2> QED
    BY <2>1, <2>2
<1> QED
  BY <1>9 DEF Turns

(* A step that changes only the queue of i, to one whose discoveries were  *)
(* all in the old one.                                                     *)
LEMMA FewerInTurn ==
  ASSUME LinkIInv, Turns, NEW i \in Nodes, NEW q, InTurn(q),
         \A k \in DOMAIN q : q[k].kind \in DiscoveryKinds => \E m \in DOMAIN att[i] : q[k] = att[i][m],
         att' = [att EXCEPT ![i] = q] \/ att' = att, stage' = stage, rxSet' = rxSet, fault' # "rx"
  PROVE  Turns'
<1>1. att \in [Nodes -> Seq(Reqs)]
  BY DEF LinkIInv, LinkBase
<1>2. ASSUME NEW j \in Nodes PROVE TurnsOK(j)'
  <2>1. (att'[j] = q /\ j = i) \/ att'[j] = att[j]
    BY <1>1
  <2>2. CASE att'[j] = att[j]
    <3>1. Pending(j, "rx")' = Pending(j, "rx") /\ TurnsOK(j)
      BY <2>2, Zenon DEF Pending, Turns
    <3> QED
      BY <2>2, <3>1, Zenon DEF TurnsOK
  <2>3. CASE att'[j] = q /\ j = i
    <3>1. TurnsOK(i)
      BY DEF Turns
    <3>2. "rx" \in DiscoveryKinds
      BY DEF DiscoveryKinds
    <3>3. Pending(i, "rx")' # {} => Pending(i, "rx") # {}
      BY <2>3, <3>2 DEF Pending
    <3>4. NoDiscovery(att[i]) => NoDiscovery(q)
      BY <2>3 DEF NoDiscovery
    <3> QED
      BY <2>3, <3>1, <3>3, <3>4, Zenon DEF TurnsOK
  <2> QED
    BY <2>1, <2>2, <2>3
<1> QED
  BY <1>2 DEF Turns

(* A request for the RX characteristic in a queue that has moved on was    *)
(* there before or is one of the new ones.                                 *)
LEMMA RxWasThere ==
  ASSUME LinkIInv, NEW i \in Nodes, att[i] # <<>>, NEW reqs \in Seq(Reqs),
         Requests(i, reqs), NEW k \in DOMAIN att'[i], att'[i][k].kind = "rx"
  PROVE  \/ \E m \in 2..Len(att[i]) : m \in DOMAIN att[i] /\ att[i][m].kind = "rx"
         \/ Room > 0 /\ \E m \in 1..Len(reqs) : reqs[m].kind = "rx"
<1>1. att[i] \in Seq(Reqs) /\ att \in [Nodes -> Seq(Reqs)] /\ Room \in Int
  <2>1. InUse \in Nat /\ ReqSlots \in Nat
    BY LinkAssumption, LenProperties DEF LinkIInv, LinkBase, InUse, Nodes
  <2> QED
    BY <2>1 DEF Room, LinkIInv, LinkBase
<1> DEFINE q == Tail(att[i]) \o FirstOf(reqs, Room)
<1>2. att' = [att EXCEPT ![i] = q]
  BY DEF Requests
<1>3. QueueFacts(q, att[i], reqs, Room)
  BY <1>1, QueueMovesOn DEF MovedOn
<1> HIDE DEF q
<1>4. att'[i] = q
  BY <1>1, <1>2
<1>5. k \in 1..Len(q) /\ Len(q) \in Nat /\ Len(att[i]) \in Nat \ {0} /\ DOMAIN att[i] = 1..Len(att[i])
  BY <1>1, <1>3, <1>4, LenProperties DEF QueueFacts
<1>6. CASE k < Len(att[i])
  <2>1. k \in 1..(Len(att[i]) - 1) /\ k + 1 \in 2..Len(att[i]) /\ k + 1 \in DOMAIN att[i]
    BY <1>5, <1>6
  <2>2. q[k] = att[i][k + 1]
    BY <1>3, <2>1, Zenon DEF QueueFacts
  <2> QED
    BY <1>4, <2>1, <2>2
<1>7. CASE k >= Len(att[i])
  <2>1. k - Len(att[i]) + 1 \in 1..Len(reqs) /\ q[k] = reqs[k - Len(att[i]) + 1]
    BY <1>3, <1>5, <1>7, Zenon DEF QueueFacts
  <2>2. Room > 0
    <3>1. ASSUME Room <= 0 PROVE FALSE
      <4>1. Len(q) = Len(att[i]) - 1
        BY <1>3, <3>1, Zenon DEF QueueFacts
      <4> QED
        BY <1>5, <1>7, <4>1
    <3> QED
      BY <1>1, <3>1
  <2> QED
    BY <1>4, <2>1, <2>2
<1> QED
  BY <1>5, <1>6, <1>7

(* The callbacks: the head of the queue is the request answered.           *)
LEMMA CallbacksTakeTurns ==
  ASSUME LinkIInv, FlagsOK, Turns, RxRounds <= 2, NEW i \in Nodes, RxNext(i), ~Connected(i)
  PROVE  Turns'
<1>1. fault = "none" /\ "none" # "rx"
  BY AnswerKeeps DEF RxNext, StageFound, CccFound, RxFound, RxGoesOn, OtherAnswered, WriteAnswered
<1>2. /\ att[i] \in Seq(Reqs) /\ rxSet[i] \in BOOLEAN /\ TurnsOK(i)
      /\ stage \in [Nodes -> {"none", "svc", "tx", "ccc"}]
  <2>1. rxSet[i] \in BOOLEAN
    BY Zenon DEF FlagsOK
  <2> QED
    BY <2>1 DEF LinkIInv, LinkBase, Turns
<1> DEFINE head == Head(att[i])
<1>3. ASSUME att[i] # <<>>
      PROVE  /\ head = att[i][1] /\ head \in Reqs /\ 1 \in DOMAIN att[i]
             /\ DOMAIN att[i] = 1..Len(att[i])
             /\ \A k \in 2..Len(att[i]) :
                  att[i][k].kind \in DiscoveryKinds /\ head.kind \in DiscoveryKinds
                    => <<head, att[i][k]>> \in StartPairs
             /\ InTurn(Tail(att[i]))
             /\ \A k \in DOMAIN Tail(att[i]) : \E m \in DOMAIN att[i] : Tail(att[i])[k] = att[i][m]
  <2>1. head = att[i][1] /\ head \in Reqs /\ Len(att[i]) \in Nat \ {0} /\ DOMAIN att[i] = 1..Len(att[i])
    BY <1>2, <1>3, HeadTailProperties, EmptySeq, LenProperties
  <2>2. InTurn(att[i])
    BY <1>2 DEF TurnsOK
  <2>3. /\ InTurn(Tail(att[i]))
        /\ \A k \in DOMAIN Tail(att[i]) : \E m \in DOMAIN att[i] : Tail(att[i])[k] = att[i][m]
    BY <1>2, <1>3, <2>2, TailInTurn
  <2>4. 1 \in DOMAIN att[i] /\ \A k \in 2..Len(att[i]) : k \in DOMAIN att[i] /\ 1 < k
    BY <2>1
  <2>5. ASSUME NEW k \in 2..Len(att[i]), att[i][k].kind \in DiscoveryKinds, head.kind \in DiscoveryKinds
        PROVE  <<head, att[i][k]>> \in StartPairs
    BY <2>1, <2>2, <2>4, <2>5 DEF InTurn
  <2> QED
    BY <2>1, <2>3, <2>4, <2>5
<1> HIDE DEF head
<1>4. /\ Req("tx", 0) \in Reqs /\ Req("ccc", 0) \in Reqs /\ Req("sub", 0) \in Reqs
      /\ Req("rx", 1) \in Reqs
      /\ Req("tx", 0).kind = "tx" /\ Req("ccc", 0).kind = "ccc" /\ Req("sub", 0).kind = "sub"
      /\ \A n : Req("rx", n).kind = "rx"
  BY LinkAssumption DEF Req, Reqs, Kinds
<1>5. {"svc", "tx", "ccc", "rx"} = DiscoveryKinds
  BY DEF DiscoveryKinds
<1>6. CASE StageFound(i)
  <2>1. /\ Answered(i, {"svc", "tx"}) /\ Requests(i, AfterStage(head.kind))
        /\ stage' = [stage EXCEPT ![i] = NextStage(head.kind)] /\ rxSet' = rxSet /\ fault' = fault
    BY <1>6, Zenon DEF StageFound, head
  <2>2. att[i] # <<>> /\ head.kind \in {"svc", "tx"}
    BY <2>1, AnswerKeeps DEF head
  <2> DEFINE r == Req(NextStage(head.kind), 0)
             reqs == AfterStage(head.kind)
  <2>3. /\ reqs \in Seq(Reqs) /\ reqs = <<r>> /\ Len(reqs) = 1 /\ reqs[1] = r
        /\ NextStage(head.kind) \in {"svc", "tx", "ccc"} /\ r.kind \in {"tx", "ccc"}
        /\ head.kind = "svc" => r = Req("tx", 0)
        /\ head.kind = "tx" => r = Req("ccc", 0)
        /\ Requests(i, reqs)
    BY <1>4, <2>1, <2>2 DEF AfterStage, NextStage
  <2>4. ASSUME NEW k \in 2..Len(att[i]), att[i][k].kind \in DiscoveryKinds
        PROVE  <<att[i][k], r>> \in StartPairs
    <3>1. <<head, att[i][k]>> \in StartPairs
      BY <1>3, <1>5, <2>2, <2>4
    <3>2. /\ head.kind = "svc" => att[i][k] = Req("rx", 1)
          /\ head.kind = "tx" => att[i][k] = Req("rx", 2)
      BY <3>1, PairsOfStart
    <3> QED
      BY <2>2, <2>3, <3>2 DEF StartPairs
  <2> HIDE DEF reqs, r
  <2>5. 1 \in 1..Len(reqs) /\ \A k \in 1..Len(reqs) : k = 1
    BY <2>3
  <2>6. Pending(i, "rx")' # {} => rxSet'[i]
    <3>1. ASSUME NEW k \in DOMAIN att'[i], att'[i][k].kind = "rx" PROVE Pending(i, "rx") # {}
      <4>1. \E m \in DOMAIN att[i] : att[i][m].kind = "rx"
        <5>1. \A m \in 1..Len(reqs) : reqs[m].kind # "rx"
          BY <2>3, <2>5
        <5> QED
          BY <2>2, <2>3, <3>1, <5>1, RxWasThere
      <4> QED
        BY <4>1 DEF Pending
    <3>2. Pending(i, "rx")' # {} => Pending(i, "rx") # {}
      BY <3>1 DEF Pending
    <3> QED
      BY <1>2, <2>1, <3>2, Zenon DEF TurnsOK
  <2>7. fault' # "rx"
    BY <1>1, <2>1
  <2> QED
    BY <2>1, <2>3, <2>4, <2>5, <2>6, <2>7, AnswerInTurn DEF reqs
<1>7. CASE CccFound(i)
  <2> DEFINE reqs == <<Req("sub", 0), Req("rx", 1)>>
  <2>1. /\ Answered(i, {"ccc"}) /\ Requests(i, reqs) /\ stage' = stage /\ fault' = fault
        /\ rxSet' = [rxSet EXCEPT ![i] = (rxSet[i] \/ Room > 0)]
    BY <1>7, Zenon DEF CccFound
  <2>2. att[i] # <<>> /\ head.kind = "ccc"
    BY <2>1, AnswerKeeps DEF head
  <2>3. /\ reqs \in Seq(Reqs) /\ Len(reqs) = 2 /\ reqs[1].kind = "sub" /\ reqs[2].kind = "rx"
    BY <1>4
  <2> HIDE DEF reqs
  <2>4. ASSUME NEW k \in 2..Len(att[i]), att[i][k].kind \in DiscoveryKinds PROVE FALSE
    <3>1. <<head, att[i][k]>> \in StartPairs
      BY <1>3, <1>5, <2>2, <2>4
    <3> QED
      BY <2>2, <3>1, PairsOfStart
  <2>5. 2 \in 1..Len(reqs) /\ \A k \in 1..Len(reqs) : reqs[k].kind \in DiscoveryKinds => k = 2
    BY <2>3 DEF DiscoveryKinds
  <2>6. (rxSet[i] \/ Room > 0) \in BOOLEAN
    OBVIOUS
  <2>7. rxSet'[i] = (rxSet[i] \/ Room > 0)
    BY <2>1, <2>6, FlagChanges, Zenon DEF FlagsOK
  <2>8. Pending(i, "rx")' # {} => rxSet'[i]
    <3>1. ASSUME NEW k \in DOMAIN att'[i], att'[i][k].kind = "rx" PROVE Room > 0
      <4>1. \A m \in 2..Len(att[i]) : att[i][m].kind # "rx"
        BY <1>5, <2>4
      <4> QED
        BY <2>1, <2>2, <2>3, <3>1, <4>1, RxWasThere
    <3>2. Pending(i, "rx")' # {} => Room > 0
      BY <3>1 DEF Pending
    <3> QED
      BY <2>7, <3>2, Zenon
  <2>9. fault' # "rx"
    BY <1>1, <2>1
  <2> QED
    BY <2>1, <2>3, <2>4, <2>5, <2>6, <2>8, <2>9, AnswerInTurn
<1>8. RxNext(i) /\ Answered(i, {"rx"}) => rxSet[i] /\ RxFault(i) # "rx"
  <2> SUFFICES ASSUME Answered(i, {"rx"}) PROVE rxSet[i] /\ RxFault(i) # "rx"
    OBVIOUS
  <2>1. att[i] # <<>> /\ head.kind = "rx"
    BY AnswerKeeps DEF head
  <2>2. Pending(i, "rx") # {}
    BY <1>3, <2>1 DEF Pending
  <2>3. rxSet[i]
    BY <1>2, <2>2, Zenon DEF TurnsOK
  <2> QED
    BY <2>3, Zenon DEF RxFault
<1>9. CASE RxGoesOn(i)
  <2> DEFINE r == Req("rx", head.arg + 1)
             reqs == <<r>>
  <2>1. /\ Answered(i, {"rx"}) /\ Requests(i, reqs) /\ stage' = stage /\ fault' = RxFault(i)
        /\ rxSet' = [rxSet EXCEPT ![i] = (rxSet[i] /\ Room > 0)] /\ head.arg < RxRounds
    BY <1>9, Zenon DEF RxGoesOn, head
  <2>2. att[i] # <<>> /\ head.kind = "rx" /\ rxSet[i] /\ fault' # "rx"
    BY <1>8, <2>1, AnswerKeeps DEF head, RxNext
  <2>3. head.arg \in Nat /\ head.arg <= 1 /\ head.arg + 1 \in 0..(MaxLinks + RxRounds)
    BY <1>3, <2>1, <2>2, LinkAssumption DEF Reqs
  <2>4. /\ reqs \in Seq(Reqs) /\ Len(reqs) = 1 /\ reqs[1] = r
        /\ head.arg = 1 => r = Req("rx", 2)
    <3>1. r \in Reqs
      BY <2>3 DEF Req, Reqs, Kinds
    <3> QED
      BY <2>3, <3>1
  <2>5. ASSUME NEW k \in 2..Len(att[i]), att[i][k].kind \in DiscoveryKinds
        PROVE  att[i][k].kind # "rx" /\ <<att[i][k], r>> \in StartPairs
    <3>1. <<head, att[i][k]>> \in StartPairs
      BY <1>3, <1>5, <2>2, <2>5
    <3>2. head.arg = 1 /\ att[i][k] = Req("tx", 0)
      BY <2>2, <2>3, <3>1, PairsOfStart
    <3> QED
      BY <1>4, <2>4, <3>2 DEF StartPairs
  <2> HIDE DEF reqs, r
  <2>6. 1 \in 1..Len(reqs) /\ \A k \in 1..Len(reqs) : k = 1
    BY <2>4
  <2>7. (rxSet[i] /\ Room > 0) \in BOOLEAN
    OBVIOUS
  <2>8. rxSet'[i] = (rxSet[i] /\ Room > 0)
    BY <2>1, <2>7, FlagChanges, Zenon DEF FlagsOK
  <2>9. Pending(i, "rx")' # {} => rxSet'[i]
    <3>1. ASSUME NEW k \in DOMAIN att'[i], att'[i][k].kind = "rx" PROVE Room > 0
      <4>1. \A m \in 2..Len(att[i]) : att[i][m].kind # "rx"
        BY <1>5, <2>5
      <4> QED
        BY <2>1, <2>2, <2>4, <3>1, <4>1, RxWasThere
    <3>2. Pending(i, "rx")' # {} => Room > 0
      BY <3>1 DEF Pending
    <3> QED
      BY <2>2, <2>8, <3>2, Zenon
  <2> QED
    BY <2>1, <2>2, <2>4, <2>5, <2>6, <2>7, <2>9, AnswerInTurn
<1>10. CASE RxFound(i) \/ OtherAnswered(i) \/ WriteAnswered(i)
  <2>1. /\ att[i] # <<>> /\ att' = [att EXCEPT ![i] = Tail(att[i])]
        /\ stage' = stage /\ rxSet' = rxSet
    BY <1>10, AnswerKeeps, Zenon DEF RxFound, OtherAnswered, WriteAnswered, entryVars
  <2>2. fault' # "rx"
    <3>1. CASE RxFound(i)
      BY <1>8, <3>1, Zenon DEF RxFound, RxNext
    <3>2. CASE OtherAnswered(i)
      BY <1>1, <3>2 DEF OtherAnswered
    <3>3. CASE WriteAnswered(i)
      BY <3>3 DEF WriteAnswered, WriteFault
    <3> QED
      BY <1>10, <3>1, <3>2, <3>3
  <2> QED
    BY <1>3, <2>1, <2>2, FewerInTurn
<1> QED
  BY <1>6, <1>7, <1>9, <1>10 DEF RxNext

(* connected() starts both discoveries in an empty entry.                  *)
LEMMA ConnectedTakesTurns ==
  ASSUME LinkIInv, FlagsOK, Turns, NEW i \in Nodes, Connected(i)
  PROVE  Turns'
<1>1. /\ Starting(i) /\ stage' = [stage EXCEPT ![i] = "svc"] /\ fault' = fault
      /\ rxSet' = [rxSet EXCEPT ![i] = TRUE]
      /\ att' = IF link[i] = "up"
                  THEN [att EXCEPT ![i] = @ \o FirstOf(FirstRequests, ReqSlots - InUse)]
                  ELSE att
  BY Zenon DEF Connected
<1>2. /\ att \in [Nodes -> Seq(Reqs)] /\ att[i] \in Seq(Reqs) /\ NoDiscovery(att[i])
      /\ stage \in [Nodes -> {"none", "svc", "tx", "ccc"}] /\ ReqSlots - InUse \in Int
  <2>1. InUse \in Nat /\ ReqSlots \in Nat
    BY LinkAssumption, LenProperties DEF LinkIInv, LinkBase, InUse, Nodes
  <2> QED
    BY <1>1, <2>1 DEF LinkIInv, LinkBase, Turns, TurnsOK, Starting
<1> DEFINE f == FirstOf(FirstRequests, ReqSlots - InUse)
<1>3. FirstRequests \in Seq(Reqs) /\ Len(FirstRequests) = 3
  <2>1. Req("mtu", 0) \in Reqs /\ Req("svc", 0) \in Reqs /\ Req("rx", 1) \in Reqs
    BY LinkAssumption DEF Req, Reqs, Kinds
  <2> QED
    BY <2>1 DEF FirstRequests
<1>4. /\ f \in Seq(Reqs) /\ Len(f) \in Nat /\ Len(f) <= 3
      /\ \A k \in 1..Len(f) : f[k] = FirstRequests[k]
  BY <1>2, <1>3, FirstOfPrefix
<1> HIDE DEF f
<1>5. /\ \A k \in 1..Len(f) : f[k].kind \in DiscoveryKinds => k \in {2, 3}
      /\ 2 \in 1..Len(f) => f[2] = Req("svc", 0)
      /\ 3 \in 1..Len(f) => f[3] = Req("rx", 1)
  BY <1>4 DEF FirstRequests, Req, DiscoveryKinds
<1> DEFINE q == att[i] \o f
<1>6. /\ Len(att[i]) \in Nat /\ Len(q) = Len(att[i]) + Len(f) /\ DOMAIN q = 1..(Len(att[i]) + Len(f))
      /\ \A k \in 1..(Len(att[i]) + Len(f)) :
           q[k] = IF k <= Len(att[i]) THEN att[i][k] ELSE f[k - Len(att[i])]
  BY <1>2, <1>4, ConcatProperties, LenProperties
<1> HIDE DEF q
<1>7. ASSUME NEW k \in DOMAIN q, q[k].kind \in DiscoveryKinds
      PROVE  k - Len(att[i]) \in 1..Len(f) /\ q[k] = f[k - Len(att[i])] /\ k - Len(att[i]) \in {2, 3}
  <2>1. CASE k <= Len(att[i])
    <3>1. k \in DOMAIN att[i] /\ q[k] = att[i][k]
      BY <1>2, <1>6, <1>7, <2>1, LenProperties
    <3> QED
      BY <1>2, <1>7, <3>1 DEF NoDiscovery
  <2>2. CASE k > Len(att[i])
    <3>1. k - Len(att[i]) \in 1..Len(f) /\ q[k] = f[k - Len(att[i])]
      BY <1>4, <1>6, <1>7, <2>2
    <3> QED
      BY <1>5, <1>7, <3>1
  <2> QED
    BY <1>6, <1>7, <2>1, <2>2
<1>8. InTurn(q)
  <2> SUFFICES ASSUME NEW k \in DOMAIN q, NEW n \in DOMAIN q, k < n,
                      q[k].kind \in DiscoveryKinds, q[n].kind \in DiscoveryKinds
               PROVE  <<q[k], q[n]>> \in StartPairs
    BY DEF InTurn
  <2>1. k - Len(att[i]) = 2 /\ n - Len(att[i]) = 3
    BY <1>6, <1>7
  <2>2. q[k] = Req("svc", 0) /\ q[n] = Req("rx", 1)
    BY <1>5, <1>7, <2>1
  <2> QED
    BY <2>2 DEF StartPairs
<1>9. InTurn(att[i])
  BY DEF Turns, TurnsOK
<1>10. (att'[i] = q \/ att'[i] = att[i]) /\ \A j \in Nodes : j # i => att'[j] = att[j]
  BY <1>1, <1>2 DEF q, f
<1>11. stage'[i] = "svc" /\ \A j \in Nodes : j # i => stage'[j] = stage[j]
  BY <1>1, <1>2
<1>12. rxSet'[i] = TRUE /\ \A j \in Nodes : j # i => rxSet'[j] = rxSet[j]
  BY <1>1, FlagChanges, Zenon DEF FlagsOK
<1>13. ASSUME NEW j \in Nodes PROVE TurnsOK(j)'
  <2>1. CASE j = i
    <3>1. InTurn(att'[i])
      BY <1>8, <1>9, <1>10
    <3>2. stage'[i] # "none"
      BY <1>11
    <3> QED
      BY <1>12, <2>1, <3>1, <3>2, Zenon DEF TurnsOK
  <2>2. CASE j # i
    <3>1. att'[j] = att[j] /\ stage'[j] = stage[j] /\ TurnsOK(j) /\ rxSet'[j] = rxSet[j]
      BY <1>10, <1>11, <1>12, <2>2, Zenon DEF Turns
    <3>2. Pending(j, "rx")' = Pending(j, "rx")
      BY <3>1, Zenon DEF Pending
    <3> QED
      BY <3>1, <3>2, Zenon DEF TurnsOK
  <2> QED
    BY <2>1, <2>2
<1> QED
  BY <1>1, <1>13 DEF Turns

(* The end of a link, or of an attempt to make one: at most one request    *)
(* for the RX characteristic is flushed, and it finds its block.           *)
LEMMA LinksTakeTurns ==
  ASSUME LinkIInv, FlagsOK, Turns, NEW i \in Nodes, LinkNext(i)
  PROVE  Turns'
<1>1. /\ att \in [Nodes -> Seq(Reqs)] /\ stage \in [Nodes -> {"none", "svc", "tx", "ccc"}]
      /\ TurnsOK(i) /\ att[i] \in Seq(Reqs)
  BY DEF LinkIInv, LinkBase, Turns
<1>2. CASE Opens(i) \/ LinkUp(i) \/ LinkLost(i)
  <2>1. UNCHANGED <<att, stage, rxSet, fault>>
    BY <1>2 DEF Opens, LinkUp, LinkLost, entryVars
  <2>2. ASSUME NEW j \in Nodes PROVE TurnsOK(j)'
    <3>1. att' = att /\ stage' = stage /\ rxSet' = rxSet /\ TurnsOK(j)
      BY <2>1 DEF Turns
    <3>2. Pending(j, "rx")' = Pending(j, "rx")
      BY <3>1, Zenon DEF Pending
    <3> QED
      BY <3>1, <3>2, Zenon DEF TurnsOK
  <2> QED
    BY <2>1, <2>2 DEF Turns
<1>3. CASE ConnectFails(i) \/ Disconnected(i)
  <2>1. att' = [att EXCEPT ![i] = <<>>]
    <3>1. CASE ConnectFails(i)
      <4>1. att[i] = <<>> /\ att' = att
        BY <3>1 DEF ConnectFails, LinkIInv, EntryOK
      <4> QED
        BY <1>1, <4>1
    <3>2. CASE Disconnected(i)
      BY <3>2 DEF Disconnected
    <3> QED
      BY <1>3, <3>1, <3>2
  <2>2. rxSet' = [rxSet EXCEPT ![i] = FALSE] /\ stage' = [stage EXCEPT ![i] = "none"]
    BY <1>3, Zenon DEF ConnectFails, Disconnected, ClearEntry
  <2>3. /\ att'[i] = <<>>
        /\ \A j \in Nodes : j # i => att'[j] = att[j] /\ stage'[j] = stage[j]
    BY <1>1, <2>1, <2>2
  <2>4. \A j \in Nodes : j # i => rxSet'[j] = rxSet[j]
    BY <2>2, FlagChanges, Zenon DEF FlagsOK
  <2>5. ASSUME NEW j \in Nodes PROVE TurnsOK(j)'
    <3>1. CASE j = i
      <4>1. DOMAIN <<>> = {}
        OBVIOUS
      <4>2. InTurn(att'[i]) /\ NoDiscovery(att'[i]) /\ Pending(i, "rx")' = {}
        BY <2>3, <4>1 DEF InTurn, NoDiscovery, Pending
      <4> QED
        BY <3>1, <4>2, Zenon DEF TurnsOK
    <3>2. CASE j # i
      <4>1. att'[j] = att[j] /\ stage'[j] = stage[j] /\ TurnsOK(j) /\ rxSet'[j] = rxSet[j]
        BY <2>3, <2>4, <3>2, Zenon DEF Turns
      <4>2. Pending(j, "rx")' = Pending(j, "rx")
        BY <4>1, Zenon DEF Pending
      <4> QED
        BY <4>1, <4>2, Zenon DEF TurnsOK
    <3> QED
      BY <3>1, <3>2
  <2>6. ~FlushFaults(i)
    <3>1. ASSUME NEW k \in Pending(i, "rx"), NEW n \in Pending(i, "rx") PROVE k = n
      <4>1. k \in DOMAIN att[i] /\ n \in DOMAIN att[i] /\ att[i][k].kind = "rx" /\ att[i][n].kind = "rx"
            /\ k \in Nat /\ n \in Nat
        BY <1>1, <3>1, LenProperties DEF Pending
      <4>2. ASSUME k < n \/ n < k PROVE FALSE
        <5>1. <<att[i][k], att[i][n]>> \in StartPairs \/ <<att[i][n], att[i][k]>> \in StartPairs
          BY <1>1, <4>1, <4>2 DEF TurnsOK, InTurn, DiscoveryKinds
        <5> QED
          BY <4>1, <5>1, PairsOfStart
      <4> QED
        BY <4>1, <4>2
    <3>2. CASE Pending(i, "rx") = {}
      <4>1. Cardinality(Pending(i, "rx")) = 0
        BY <3>2, FS_EmptySet
      <4>2. (IF rxSet[i] THEN 1 ELSE 0) \in {0, 1}
        BY Zenon
      <4> QED
        BY <4>1, <4>2 DEF FlushFaults
    <3>3. CASE Pending(i, "rx") # {}
      <4>1. PICK k : Pending(i, "rx") = {k}
        BY <3>1, <3>3
      <4>2. Cardinality(Pending(i, "rx")) = 1
        BY <4>1, FS_Singleton
      <4>3. (IF rxSet[i] THEN 1 ELSE 0) = 1
        BY <1>1, <3>3, Zenon DEF TurnsOK
      <4> QED
        BY <4>2, <4>3 DEF FlushFaults
    <3> QED
      BY <3>2, <3>3
  <2>7. fault' # "rx"
    <3>1. CASE ConnectFails(i)
      BY <3>1 DEF ConnectFails, Turns
    <3>2. CASE Disconnected(i)
      <4>1. fault' = IF StrayFaults(i) THEN "write" ELSE "none"
        BY <2>6, <3>2, Zenon DEF Disconnected
      <4> QED
        BY <4>1
    <3> QED
      BY <1>3, <3>1, <3>2
  <2> QED
    BY <2>5, <2>7 DEF Turns
<1> QED
  BY <1>2, <1>3 DEF LinkNext

(* A command in the queue is no discovery.                                 *)
LEMMA UartTakesTurns ==
  ASSUME LinkIInv, Turns, LineArrives \/ UartNext \/ UNCHANGED vars
  PROVE  Turns'
<1>1. UNCHANGED <<stage, rxSet, fault>>
  BY DEF LineArrives, UartNext, UartTakesLine, UartLooksUp, UartSetsHandle, UartSetsFunc,
     UartAllocates, UartGivesUp, UartSends, UartUnchanged, entryVars, vars
<1>2. fault' # "rx" /\ stage' = stage /\ rxSet' = rxSet
  BY <1>1 DEF Turns
<1>3. CASE UNCHANGED att
  <2>1. InTurn(att[1]) /\ 1 \in Nodes
    BY DEF Turns, TurnsOK, Nodes
  <2> QED
    BY <1>2, <1>3, <2>1, FewerInTurn
<1>4. CASE UartSends
  <2> DEFINE n == uart.node
             r == Req(IF uart.torn THEN "stray" ELSE "write", wp[n].handle)
  <2>1. att' = IF link[n] = "up" THEN [att EXCEPT ![n] = Append(att[n], r)] ELSE att
    BY <1>4 DEF UartSends, SendHandle
  <2>2. n \in Nodes /\ att[n] \in Seq(Reqs) /\ InTurn(att[n])
    BY DEF LinkIInv, LinkBase, Turns, TurnsOK
  <2>3. r.kind \notin DiscoveryKinds /\ r \in Reqs
    <3>1. wp[n].handle \in 0..MaxLinks
      BY <2>2 DEF LinkIInv, LinkBase
    <3>2. wp[n].handle \in 0..(MaxLinks + RxRounds)
      BY <3>1, LinkAssumption
    <3> QED
      BY <3>2 DEF Req, DiscoveryKinds, Reqs, Kinds
  <2> HIDE DEF r
  <2> DEFINE q == Append(att[n], r)
  <2>4. \A k \in DOMAIN q : q[k] = r \/ (k \in DOMAIN att[n] /\ q[k] = att[n][k])
    BY <2>2, <2>3, AppendProperties, LenProperties
  <2> HIDE DEF q
  <2>5. \A k \in DOMAIN q : q[k].kind \in DiscoveryKinds => k \in DOMAIN att[n] /\ q[k] = att[n][k]
    BY <2>3, <2>4
  <2>6. InTurn(q) /\ \A k \in DOMAIN q : q[k].kind \in DiscoveryKinds => \E m \in DOMAIN att[n] : q[k] = att[n][m]
    BY <2>2, <2>5 DEF InTurn
  <2>7. att' = [att EXCEPT ![n] = q] \/ att' = att
    BY <2>1 DEF q
  <2> QED
    BY <1>2, <2>2, <2>6, <2>7, FewerInTurn
<1> QED
  BY <1>3, <1>4 DEF LineArrives, UartNext, UartTakesLine, UartLooksUp, UartSetsHandle, UartSetsFunc,
     UartAllocates, UartGivesUp, vars

LEMMA TurnsAreTaken ==
  ASSUME RxRounds <= 2 PROVE Spec => []Turns
<1>1. Init => Turns
  <2> SUFFICES ASSUME Init PROVE Turns
    OBVIOUS
  <2>1. fault = "none" /\ stage = [i \in Nodes |-> "none"] /\ att = [i \in Nodes |-> <<>>]
    BY Zenon DEF Init
  <2>2. ASSUME NEW i \in Nodes PROVE TurnsOK(i)
    <3>1. att[i] = <<>> /\ DOMAIN <<>> = {}
      BY <2>1
    <3>2. InTurn(att[i]) /\ NoDiscovery(att[i]) /\ Pending(i, "rx") = {}
      BY <3>1 DEF InTurn, NoDiscovery, Pending
    <3> QED
      BY <3>2, Zenon DEF TurnsOK
  <2> QED
    BY <2>1, <2>2 DEF Turns
<1>2. LinkIInv /\ FlagsOK /\ Turns /\ [Next]_vars => Turns'
  BY RxRounds <= 2, CallbacksTakeTurns, ConnectedTakesTurns, LinksTakeTurns, UartTakesTurns DEF Next
<1> QED
  BY <1>1, <1>2, FlagsHold, PTL DEF Spec

(* Wherever a link breaks, and whichever requests the stack refuses one of  *)
(* them: at most one request of a link's two discoveries is in its queue,  *)
(* but for the start, and one for the RX characteristic finds its block.   *)
THEOREM DiscoveriesInTurn ==
  ASSUME RxRounds <= 2 PROVE Spec => []DiscoveriesTakeTurns
<1>1. Turns => DiscoveriesTakeTurns
  BY Zenon DEF Turns, TurnsOK, DiscoveriesTakeTurns
<1> QED
  BY RxRounds <= 2, <1>1, TurnsAreTaken, PTL

(* No callback of rx_discover_func is called through a wiped block.         *)
THEOREM DiscoveriesDoNotCollide ==
  ASSUME RxRounds <= 2 PROVE Spec => []NoCallThroughWipedParams
<1>1. Turns => NoCallThroughWipedParams
  BY DEF Turns, NoCallThroughWipedParams
<1> QED
  BY RxRounds <= 2, <1>1, TurnsAreTaken, PTL
=============================================================================
