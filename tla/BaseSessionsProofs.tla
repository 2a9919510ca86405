------------------------ MODULE BaseSessionsProofs ------------------------
(***************************************************************************)
(* The connection manager implements NodeSessions, for every table size:   *)
(* each action of BaseCentral is one session step of one peripheral, or a  *)
(* stutter.  The mapping reads a session from the table entry that leads   *)
(* to the peripheral; OneEntryPerPeer makes that entry unique.             *)
(*                                                                         *)
(* The last theorem counts objects of the stack against entries.           *)
(***************************************************************************)
EXTENDS BaseCentralProofs, FiniteSetTheorems

\* The session an entry in use stands for.
EntrySession(i) ==
  IF linkSt[nodeConn[i]] = "initiating" THEN "opening"
  ELSE IF linkSt[nodeConn[i]] = "up" THEN "open"
  ELSE "closing"

(* A session is the one of the only entry that leads to the peripheral.    *)
LEMMA SessionOfEntry ==
  IInv => \A i \in Slots : nodeConn[i] # NoConn =>
            /\ SessionOf(linkPeer[nodeConn[i]]) = EntrySession(i)
            /\ EntrySession(i) # "none"
            /\ linkPeer[nodeConn[i]] \in Peers
<1> SUFFICES ASSUME IInv, NEW i \in Slots, nodeConn[i] # NoConn
    PROVE  /\ SessionOf(linkPeer[nodeConn[i]]) = EntrySession(i)
           /\ EntrySession(i) # "none"
           /\ linkPeer[nodeConn[i]] \in Peers
  OBVIOUS
<1> DEFINE c == nodeConn[i]
           Others == \A j \in Slots :
                       nodeConn[j] # NoConn /\ linkPeer[nodeConn[j]] = linkPeer[c] => j = i
<1>1. c \in Conns /\ linkSt[c] \in {"initiating", "up", "lost"}
  BY DEF IInv, TypeOK, LinksAreTracked, InTable
<1>2. linkPeer[c] \in Peers
  BY <1>1 DEF IInv, RxConsistent
<1>3. Others
  BY DEF IInv, OneEntryPerPeer
<1>4. SessionOf(linkPeer[c]) = EntrySession(i)
  BY <1>1, <1>3 DEF SessionOf, EntrySession
<1> QED
  BY <1>2, <1>4 DEF EntrySession

(* Without an entry there is no session.                                   *)
LEMMA SessionWithoutEntry ==
  ASSUME NEW p, ~Tracked(p)
  PROVE  SessionOf(p) = "none"
BY DEF Tracked, SessionOf

(* A free entry leaves room for a session: the active sessions are the     *)
(* image of the entries in use, of which there are fewer than MaxNodes.    *)
LEMMA FreeEntryLeavesRoom ==
  ASSUME IInv, NEW i \in FreeSlots
  PROVE  Cardinality({p \in Peers : SessionOf(p) # "none"}) < MaxNodes
<1> DEFINE Used == Slots \ FreeSlots
           Active == {p \in Peers : SessionOf(p) # "none"}
           f == [j \in Used |-> linkPeer[nodeConn[j]]]
<1>1. IsFiniteSet(Slots) /\ Cardinality(Slots) = MaxNodes
  BY FS_Interval, NodeAssumption DEF Slots
<1>2. i \in Slots
  BY DEF FreeSlots
<1>3. IsFiniteSet(Slots \ {i}) /\ Cardinality(Slots \ {i}) = MaxNodes - 1
  BY <1>1, <1>2, FS_RemoveElement
<1>4. IsFiniteSet(Used) /\ Cardinality(Used) <= MaxNodes - 1
  <2>1. Used \in SUBSET (Slots \ {i})
    OBVIOUS
  <2> QED
    BY <1>3, <2>1, FS_Subset
<1>5. f \in Surjection(Used, Active)
  <2>1. \A j \in Used : f[j] \in Active
    BY SessionOfEntry DEF FreeSlots
  <2>2. \A p \in Active : \E j \in Used : f[j] = p
    BY SessionWithoutEntry DEF Tracked, FreeSlots
  <2> QED
    BY <2>1, <2>2 DEF Surjection
<1>6. IsFiniteSet(Active) /\ Cardinality(Active) <= Cardinality(Used)
  BY <1>4, <1>5, FS_Surjection
<1>7. Cardinality(Active) \in Nat /\ Cardinality(Used) \in Nat
  BY <1>4, <1>6, FS_CardinalityType
<1> QED
  BY <1>4, <1>6, <1>7, NodeAssumption
-----------------------------------------------------------------------------
(* Steps that leave every link that is in the table as it is.              *)
LEMMA UntouchedTableStutters ==
  ASSUME nodeConn' = nodeConn,
         \A i \in Slots : nodeConn[i] # NoConn =>
            /\ linkSt'[nodeConn[i]] = linkSt[nodeConn[i]]
            /\ linkPeer'[nodeConn[i]] = linkPeer[nodeConn[i]]
  PROVE  \A p \in Peers : SessionOf(p)' = SessionOf(p)
BY DEF SessionOf

(* A step that moves exactly one session is a step of NodeSessions.        *)
LEMMA MovesOneSession ==
  ASSUME NEW p \in Peers, NEW from, NEW to,
         SessionOf(p) = from, SessionOf(p)' = to,
         \A q \in Peers \ {p} : SessionOf(q)' = SessionOf(q)
  PROVE  Sessions!Moves(p, from, to)
BY DEF Sessions!Moves

(* bt_conn_le_create opens a session while there is room.                  *)
LEMMA CreateOpens ==
  ASSUME IInv, CreateSucceeds
  PROVE  \E p \in Peers : Sessions!Open(p)
<1>1. PICK c \in Conns, i \in Slots, p \in Peers :
        /\ c = rx.conn /\ i = rx.slot /\ p = rx.peer
        /\ i \in FreeSlots /\ ~Tracked(p)
        /\ linkPeer[c] = p /\ linkSt[c] = "creating" /\ ~InTable(c)
  BY DEF CreateSucceeds, IInv, RxConsistent, LinksAreTracked, FreeSlots
<1>2. /\ linkSt' = [linkSt EXCEPT ![c] = "initiating"]
      /\ nodeConn' = [nodeConn EXCEPT ![i] = c]
      /\ linkPeer' = linkPeer
  BY <1>1 DEF CreateSucceeds, TakeNode
<1>3. SessionOf(p) = "none"
  BY <1>1, SessionWithoutEntry
<1>4. SessionOf(p)' = "opening"
  <2>1. nodeConn'[i] = c /\ c # NoConn /\ linkPeer'[c] = p /\ linkSt'[c] = "initiating"
    BY <1>1, <1>2, NullAssumption DEF IInv, TypeOK
  <2> QED
    BY <1>1, <2>1 DEF SessionOf
<1>5. \A q \in Peers \ {p} : SessionOf(q)' = SessionOf(q)
  <2>1. \A j \in Slots \ {i} : /\ nodeConn'[j] = nodeConn[j]
                               /\ nodeConn[j] # NoConn =>
                                    linkSt'[nodeConn[j]] = linkSt[nodeConn[j]]
    BY <1>1, <1>2 DEF IInv, TypeOK, InTable
  <2>2. nodeConn[i] = NoConn /\ nodeConn'[i] = c
    BY <1>1, <1>2 DEF IInv, TypeOK, FreeSlots
  <2>3. linkPeer'[c] = p
    BY <1>1, <1>2
  <2> QED
    BY <1>2, <2>1, <2>2, <2>3 DEF SessionOf
<1>6. Sessions!Cardinality(Sessions!Active) < MaxNodes
  <2>1. Sessions!Active = {q \in Peers : SessionOf(q) # "none"}
    BY DEF Sessions!Active
  <2>2. Sessions!Cardinality(Sessions!Active) = Cardinality(Sessions!Active)
    BY DEF Sessions!Cardinality, Cardinality
  <2> QED
    BY <1>1, <2>1, <2>2, FreeEntryLeavesRoom
<1>7. Sessions!Moves(p, "none", "opening")
  BY <1>3, <1>4, <1>5, MovesOneSession
<1>8. Sessions!Open(p)
  BY <1>6, <1>7 DEF Sessions!Open
<1> QED
  BY <1>8

(* connected and the loss of a link move the session of its peripheral.    *)
LEMMA LinkStepMoves ==
  ASSUME IInv, NEW c \in Conns, NEW p, p = linkPeer[c], InTable(c), NEW to \in LinkStates,
         linkSt' = [linkSt EXCEPT ![c] = to],
         to \in {"up", "lost"}, UNCHANGED <<nodeConn, linkPeer>>
  PROVE  p \in Peers /\ Sessions!Moves(p, SessionOf(p), IF to = "up" THEN "open" ELSE "closing")
<1>1. PICK i \in Slots : nodeConn[i] = c
  BY DEF InTable
<1>2. p \in Peers
  BY <1>1, SessionOfEntry, NullAssumption
<1>3. \A j \in Slots : nodeConn[j] # NoConn /\ linkPeer[nodeConn[j]] = p => j = i
  BY <1>1, NullAssumption DEF IInv, OneEntryPerPeer
<1>4. SessionOf(p)' = IF to = "up" THEN "open" ELSE "closing"
  BY <1>1, <1>3, NullAssumption DEF SessionOf, IInv, TypeOK
<1>5. \A q \in Peers \ {p} : SessionOf(q)' = SessionOf(q)
  <2>1. \A j \in Slots : nodeConn[j] # NoConn /\ linkPeer[nodeConn[j]] # p =>
          linkSt'[nodeConn[j]] = linkSt[nodeConn[j]]
    BY DEF IInv, TypeOK
  <2>2. linkPeer'[c] = linkPeer[c] /\ nodeConn' = nodeConn
    OBVIOUS
  <2> QED
    BY <2>1, <2>2 DEF SessionOf
<1> QED
  BY <1>2, <1>4, <1>5, MovesOneSession

(* Clearing the entry of a connection ends the session of its peripheral.  *)
LEMMA ClearingEnds ==
  ASSUME IInv, NEW c \in Conns, NEW p, p = linkPeer[c], InTable(c), ClearNode(c),
         \A d \in Conns \ {c} : linkSt'[d] = linkSt[d] /\ linkPeer'[d] = linkPeer[d]
  PROVE  p \in Peers /\ Sessions!Moves(p, SessionOf(p), "none")
<1>1. PICK i \in Slots : nodeConn[i] = c
  BY DEF InTable
<1>2. p \in Peers
  BY <1>1, SessionOfEntry, NullAssumption
<1>3. \A j \in Slots : nodeConn[j] # NoConn /\ linkPeer[nodeConn[j]] = p => j = i
  BY <1>1, NullAssumption DEF IInv, OneEntryPerPeer
<1>4. nodeConn' = [j \in Slots |-> IF nodeConn[j] = c THEN NoConn ELSE nodeConn[j]]
  BY ClearNodeEmpties
<1>5. \A j \in Slots : nodeConn'[j] # NoConn =>
        /\ nodeConn[j] = nodeConn'[j]
        /\ linkSt'[nodeConn'[j]] = linkSt[nodeConn[j]]
        /\ linkPeer'[nodeConn'[j]] = linkPeer[nodeConn[j]]
  BY <1>4 DEF IInv, TypeOK
<1>6. SessionOf(p)' = "none"
  <2>1. \A j \in Slots : nodeConn'[j] # NoConn => j # i /\ linkPeer'[nodeConn'[j]] # p
    BY <1>1, <1>3, <1>4, <1>5, NullAssumption
  <2> QED
    BY <2>1 DEF SessionOf
<1>7. \A q \in Peers \ {p} : SessionOf(q)' = SessionOf(q)
  <2>1. \A j \in Slots : nodeConn[j] # NoConn /\ linkPeer[nodeConn[j]] # p =>
          nodeConn'[j] = nodeConn[j]
    BY <1>4
  <2> QED
    BY <1>5, <2>1 DEF SessionOf
<1> QED
  BY <1>2, <1>6, <1>7, MovesOneSession
-----------------------------------------------------------------------------
SessionsUnchanged == UNCHANGED [p \in Peers |-> SessionOf(p)]

(* Every step of the base is one session step of one peripheral, or none.  *)
LEMMA StepImplementsSessions ==
  IInv /\ IInv' /\ [Next]_vars => Sessions!Next \/ SessionsUnchanged
<1> SUFFICES ASSUME IInv, IInv', [Next]_vars PROVE Sessions!Next \/ SessionsUnchanged
  OBVIOUS
<1>1. CASE UNCHANGED <<nodeConn, linkSt, linkPeer>>
  BY <1>1, UntouchedTableStutters DEF SessionsUnchanged
<1>2. CASE ScanStopped
  <2>1. nodeConn' = nodeConn
    BY <1>2 DEF ScanStopped, table
  <2>2. \A i \in Slots : nodeConn[i] # NoConn =>
          /\ linkSt'[nodeConn[i]] = linkSt[nodeConn[i]]
          /\ linkPeer'[nodeConn[i]] = linkPeer[nodeConn[i]]
    <3>1. CASE UNCHANGED links
      BY <3>1 DEF links
    <3>2. ASSUME NEW c \in Conns, refs[c] = 0,
                 linkSt' = [linkSt EXCEPT ![c] = "creating"],
                 linkPeer' = [linkPeer EXCEPT ![c] = rx.peer]
          PROVE  \A i \in Slots : nodeConn[i] # NoConn =>
                   /\ linkSt'[nodeConn[i]] = linkSt[nodeConn[i]]
                   /\ linkPeer'[nodeConn[i]] = linkPeer[nodeConn[i]]
      <4>1. ~InTable(c)
        BY <3>2 DEF IInv, RefsBalance, StackRefs, AppRefs, LinksAreTracked
      <4> QED
        BY <3>2, <4>1 DEF InTable, IInv, TypeOK
    <3> QED
      BY <1>2, <3>1, <3>2 DEF ScanStopped
  <2> QED
    BY <2>1, <2>2, UntouchedTableStutters DEF SessionsUnchanged
<1>3. CASE CreateFails
  <2>1. nodeConn' = nodeConn /\ ~InTable(rx.conn)
    BY <1>3 DEF CreateFails, IInv, TypeOK, RxConsistent, LinksAreTracked, FreeSlots
  <2>2. \A i \in Slots : nodeConn[i] # NoConn =>
          /\ linkSt'[nodeConn[i]] = linkSt[nodeConn[i]]
          /\ linkPeer'[nodeConn[i]] = linkPeer[nodeConn[i]]
    BY <1>3, <2>1 DEF CreateFails, InTable, IInv, TypeOK
  <2> QED
    BY <2>1, <2>2, UntouchedTableStutters DEF SessionsUnchanged
<1>4. CASE RxScanStarted
  <2>1. nodeConn' = nodeConn
    BY <1>4 DEF RxScanStarted, table
  <2>2. \A i \in Slots : nodeConn[i] # NoConn =>
          /\ linkSt'[nodeConn[i]] = linkSt[nodeConn[i]]
          /\ linkPeer'[nodeConn[i]] = linkPeer[nodeConn[i]]
    <3>1. CASE UNCHANGED links
      BY <3>1 DEF links
    <3>2. CASE rx.conn # NoConn
      <4>1. \A i \in Slots : nodeConn[i] # rx.conn
        BY <1>4, <3>2 DEF RxScanStarted, IInv, TypeOK, RxConsistent, LinksAreTracked, InTable
      <4> QED
        BY <1>4, <3>2, <4>1 DEF RxScanStarted, IInv, TypeOK
    <3> QED
      BY <1>4, <3>1, <3>2 DEF RxScanStarted
  <2> QED
    BY <2>1, <2>2, UntouchedTableStutters DEF SessionsUnchanged
<1>5. CASE CreateSucceeds
  BY <1>5, CreateOpens DEF Sessions!Next
<1>6. ASSUME NEW c \in Conns, ConnectFailed(c) \/ Connected(c) \/ LinkLost(c) \/ Disconnected(c)
      PROVE  Sessions!Next
  <2>1. PICK p : p = linkPeer[c]
    OBVIOUS
  <2>2. InTable(c)
    BY <1>6 DEF ConnectFailed, Connected, LinkLost, Disconnected, IInv, LinksAreTracked
  <2>3. SessionOf(p) = IF linkSt[c] = "initiating" THEN "opening"
                       ELSE IF linkSt[c] = "up" THEN "open" ELSE "closing"
    BY <2>1, <2>2, SessionOfEntry, NullAssumption DEF InTable, EntrySession
  <2>4. CASE ConnectFailed(c)
    <3>1. p \in Peers /\ Sessions!Moves(p, "opening", "none")
      BY <2>1, <2>2, <2>3, <2>4, ClearingEnds DEF ConnectFailed, IInv, TypeOK
    <3> QED
      BY <3>1 DEF Sessions!Next, Sessions!Fail
  <2>5. CASE Disconnected(c)
    <3>1. p \in Peers /\ Sessions!Moves(p, "closing", "none")
      BY <2>1, <2>2, <2>3, <2>5, ClearingEnds DEF Disconnected, IInv, TypeOK
    <3> QED
      BY <3>1 DEF Sessions!Next, Sessions!Close
  <2>6. CASE Connected(c)
    <3>1. linkSt' = [linkSt EXCEPT ![c] = "up"]
      BY <2>2, <2>6 DEF Connected, InTable, NodesOf
    <3>2. p \in Peers /\ Sessions!Moves(p, "opening", "open")
      BY <2>1, <2>2, <2>3, <2>6, <3>1, LinkStepMoves DEF Connected, table, LinkStates
    <3> QED
      BY <3>2 DEF Sessions!Next, Sessions!Establish
  <2>7. CASE LinkLost(c)
    <3>1. p \in Peers /\ Sessions!Moves(p, "open", "closing")
      BY <2>1, <2>2, <2>3, <2>7, LinkStepMoves DEF LinkLost, table, LinkStates
    <3> QED
      BY <3>1 DEF Sessions!Next, Sessions!Lose
  <2> QED
    BY <1>6, <2>4, <2>5, <2>6, <2>7
<1> QED
  BY <1>1, <1>2, <1>3, <1>4, <1>5, <1>6
     DEF Next, MainNext, RxNext, SysNext, RadioNext, MainBoots, MainScanStarted,
         ConnectedReturns, DeviceFoundIgnored, DeviceFoundChosen, ScanRestartRuns,
         SysScanStarted, PeerAdvertises, PeerLeaves, Hear, vars, table, links

(* The node table implements NodeSessions.                                 *)
THEOREM BaseImplementsSessions == Spec => TableImplementsSessions
<1>1. Init => Sessions!Init
  BY NodeAssumption DEF Init, Sessions!Init, SessionOf
<1>2. IInv /\ IInv' /\ [Next]_vars => [Sessions!Next]_([p \in Peers |-> SessionOf(p)])
  BY StepImplementsSessions DEF SessionsUnchanged
<1> QED
  BY <1>1, <1>2, BaseInductive, PTL DEF Spec, TableImplementsSessions, Sessions!Spec
-----------------------------------------------------------------------------
(* While rx creates and drops nothing, an object in use is in the table:   *)
(* there are no more of them than entries in use, so a table with a free   *)
(* entry leaves an object, if there are as many objects as entries.        *)
LEMMA FreeEntryLeavesObject ==
  ASSUME IsFiniteSet(Conns), Cardinality(Conns) >= MaxNodes, IInv
  PROVE  FreeEntryHasObject
<1> SUFFICES ASSUME rx.pc \in {"idle", "stopping"}
             PROVE  Cardinality({c \in Conns : refs[c] = 0}) >= Cardinality(FreeSlots)
  BY DEF FreeEntryHasObject
<1> DEFINE UsedSlots == Slots \ FreeSlots
           FreeConns == {c \in Conns : refs[c] = 0}
           UsedConns == {c \in Conns : refs[c] # 0}
           f == [i \in UsedSlots |-> nodeConn[i]]
<1>1. IsFiniteSet(Slots) /\ Cardinality(Slots) = MaxNodes
  BY FS_Interval, NodeAssumption DEF Slots
<1>2. /\ IsFiniteSet(UsedSlots)
      /\ Cardinality(UsedSlots) = MaxNodes - Cardinality(FreeSlots)
  <2>1. Slots \cap FreeSlots = FreeSlots
    BY DEF FreeSlots
  <2> QED
    BY <1>1, <2>1, FS_Difference
<1>3. f \in Surjection(UsedSlots, UsedConns)
  <2>1. \A i \in UsedSlots : f[i] \in UsedConns
    <3> SUFFICES ASSUME NEW i \in UsedSlots PROVE nodeConn[i] \in UsedConns
      OBVIOUS
    <3>1. nodeConn[i] \in Conns /\ InTable(nodeConn[i])
      BY DEF FreeSlots, InTable, IInv, TypeOK
    <3>2. linkSt[nodeConn[i]] # "unused"
      BY <3>1 DEF IInv, LinksAreTracked
    <3> QED
      BY <3>1, <3>2 DEF IInv, RefsBalance, StackRefs, AppRefs
  <2>2. \A c \in UsedConns : \E i \in UsedSlots : f[i] = c
    <3> SUFFICES ASSUME NEW c \in UsedConns PROVE \E i \in UsedSlots : nodeConn[i] = c
      OBVIOUS
    <3>1. linkSt[c] \notin {"creating", "failed"}
      BY DEF IInv, RxConsistent
    <3>2. linkSt[c] # "unused" \/ InTable(c)
      BY DEF IInv, RefsBalance, StackRefs, AppRefs
    <3>3. InTable(c)
      BY <3>1, <3>2 DEF IInv, LinksAreTracked, TypeOK, LinkStates
    <3> QED
      BY <3>3, NullAssumption DEF InTable, FreeSlots
  <2> QED
    BY <2>1, <2>2 DEF Surjection
<1>4. IsFiniteSet(UsedConns) /\ Cardinality(UsedConns) <= Cardinality(UsedSlots)
  BY <1>2, <1>3, FS_Surjection
<1>5. Cardinality(FreeConns) = Cardinality(Conns) - Cardinality(UsedConns)
  <2>1. FreeConns = Conns \ UsedConns /\ Conns \cap UsedConns = UsedConns
    OBVIOUS
  <2> QED
    BY <2>1, FS_Difference
<1>6. IsFiniteSet(FreeSlots)
  <2>1. FreeSlots \in SUBSET Slots
    BY DEF FreeSlots
  <2> QED
    BY <1>1, <2>1, FS_Subset
<1>7. /\ Cardinality(UsedSlots) \in Nat /\ Cardinality(UsedConns) \in Nat
      /\ Cardinality(FreeSlots) \in Nat /\ Cardinality(Conns) \in Nat
  BY <1>2, <1>4, <1>6, FS_CardinalityType
<1> QED
  BY <1>2, <1>4, <1>5, <1>7, NodeAssumption

(* With at least as many objects as entries (CONFIG_BT_MAX_CONN), a free   *)
(* entry that device_found chooses always finds an object of the stack.    *)
THEOREM BaseFreeEntryHasObject ==
  ASSUME IsFiniteSet(Conns), Cardinality(Conns) >= MaxNodes
  PROVE  Spec => []FreeEntryHasObject
<1>1. IInv => FreeEntryHasObject
  BY FreeEntryLeavesObject
<1> QED
  BY <1>1, BaseInductive, PTL
=============================================================================
