---------------------------- MODULE NodeSessions ----------------------------
(***************************************************************************)
(* What the node table of the base station promises, without its slots,    *)
(* connection objects, scanner and threads: a session with each            *)
(* peripheral that is opened, established and closed in this order, and    *)
(* never more sessions at a time than the table has entries.               *)
(***************************************************************************)
EXTENDS Integers, FiniteSets

CONSTANTS Peers, Capacity

VARIABLE session

States == {"none", "opening", "open", "closing"}

Active == {p \in Peers : session[p] # "none"}

Init == session = [p \in Peers |-> "none"]

Moves(p, from, to) == session[p] = from /\ session' = [session EXCEPT ![p] = to]

Open(p)      == Moves(p, "none", "opening") /\ Cardinality(Active) < Capacity
Fail(p)      == Moves(p, "opening", "none")
Establish(p) == Moves(p, "opening", "open")
Lose(p)      == Moves(p, "open", "closing")
Close(p)     == Moves(p, "closing", "none")

Next == \E p \in Peers : Open(p) \/ Fail(p) \/ Establish(p) \/ Lose(p) \/ Close(p)

Spec == Init /\ [][Next]_session
=============================================================================
