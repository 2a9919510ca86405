----------------------------- MODULE ScreenFeed -----------------------------
(***************************************************************************)
(* What the way from the nodes to the screen promises however often the    *)
(* log buffer of the base overflows, without that buffer, its messages and *)
(* the lines they make: the screen shows samples of the wheel that were    *)
(* taken, never an older one after a newer one, and cards that were read.  *)
(* It may miss samples and cards, and may be shown a sample again.         *)
(***************************************************************************)
EXTENDS Integers, Sequences

CONSTANT Colours

VARIABLES produced, scanned, shown, known

feedVars == <<produced, scanned, shown, known>>

Init == produced = 0 /\ scanned = {} /\ shown = <<>> /\ known = {}

\* Samples are numbered from 1.
Latest == IF shown = <<>> THEN 1 ELSE shown[Len(shown)]

Produce == produced' = produced + 1 /\ UNCHANGED <<scanned, shown, known>>
Scan(c) == scanned' = scanned \cup {c} /\ UNCHANGED <<produced, shown, known>>
Show(k) == shown' = Append(shown, k) /\ UNCHANGED <<produced, scanned, known>>
Learn(c) == known' = known \cup {c} /\ UNCHANGED <<produced, scanned, shown>>

Next ==
  \/ Produce
  \/ \E c \in Colours : Scan(c)
  \/ \E k \in Latest..produced : Show(k)
  \/ \E c \in scanned : Learn(c)

Spec == Init /\ [][Next]_feedVars
=============================================================================
