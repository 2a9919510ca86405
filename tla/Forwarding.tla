----------------------------- MODULE Forwarding -----------------------------
(***************************************************************************)
(* The way of a notification from the base to the screen: notify_func      *)
(* (00base/src/main.c:333-372) hands its text to LOG_INF and printk, both  *)
(* put a message into the deferred log buffer, the log thread writes the   *)
(* buffer to the UART, and SerialReader._run of the GUI                    *)
(* (03GUI/ship_navigation-4.py:213-252) reads lines.                       *)
(*                                                                         *)
(* A line is of use only if it holds one JSON object: JSON_RE takes all    *)
(* from the first brace to the last.  The text of the wheel node has no    *)
(* line break, so what :357 and :367 print becomes one line of two objects *)
(* and only the log line of :355 tells the GUI anything.  The card reader  *)
(* ends its text with a line break, and each scan is told twice.           *)
(*                                                                         *)
(* notify_func is never interrupted by the log thread, which has the       *)
(* lowest priority.  The buffer overwrites its oldest messages when it is  *)
(* full (CONFIG_LOG_MODE_OVERFLOW); its bytes are counted in messages.     *)
(***************************************************************************)
EXTENDS Integers, Sequences, SequencesExt

CONSTANTS
  Cards,        \* colours of the cards
  LogSize,      \* messages the buffer holds
  MaxSamples,   \* bound: samples of the wheel node
  MaxScans,     \* bound: scans
  MaxOthers     \* bound: log messages about other things

ASSUME ForwardingAssumption ==
  /\ "none" \notin Cards
  /\ LogSize \in Nat \ {0} /\ MaxSamples \in Nat /\ MaxScans \in Nat /\ MaxOthers \in Nat

VARIABLES
  log,          \* the log buffer
  line,         \* the JSON objects of the line that has no end yet
  arrived,      \* SerialReader: the samples taken in; the last is prev_steering
  scannedColours,
  sampled, scans, others,  \* history: how many were sent, and which cards
  overwritten   \* history: messages that were overwritten

gui == <<scannedColours, arrived>>
sent == <<sampled, scans, others>>
vars == <<log, line, gui, sent, overwritten>>

\* A message holds a sample, a card or neither, and may end its line.  Samples
\* are numbered in the order of their notifications.
Message == [sample : 0..MaxSamples, card : Cards \cup {"none"}, ends : BOOLEAN]
Text(n, c, e) == [sample |-> n, card |-> c, ends |-> e]
HasObject(m) == m.sample # 0 \/ m.card # "none"

\* notify_func: the log line, the bare text, and what follows for the kind.
SampleTextMutant(n) == <<Text(n, "none", FALSE), Text(n, "none", TRUE)>>
SampleText(n) == <<Text(n, "none", TRUE), Text(n, "none", FALSE), Text(n, "none", TRUE)>>
ScanTextMutant(c) == <<Text(0, c, TRUE), Text(0, "none", TRUE)>>
ScanText(c) == <<Text(0, c, TRUE), Text(0, c, TRUE), Text(0, "none", TRUE)>>

\* Messages enter the buffer; the oldest make room, one or, when they are
\* shorter than the new ones, a few more.
KeptMutant(all, n) == all                    \* a buffer without an end
KeptFromMutant(all, n) ==                    \* a ring that wraps but is read from its first slot
  SubSeq(all, n + 1, Len(all)) \o SubSeq(all, Len(all) - n + 1, n)
Kept(all, n) == SubSeq(all, Len(all) - n + 1, Len(all))
Logged(texts) ==
  LET all == log \o texts
      fits == {n \in 0..LogSize : n = Len(all) \/ (LogSize < Len(all) /\ n >= LogSize - 1)} IN
  \E n \in fits : log' = Kept(all, n) /\ overwritten' = overwritten + Len(all) - n

-----------------------------------------------------------------------------
Init ==
  /\ log = <<>> /\ line = <<>>
  /\ scannedColours = {} /\ arrived = <<>>
  /\ sampled = 0 /\ scans = <<>> /\ others = 0 /\ overwritten = 0

SampleNotified ==
  /\ sampled < MaxSamples
  /\ sampled' = sampled + 1
  /\ Logged(SampleText(sampled'))
  /\ UNCHANGED <<line, gui, scans, others>>

ScanNotified(c) ==
  /\ Len(scans) < MaxScans
  /\ scans' = Append(scans, c)
  /\ Logged(ScanText(c))
  /\ UNCHANGED <<line, gui, sampled, others>>

\* A link comes or goes, a command is written: a line without an object.
OtherLogged ==
  /\ others < MaxOthers
  /\ others' = others + 1
  /\ Logged(<<Text(0, "none", TRUE)>>)
  /\ UNCHANGED <<line, gui, sampled, scans>>

\* The reader takes a line in: one object is parsed, two are an error.
TakesIn(objects) ==
  IF Len(objects) # 1 THEN UNCHANGED gui
  ELSE LET m == objects[1] IN
       IF m.sample # 0
         THEN arrived' = Append(arrived, m.sample) /\ UNCHANGED scannedColours
         ELSE scannedColours' = scannedColours \cup {m.card} /\ UNCHANGED arrived

\* The log thread writes the oldest message; the UART and the reader follow.
LogThread ==
  /\ log # <<>>
  /\ LET m == Head(log)
         objects == IF HasObject(m) THEN Append(line, m) ELSE line IN
     IF m.ends THEN line' = <<>> /\ TakesIn(objects) ELSE line' = objects /\ UNCHANGED gui
  /\ log' = Tail(log)
  /\ UNCHANGED <<sent, overwritten>>

Next ==
  \/ SampleNotified \/ OtherLogged \/ LogThread
  \/ \E c \in Cards : ScanNotified(c)

Spec == Init /\ [][Next]_vars

-----------------------------------------------------------------------------
FwTypeOK ==
  /\ log \in Seq(Message) /\ Len(log) <= LogSize /\ line \in Seq(Message)
  /\ arrived \in Seq(1..MaxSamples)
  /\ scannedColours \subseteq Cards
  /\ sampled \in 0..MaxSamples /\ scans \in Seq(Cards) /\ others \in 0..MaxOthers
  /\ overwritten \in Nat

\* As long as the buffer never overflows, every sample reaches the screen, once
\* and in its order (twice would make the difference to the one before, which
\* steers, zero), and so does every scan.
NothingIsLostInTime ==
  overwritten = 0 /\ log = <<>> =>
    /\ arrived = [i \in 1..sampled |-> i]
    /\ scannedColours = ToSet(scans)

\* One message overwritten, at whatever place, costs no scan: it is told twice,
\* and the second time on a line that no fragment of another text spoils.
OneLossSparesScans ==
  overwritten <= 1 /\ log = <<>> => scannedColours = ToSet(scans)

\* However much is overwritten and however the lines are torn by it, the reader
\* takes in no sample after a newer one (the difference of two samples steers),
\* and no card that was not read: what the base forwards implements ScreenFeed.
Screen == INSTANCE ScreenFeed
  WITH Colours <- Cards, produced <- sampled, scanned <- ToSet(scans),
       shown <- arrived, known <- scannedColours

ForwardsInOrder == Screen!Spec
=============================================================================
