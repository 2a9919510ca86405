--------------------------- MODULE ForwardingProofs ---------------------------
(***************************************************************************)
(* The way of a notification to the screen, for a log buffer of any size   *)
(* and any number of samples, scans and other messages: nothing is lost    *)
(* before the buffer overflows, a scan survives the loss of one message,   *)
(* and whatever is lost, samples stay in their order (ScreenFeed).         *)
(***************************************************************************)
EXTENDS Forwarding, SequenceTheorems, TLAPS

(* What notify_func and the rest of the base log: a card has a line of its *)
(* own, and only a sample does not end its line.                           *)
LogTexts == {m \in Message : /\ m.card # "none" => m.sample = 0 /\ m.ends
                             /\ ~m.ends => m.sample # 0}
Fragments == {m \in Message : m.sample # 0 /\ m.card = "none"}

FwIInv ==
  /\ log \in Seq(LogTexts) /\ Len(log) <= LogSize /\ line \in Seq(Fragments)
  /\ arrived \in Seq(1..MaxSamples) /\ scannedColours \subseteq Cards
  /\ sampled \in 0..MaxSamples /\ scans \in Seq(Cards) /\ others \in 0..MaxOthers
  /\ overwritten \in Nat

(* Does message i of the buffer begin a line?                              *)
Clean(i) == IF i = 1 THEN line = <<>> ELSE log[i - 1].ends

(* As long as nothing is overwritten, a line that has begun ends with the  *)
(* next message, which is an object too: the reader drops that line.       *)
SpoiltLinesEnd ==
  overwritten = 0 =>
    \A i \in 1..(Len(log) + 1) :
      ~Clean(i) => i <= Len(log) /\ log[i].sample # 0 /\ log[i].ends

(* A scan the screen does not know yet is in the buffer, twice as long as  *)
(* nothing is overwritten, and after one loss at the beginning of a line.  *)
Waits(c) == \E i \in 1..Len(log) : log[i].card = c /\ Clean(i)
WaitsTwice(c) == \E i \in 1..(Len(log) - 1) : log[i].card = c /\ log[i + 1].card = c
ScansWait ==
  \A c \in ToSet(scans) \ scannedColours :
    /\ overwritten <= 1 => Waits(c)
    /\ overwritten = 0 => WaitsTwice(c)
CardsWereRead ==
  /\ \A i \in 1..Len(log) : log[i].card \in ToSet(scans) \cup {"none"}
  /\ scannedColours \subseteq ToSet(scans)

(* The message that tells the reader a sample: as long as nothing is       *)
(* overwritten there is one for each sample that is yet to come.           *)
Tells(i) == log[i].sample # 0 /\ log[i].ends /\ Clean(i)
SamplesWait ==
  overwritten = 0 =>
    /\ Len(arrived) <= sampled
    /\ \A i \in 1..Len(arrived) : arrived[i] = i
    /\ \A i \in 1..Len(log) : Tells(i) => log[i].sample > Len(arrived)
    /\ \A i, j \in 1..Len(log) : Tells(i) /\ Tells(j) /\ i < j => log[i].sample < log[j].sample
    /\ \A k \in (Len(arrived) + 1)..sampled : \E i \in 1..Len(log) : Tells(i) /\ log[i].sample = k

(* However much is overwritten: the samples on their way are in order.     *)
Seen == IF arrived = <<>> THEN 1 ELSE arrived[Len(arrived)]
SamplesInOrder ==
  /\ Seen <= sampled + 1
  /\ \A i \in 1..Len(line) : Seen <= line[i].sample /\ line[i].sample <= sampled
  /\ \A i \in 1..Len(log) : log[i].sample # 0 => Seen <= log[i].sample /\ log[i].sample <= sampled
  /\ \A i \in 1..Len(line), j \in 1..Len(log) : log[j].sample # 0 => line[i].sample <= log[j].sample
  /\ \A i, j \in 1..Len(log) :
       log[i].sample # 0 /\ log[j].sample # 0 /\ i <= j => log[i].sample <= log[j].sample
  /\ \A i, j \in 1..Len(line) : i <= j => line[i].sample <= line[j].sample

-----------------------------------------------------------------------------
(* The log buffer.                                                         *)

(* What is kept is the end of what was there, in its order.                *)
LEMMA LoggedKeepsTheEnd ==
  ASSUME NEW S, log \in Seq(S), NEW texts \in Seq(S), overwritten \in Nat, Logged(texts)
  PROVE  /\ log' \in Seq(S) /\ Len(log') <= LogSize
         /\ \E lost \in Nat :
              /\ overwritten' = overwritten + lost
              /\ Len(log') + lost = Len(log) + Len(texts)
              /\ \A i \in 1..Len(log') :
                   log'[i] = IF i + lost <= Len(log) THEN log[i + lost] ELSE texts[(i + lost) - Len(log)]
<1> DEFINE all == log \o texts
<1>1. /\ all \in Seq(S) /\ Len(all) = Len(log) + Len(texts) /\ Len(log) \in Nat /\ Len(texts) \in Nat
      /\ \A i \in 1..(Len(log) + Len(texts)) :
           all[i] = IF i <= Len(log) THEN log[i] ELSE texts[i - Len(log)]
  BY ConcatProperties, LenProperties
<1> HIDE DEF all
<1>2. PICK n \in 0..LogSize :
        /\ n = Len(all) \/ (LogSize < Len(all) /\ n >= LogSize - 1)
        /\ log' = SubSeq(all, Len(all) - n + 1, Len(all))
        /\ overwritten' = overwritten + Len(all) - n
  BY Zenon DEF Logged, Kept, all
<1>3. n \in Nat /\ n <= Len(all) /\ Len(all) \in Nat /\ LogSize \in Nat /\ n <= LogSize
  BY <1>1, <1>2, ForwardingAssumption
<1>4. /\ log' \in Seq(S) /\ Len(log') = n
      /\ \A i \in 1..n : log'[i] = all[Len(all) - n + i]
  <2> DEFINE a == Len(all) - n + 1
             b == Len(all)
  <2>1. a \in 1..(b + 1) /\ b \in Nat
    BY <1>3
  <2>2. \A i \in a..b : all[i] \in S
    BY <1>1, <2>1, ElementOfSeq
  <2>3. /\ SubSeq(all, a, b) \in Seq(S)
        /\ Len(SubSeq(all, a, b)) = IF a <= b THEN b - a + 1 ELSE 0
        /\ \A i \in 1..(b - a + 1) : SubSeq(all, a, b)[i] = all[a + i - 1]
    <3> HIDE DEF a, b
    <3> QED
      BY <2>1, <2>2, SubSeqProperties
  <2> QED
    BY <1>2, <1>3, <2>3
<1> DEFINE lost == Len(all) - n
<1>5. lost \in Nat /\ n + lost = Len(all)
  BY <1>3
<1>6. overwritten' = overwritten + lost
  BY <1>2, <1>3
<1> HIDE DEF lost
<1>7. Len(log') + lost = Len(log) + Len(texts)
  BY <1>1, <1>3, <1>4, <1>5
<1>8. ASSUME NEW i \in 1..Len(log')
      PROVE  log'[i] = IF i + lost <= Len(log) THEN log[i + lost] ELSE texts[(i + lost) - Len(log)]
  <2>1. i \in 1..n
    BY <1>4
  <2>2. i \in Int /\ i + lost \in 1..Len(all) /\ Len(all) - n + i = i + lost
    BY <1>3, <1>5, <2>1
  <2> DEFINE k == i + lost
  <2>3. k \in 1..(Len(log) + Len(texts)) /\ Len(all) - n + i = k
    BY <1>1, <2>2
  <2> HIDE DEF k
  <2>4. log'[i] = all[k]
    BY <1>4, <2>1, <2>3
  <2>5. log'[i] = IF k <= Len(log) THEN log[k] ELSE texts[k - Len(log)]
    BY <1>1, <2>3, <2>4
  <2> QED
    BY <2>5 DEF k
<1> QED
  BY <1>3, <1>4, <1>5, <1>6, <1>7, <1>8

LEMMA TuplesAreSeqs ==
  ASSUME NEW S, NEW a \in S, NEW b \in S, NEW c \in S
  PROVE  <<a>> \in Seq(S) /\ <<a, b, c>> \in Seq(S)
OBVIOUS

(* What the base logs are such texts, of samples sent so far.              *)
LEMMA TextsOfTheBase ==
  ASSUME FwIInv
  PROVE  /\ sampled < MaxSamples => SampleText(sampled + 1) \in Seq(LogTexts)
         /\ \A c \in Cards : ScanText(c) \in Seq(LogTexts)
         /\ <<Text(0, "none", TRUE)>> \in Seq(LogTexts)
<1>1. Text(0, "none", TRUE) \in LogTexts
  BY ForwardingAssumption DEF Text, LogTexts, Message
<1>2. ASSUME sampled < MaxSamples
      PROVE  Text(sampled + 1, "none", TRUE) \in LogTexts /\ Text(sampled + 1, "none", FALSE) \in LogTexts
  <2>1. sampled + 1 \in 0..MaxSamples /\ sampled + 1 # 0
    BY <1>2, ForwardingAssumption DEF FwIInv
  <2> QED
    BY <2>1 DEF Text, LogTexts, Message
<1>3. ASSUME NEW c \in Cards PROVE Text(0, c, TRUE) \in LogTexts
  BY ForwardingAssumption DEF Text, LogTexts, Message
<1>4. ASSUME sampled < MaxSamples PROVE SampleText(sampled + 1) \in Seq(LogTexts)
  BY <1>2, <1>4, TuplesAreSeqs, Zenon DEF SampleText
<1>5. ASSUME NEW c \in Cards PROVE ScanText(c) \in Seq(LogTexts)
  BY <1>1, <1>3, TuplesAreSeqs, Zenon DEF ScanText
<1>6. <<Text(0, "none", TRUE)>> \in Seq(LogTexts)
  BY <1>1, TuplesAreSeqs, Zenon
<1> QED
  BY <1>4, <1>5, <1>6

LEMMA TextsSay ==
  /\ \A n : LET t == SampleText(n) IN
       /\ Len(t) = 3 /\ t[1].ends /\ ~t[2].ends /\ t[3].ends
       /\ \A i \in 1..3 : t[i].sample = n /\ t[i].card = "none"
  /\ \A c : LET t == ScanText(c) IN
       /\ Len(t) = 3 /\ t[1].card = c /\ t[2].card = c /\ t[3].card = "none"
       /\ \A i \in 1..3 : t[i].sample = 0 /\ t[i].ends
  /\ LET t == <<Text(0, "none", TRUE)>> IN
       Len(t) = 1 /\ \A i \in 1..1 : t[i].sample = 0 /\ t[i].card = "none" /\ t[i].ends
<1>1. ASSUME NEW n
      PROVE  LET t == SampleText(n) IN
             /\ Len(t) = 3 /\ t[1].ends /\ ~t[2].ends /\ t[3].ends
             /\ \A i \in 1..3 : t[i].sample = n /\ t[i].card = "none"
  BY DEF SampleText, Text
<1>2. ASSUME NEW c
      PROVE  LET t == ScanText(c) IN
             /\ Len(t) = 3 /\ t[1].card = c /\ t[2].card = c /\ t[3].card = "none"
             /\ \A i \in 1..3 : t[i].sample = 0 /\ t[i].ends
  BY DEF ScanText, Text
<1>3. LET t == <<Text(0, "none", TRUE)>> IN
      Len(t) = 1 /\ \A i \in 1..1 : t[i].sample = 0 /\ t[i].card = "none" /\ t[i].ends
  BY DEF Text
<1> QED
  BY <1>1, <1>2, <1>3

(* The log thread takes the oldest message out.                            *)
LEMMA OldestLeaves ==
  ASSUME FwIInv, LogThread
  PROVE  /\ Head(log) = log[1] /\ log[1] \in LogTexts /\ Len(log) \in Nat \ {0}
         /\ log' \in Seq(LogTexts) /\ Len(log') = Len(log) - 1
         /\ \A i \in 1..Len(log') : i + 1 \in 1..Len(log) /\ log'[i] = log[i + 1]
         /\ UNCHANGED sent /\ overwritten' = overwritten
<1>1. log \in Seq(LogTexts) /\ log # <<>> /\ log' = Tail(log) /\ UNCHANGED <<sent, overwritten>>
  BY DEF FwIInv, LogThread
<1>2. Len(log) \in Nat /\ Len(log) # 0
  BY <1>1, LenProperties, EmptySeq
<1>3. /\ Head(log) \in LogTexts /\ log' \in Seq(LogTexts) /\ Len(log') = Len(log) - 1
      /\ Head(log) = log[1] /\ \A i \in 1..(Len(log) - 1) : Tail(log)[i] = log[i + 1]
  BY <1>1, <1>2, HeadTailProperties
<1> QED
  BY <1>1, <1>2, <1>3

(* The steps of the reader: it stores a fragment, or it takes a line in.   *)
LEMMA ReaderSteps ==
  ASSUME FwIInv, LogThread, NEW m, m = log[1]
  PROVE  \/ /\ ~m.ends /\ m \in Fragments
            /\ line' = Append(line, m) /\ UNCHANGED gui
         \/ /\ m.ends /\ line' = <<>>
            /\ \/ line # <<>> /\ UNCHANGED gui
               \/ line = <<>> /\ m.sample = 0 /\ m.card = "none" /\ UNCHANGED gui
               \/ line = <<>> /\ m.sample # 0 /\ arrived' = Append(arrived, m.sample) /\ UNCHANGED scannedColours
               \/ /\ line = <<>> /\ m.sample = 0 /\ m.card \in Cards
                  /\ scannedColours' = scannedColours \cup {m.card} /\ UNCHANGED arrived
               \/ /\ line # <<>> /\ m.sample = 0
                  /\ arrived' = Append(arrived, line[1].sample) /\ UNCHANGED scannedColours
<1> DEFINE objects == IF HasObject(m) THEN Append(line, m) ELSE line
<1>1. m = Head(log) /\ m \in LogTexts
  BY OldestLeaves
<1>2. IF m.ends THEN line' = <<>> /\ TakesIn(objects) ELSE line' = objects /\ UNCHANGED gui
  BY <1>1 DEF LogThread
<1>3. m \in Message /\ (m.card # "none" => m.sample = 0 /\ m.ends) /\ (~m.ends => m.sample # 0)
  BY <1>1 DEF LogTexts
<1>4. line \in Seq(Fragments) /\ Len(line) \in Nat /\ (Len(line) = 0 <=> line = <<>>)
  BY LenProperties, EmptySeq DEF FwIInv
<1>5. CASE ~m.ends
  <2>1. HasObject(m) /\ m \in Fragments
    BY <1>3, <1>5 DEF HasObject, Fragments
  <2> QED
    BY <1>2, <1>5, <2>1
<1>6. CASE m.ends /\ line = <<>>
  <2>1. HasObject(m) => objects = <<m>> /\ Len(objects) = 1 /\ objects[1] = m
    BY <1>6
  <2>2. ~HasObject(m) => Len(objects) = 0
    BY <1>4, <1>6
  <2>3. TakesIn(objects) /\ line' = <<>>
    BY <1>2, <1>6
  <2> HIDE DEF objects
  <2>4. CASE ~HasObject(m)
    BY <1>6, <2>2, <2>3, <2>4 DEF TakesIn, HasObject
  <2>5. CASE m.sample # 0
    <3>1. HasObject(m)
      BY <2>5 DEF HasObject
    <3> QED
      BY <1>6, <2>1, <2>3, <2>5, <3>1 DEF TakesIn
  <2>6. CASE m.sample = 0 /\ m.card # "none"
    <3>1. HasObject(m) /\ m.card \in Cards
      BY <1>3, <2>6 DEF HasObject, Message
    <3> QED
      BY <1>6, <2>1, <2>3, <2>6, <3>1 DEF TakesIn
  <2> QED
    BY <2>4, <2>5, <2>6 DEF HasObject
<1>7. CASE m.ends /\ line # <<>>
  <2>1. TakesIn(objects) /\ line' = <<>>
    BY <1>2, <1>7
  <2>2. CASE HasObject(m)
    <3>1. Len(objects) = Len(line) + 1
      BY <1>4, <2>2, AppendProperties
    <3>2. Len(objects) # 1
      BY <1>4, <1>7, <3>1
    <3> QED
      BY <1>7, <2>1, <3>2 DEF TakesIn
  <2>3. CASE ~HasObject(m) /\ Len(line) # 1
    BY <1>7, <2>1, <2>3 DEF TakesIn
  <2>4. CASE ~HasObject(m) /\ Len(line) = 1
    <3>1. line[1] \in Fragments
      BY <1>4, <2>4, ElementOfSeq
    <3>2. line[1].sample # 0 /\ m.sample = 0
      BY <2>4, <3>1 DEF Fragments, HasObject
    <3> QED
      BY <1>7, <2>1, <2>4, <3>2 DEF TakesIn
  <2> QED
    BY <2>2, <2>3, <2>4
<1> QED
  BY <1>5, <1>6, <1>7

-----------------------------------------------------------------------------
(* Types.                                                                  *)

LEMMA InitFwIInv == Init => FwIInv
BY EmptySeq, ForwardingAssumption DEF Init, FwIInv

LEMMA StepKeepsFwIInv == FwIInv /\ [Next]_vars => FwIInv'
<1> SUFFICES ASSUME FwIInv, [Next]_vars PROVE FwIInv'
  OBVIOUS
<1>1. ASSUME NEW texts \in Seq(LogTexts), Logged(texts)
      PROVE  log' \in Seq(LogTexts) /\ Len(log') <= LogSize /\ overwritten' \in Nat
  BY <1>1, LoggedKeepsTheEnd DEF FwIInv
<1>2. CASE SampleNotified
  <2>1. /\ sampled < MaxSamples /\ sampled' = sampled + 1 /\ Logged(SampleText(sampled + 1))
        /\ UNCHANGED <<line, gui, scans, others>>
    BY <1>2 DEF SampleNotified
  <2>2. SampleText(sampled + 1) \in Seq(LogTexts)
    BY <2>1, TextsOfTheBase
  <2>3. sampled' \in 0..MaxSamples
    BY <2>1, ForwardingAssumption DEF FwIInv
  <2> QED
    BY <1>1, <2>1, <2>2, <2>3 DEF FwIInv, gui
<1>3. ASSUME NEW c \in Cards, ScanNotified(c) PROVE FwIInv'
  <2>1. scans' = Append(scans, c) /\ Logged(ScanText(c)) /\ UNCHANGED <<line, gui, sampled, others>>
    BY <1>3 DEF ScanNotified
  <2>2. ScanText(c) \in Seq(LogTexts)
    BY TextsOfTheBase
  <2>3. scans' \in Seq(Cards)
    BY <2>1, AppendProperties DEF FwIInv
  <2> QED
    BY <1>1, <2>1, <2>2, <2>3 DEF FwIInv, gui
<1>4. CASE OtherLogged
  <2>1. /\ others < MaxOthers /\ others' = others + 1 /\ Logged(<<Text(0, "none", TRUE)>>)
        /\ UNCHANGED <<line, gui, sampled, scans>>
    BY <1>4 DEF OtherLogged
  <2>2. <<Text(0, "none", TRUE)>> \in Seq(LogTexts)
    BY TextsOfTheBase
  <2>3. others' \in 0..MaxOthers
    BY <2>1, ForwardingAssumption DEF FwIInv
  <2> QED
    BY <1>1, <2>1, <2>2, <2>3 DEF FwIInv, gui
<1>5. CASE LogThread
  <2> DEFINE m == log[1]
  <2>1. /\ log' \in Seq(LogTexts) /\ Len(log') <= LogSize /\ m \in LogTexts
        /\ UNCHANGED sent /\ overwritten' = overwritten
    BY <1>5, OldestLeaves, ForwardingAssumption DEF FwIInv
  <2>2. line' \in Seq(Fragments)
    <3>1. line' = <<>> \/ (m \in Fragments /\ line' = Append(line, m))
      BY <1>5, ReaderSteps
    <3>2. line \in Seq(Fragments) /\ <<>> \in Seq(Fragments)
      BY EmptySeq DEF FwIInv
    <3>3. m \in Fragments => Append(line, m) \in Seq(Fragments)
      BY <3>2, AppendProperties
    <3> QED
      BY <3>1, <3>2, <3>3
  <2>3. ASSUME NEW n \in 1..MaxSamples PROVE Append(arrived, n) \in Seq(1..MaxSamples)
    BY AppendProperties DEF FwIInv
  <2>4. m.sample # 0 => m.sample \in 1..MaxSamples
    BY <2>1 DEF LogTexts, Message
  <2>5. line # <<>> => line[1].sample \in 1..MaxSamples
    <3>1. line # <<>> => line[1] \in Fragments
      BY HeadTailProperties DEF FwIInv
    <3> QED
      BY <3>1 DEF Fragments, Message
  <2>6. \/ UNCHANGED gui
        \/ m.sample # 0 /\ arrived' = Append(arrived, m.sample) /\ UNCHANGED scannedColours
        \/ m.card \in Cards /\ scannedColours' = scannedColours \cup {m.card} /\ UNCHANGED arrived
        \/ line # <<>> /\ arrived' = Append(arrived, line[1].sample) /\ UNCHANGED scannedColours
    BY <1>5, ReaderSteps
  <2>7. arrived' \in Seq(1..MaxSamples) /\ scannedColours' \subseteq Cards
    BY <2>3, <2>4, <2>5, <2>6 DEF FwIInv, gui
  <2> QED
    BY <2>1, <2>2, <2>7 DEF FwIInv, sent
<1>6. CASE UNCHANGED vars
  BY <1>6 DEF vars, gui, sent, FwIInv
<1> QED
  BY <1>2, <1>3, <1>4, <1>5, <1>6 DEF Next

LEMMA FwIInvHolds == Spec => []FwIInv
BY InitFwIInv, StepKeepsFwIInv, PTL DEF Spec

(* Every variable stays within its type, and the buffer within its size.   *)
THEOREM ForwardingTypesHold == Spec => []FwTypeOK
<1>1. FwIInv => FwTypeOK
  <2> SUFFICES ASSUME FwIInv PROVE FwTypeOK
    OBVIOUS
  <2>1. LogTexts \subseteq Message /\ Fragments \subseteq Message
    BY DEF LogTexts, Fragments
  <2>2. log \in Seq(Message) /\ line \in Seq(Message)
    BY <2>1, SeqMonotonic DEF FwIInv
  <2> QED
    BY <2>2 DEF FwIInv, FwTypeOK
<1> QED
  BY <1>1, FwIInvHolds, PTL

-----------------------------------------------------------------------------
(* Lines.                                                                  *)

(* What the base logs joins the end of the buffer, as long as nothing is   *)
(* overwritten.                                                            *)
LEMMA TextsJoin ==
  ASSUME FwIInv, NEW texts \in Seq(LogTexts), Logged(texts), line' = line, overwritten' = overwritten
  PROVE  /\ Len(log) \in Nat /\ Len(texts) \in Nat /\ Len(log') = Len(log) + Len(texts)
         /\ \A i \in 1..Len(log) : log'[i] = log[i]
         /\ \A k \in 1..Len(texts) : log'[Len(log) + k] = texts[k]
         /\ \A i \in 1..(Len(log) + 1) : Clean(i)' <=> Clean(i)
         /\ \A i \in (Len(log) + 2)..(Len(log') + 1) : Clean(i)' <=> texts[i - 1 - Len(log)].ends
<1>1. /\ log \in Seq(LogTexts) /\ overwritten \in Nat /\ Len(log) \in Nat /\ Len(texts) \in Nat
  BY LenProperties DEF FwIInv
<1>2. PICK lost \in Nat :
        /\ overwritten' = overwritten + lost
        /\ Len(log') + lost = Len(log) + Len(texts)
        /\ \A i \in 1..Len(log') :
             log'[i] = IF i + lost <= Len(log) THEN log[i + lost] ELSE texts[(i + lost) - Len(log)]
  BY <1>1, LoggedKeepsTheEnd
<1>3. lost = 0
  BY <1>1, <1>2
<1>4. Len(log') \in Nat
  BY <1>1, LoggedKeepsTheEnd, LenProperties
<1>5. Len(log') = Len(log) + Len(texts)
  BY <1>1, <1>2, <1>3, <1>4
<1>6. \A i \in 1..Len(log) : log'[i] = log[i]
  BY <1>1, <1>2, <1>3, <1>5
<1>7. \A k \in 1..Len(texts) : log'[Len(log) + k] = texts[k]
  BY <1>1, <1>2, <1>3, <1>5
<1>8. ASSUME NEW i \in 1..(Len(log) + 1) PROVE Clean(i)' <=> Clean(i)
  <2>1. CASE i = 1
    BY <2>1 DEF Clean
  <2>2. CASE i # 1
    <3>1. i - 1 \in 1..Len(log)
      BY <1>1, <2>2
    <3> QED
      BY <1>6, <2>2, <3>1 DEF Clean
  <2> QED
    BY <2>1, <2>2
<1>9. ASSUME NEW i \in (Len(log) + 2)..(Len(log') + 1) PROVE Clean(i)' <=> texts[i - 1 - Len(log)].ends
  <2> DEFINE k == i - 1 - Len(log)
  <2>1. k \in 1..Len(texts) /\ i - 1 = Len(log) + k /\ i # 1
    BY <1>1, <1>5
  <2>2. log'[i - 1] = texts[k]
    BY <1>7, <2>1
  <2> QED
    BY <2>1, <2>2 DEF Clean
<1> QED
  BY <1>1, <1>5, <1>6, <1>7, <1>8, <1>9

(* When the oldest message leaves, the others move up: a line begins where *)
(* it began before.                                                        *)
LEMMA LinesMoveUp ==
  ASSUME FwIInv, LogThread, NEW i \in 1..(Len(log') + 1) PROVE Clean(i)' <=> Clean(i + 1)
<1> DEFINE m == log[1]
<1>1. /\ m \in LogTexts /\ Len(log) \in Nat \ {0} /\ Len(log') = Len(log) - 1
      /\ \A j \in 1..Len(log') : log'[j] = log[j + 1]
  BY OldestLeaves
<1>2. CASE i = 1
  <2>1. ~m.ends => line' # <<>>
    <3>1. ~m.ends => m \in Fragments /\ line' = Append(line, m)
      BY ReaderSteps
    <3> QED
      BY <3>1, AppendProperties DEF FwIInv
  <2>2. m.ends => line' = <<>>
    BY ReaderSteps
  <2> QED
    BY <1>2, <2>1, <2>2 DEF Clean
<1>3. CASE i # 1
  <2>1. i - 1 \in 1..Len(log') /\ (i - 1) + 1 = i /\ (i + 1) - 1 = i /\ i + 1 # 1
    BY <1>1, <1>3
  <2>2. log'[i - 1] = log[i]
    BY <1>1, <2>1
  <2> QED
    BY <1>3, <2>1, <2>2 DEF Clean
<1> QED
  BY <1>2, <1>3

(* The three ways the base logs something.                                 *)
Notifies(texts) ==
  /\ Logged(texts) /\ UNCHANGED <<line, gui>>
  /\ \/ texts = SampleText(sampled') /\ sampled' = sampled + 1 /\ UNCHANGED scans
     \/ \E c \in Cards : texts = ScanText(c) /\ scans' = Append(scans, c) /\ UNCHANGED sampled
     \/ texts = <<Text(0, "none", TRUE)>> /\ UNCHANGED <<sampled, scans>>

LEMMA BaseNotifies ==
  ASSUME FwIInv, [Next]_vars
  PROVE  LogThread \/ UNCHANGED vars \/ \E texts \in Seq(LogTexts) : Notifies(texts)
<1>1. CASE SampleNotified
  <2>1. /\ sampled < MaxSamples /\ sampled' = sampled + 1 /\ Logged(SampleText(sampled'))
        /\ UNCHANGED <<line, gui, scans>>
    BY <1>1 DEF SampleNotified
  <2>2. SampleText(sampled') \in Seq(LogTexts) /\ Notifies(SampleText(sampled'))
    BY <2>1, TextsOfTheBase DEF Notifies
  <2> QED
    BY <2>2
<1>2. ASSUME NEW c \in Cards, ScanNotified(c) PROVE \E texts \in Seq(LogTexts) : Notifies(texts)
  <2>1. ScanText(c) \in Seq(LogTexts) /\ Notifies(ScanText(c))
    BY <1>2, TextsOfTheBase DEF Notifies, ScanNotified
  <2> QED
    BY <2>1
<1>3. CASE OtherLogged
  <2>1. <<Text(0, "none", TRUE)>> \in Seq(LogTexts) /\ Notifies(<<Text(0, "none", TRUE)>>)
    BY <1>3, TextsOfTheBase DEF Notifies, OtherLogged
  <2> QED
    BY <2>1
<1> QED
  BY <1>1, <1>2, <1>3 DEF Next

(* A line that is spoilt ends with the next message, before and after each *)
(* step: the base logs a sample's three messages without a gap.            *)
LEMMA SpoiltLinesKeepEnding ==
  ASSUME FwIInv, SpoiltLinesEnd, [Next]_vars PROVE SpoiltLinesEnd'
<1> SUFFICES ASSUME overwritten' = 0, NEW i \in 1..(Len(log') + 1), ~Clean(i)'
             PROVE  i <= Len(log') /\ log'[i].sample # 0 /\ log'[i].ends
  BY DEF SpoiltLinesEnd
<1>1. ASSUME NEW texts \in Seq(LogTexts), Notifies(texts)
      PROVE  i <= Len(log') /\ log'[i].sample # 0 /\ log'[i].ends
  <2>1. Logged(texts) /\ line' = line
    BY <1>1 DEF Notifies
  <2>2. overwritten = 0 /\ overwritten' = overwritten
    BY <2>1, LoggedKeepsTheEnd DEF FwIInv
  <2>3. /\ Len(log) \in Nat /\ Len(texts) \in Nat /\ Len(log') = Len(log) + Len(texts)
        /\ \A j \in 1..Len(log) : log'[j] = log[j]
        /\ \A k \in 1..Len(texts) : log'[Len(log) + k] = texts[k]
        /\ \A j \in 1..(Len(log) + 1) : Clean(j)' <=> Clean(j)
        /\ \A j \in (Len(log) + 2)..(Len(log') + 1) : Clean(j)' <=> texts[j - 1 - Len(log)].ends
    BY <2>1, <2>2, TextsJoin
  <2>4. CASE i <= Len(log) + 1
    <3>1. ~Clean(i)
      BY <2>3, <2>4
    <3>2. i <= Len(log) /\ log[i].sample # 0 /\ log[i].ends
      BY <2>2, <2>3, <2>4, <3>1 DEF SpoiltLinesEnd
    <3> QED
      BY <2>3, <3>2
  <2>5. CASE i >= Len(log) + 2
    <3> DEFINE k == i - 1 - Len(log)
    <3>1. k \in 1..Len(texts) /\ ~texts[k].ends /\ i = Len(log) + (k + 1)
      BY <2>3, <2>5
    <3>2. /\ \E n : n # 0 /\ texts = SampleText(n)
          /\ k = 2
      <4>1. CASE texts = SampleText(sampled') /\ sampled' = sampled + 1
        <5>1. sampled' # 0
          BY <4>1, ForwardingAssumption DEF FwIInv
        <5>2. Len(texts) = 3 /\ texts[1].ends /\ texts[3].ends
          BY <4>1, TextsSay
        <5> QED
          BY <3>1, <4>1, <5>1, <5>2
      <4>2. ASSUME NEW c \in Cards, texts = ScanText(c) PROVE FALSE
        <5>1. Len(texts) = 3 /\ \A j \in 1..3 : texts[j].ends
          BY <4>2, TextsSay
        <5> QED
          BY <3>1, <5>1
      <4>3. ASSUME texts = <<Text(0, "none", TRUE)>> PROVE FALSE
        <5>1. Len(texts) = 1 /\ \A j \in 1..1 : texts[j].ends
          BY <4>3, TextsSay
        <5> QED
          BY <3>1, <5>1
      <4> QED
        BY <1>1, <4>1, <4>2, <4>3 DEF Notifies
    <3>3. Len(texts) = 3 /\ texts[3].sample # 0 /\ texts[3].ends
      BY <3>2, TextsSay
    <3>4. i = Len(log) + 3 /\ log'[i] = texts[3]
      BY <2>3, <3>1, <3>2, <3>3
    <3> QED
      BY <2>3, <3>3, <3>4
  <2> QED
    BY <2>3, <2>4, <2>5
<1>2. CASE LogThread
  <2>1. /\ Len(log) \in Nat \ {0} /\ Len(log') = Len(log) - 1 /\ overwritten' = overwritten
        /\ \A j \in 1..Len(log') : log'[j] = log[j + 1]
    BY <1>2, OldestLeaves
  <2>2. ~Clean(i + 1) /\ i + 1 \in 1..(Len(log) + 1)
    BY <1>2, <2>1, LinesMoveUp
  <2>3. i + 1 <= Len(log) /\ log[i + 1].sample # 0 /\ log[i + 1].ends
    BY <2>1, <2>2 DEF SpoiltLinesEnd
  <2> QED
    BY <2>1, <2>3
<1>3. CASE UNCHANGED vars
  <2>1. log' = log /\ line' = line /\ overwritten' = overwritten
    BY <1>3 DEF vars
  <2>2. ~Clean(i)
    BY <2>1 DEF Clean
  <2> QED
    BY <2>1, <2>2 DEF SpoiltLinesEnd
<1> QED
  BY <1>1, <1>2, <1>3, BaseNotifies

-----------------------------------------------------------------------------
(* Scans.                                                                  *)

LEMMA ScansAppended ==
  ASSUME NEW s \in Seq(Cards), NEW c \in Cards
  PROVE  ToSet(Append(s, c)) = ToSet(s) \cup {c}
<1>1. /\ DOMAIN s = 1..Len(s) /\ DOMAIN Append(s, c) = 1..(Len(s) + 1) /\ Len(s) \in Nat
      /\ \A i \in 1..Len(s) : Append(s, c)[i] = s[i]
      /\ Append(s, c)[Len(s) + 1] = c
  BY AppendProperties, LenProperties
<1> QED
  BY <1>1 DEF ToSet

LEMMA CardsStayRead ==
  ASSUME FwIInv, CardsWereRead, [Next]_vars
  PROVE  CardsWereRead' /\ ToSet(scans) \subseteq ToSet(scans')
<1>1. ASSUME NEW texts \in Seq(LogTexts), Notifies(texts)
      PROVE  CardsWereRead' /\ ToSet(scans) \subseteq ToSet(scans')
  <2>1. Logged(texts) /\ scannedColours' = scannedColours
    BY <1>1 DEF Notifies, gui
  <2>2. /\ ToSet(scans) \subseteq ToSet(scans')
        /\ \A k \in 1..Len(texts) : texts[k].card \in ToSet(scans') \cup {"none"}
    <3>1. CASE texts = SampleText(sampled') /\ UNCHANGED scans
      BY <3>1, TextsSay
    <3>2. ASSUME NEW c \in Cards, texts = ScanText(c), scans' = Append(scans, c)
          PROVE  /\ ToSet(scans) \subseteq ToSet(scans')
                 /\ \A k \in 1..Len(texts) : texts[k].card \in ToSet(scans') \cup {"none"}
      <4>1. ToSet(scans') = ToSet(scans) \cup {c}
        BY <3>2, ScansAppended DEF FwIInv
      <4>2. Len(texts) = 3 /\ texts[1].card = c /\ texts[2].card = c /\ texts[3].card = "none"
        BY <3>2, TextsSay
      <4> QED
        BY <4>1, <4>2
    <3>3. CASE texts = <<Text(0, "none", TRUE)>> /\ UNCHANGED scans
      BY <3>3, TextsSay
    <3> QED
      BY <1>1, <3>1, <3>2, <3>3 DEF Notifies
  <2>3. PICK lost \in Nat :
          /\ Len(log') + lost = Len(log) + Len(texts)
          /\ \A i \in 1..Len(log') :
               log'[i] = IF i + lost <= Len(log) THEN log[i + lost] ELSE texts[(i + lost) - Len(log)]
    BY <2>1, LoggedKeepsTheEnd DEF FwIInv
  <2>4. Len(log) \in Nat /\ Len(texts) \in Nat
    BY LenProperties DEF FwIInv
  <2>5. Len(log') \in Nat
    BY <2>1, LoggedKeepsTheEnd, LenProperties DEF FwIInv
  <2>6. ASSUME NEW i \in 1..Len(log') PROVE log'[i].card \in ToSet(scans') \cup {"none"}
    <3>1. CASE i + lost <= Len(log)
      <4>1. log'[i] = log[i + lost] /\ i + lost \in 1..Len(log)
        BY <2>3, <2>4, <2>5, <3>1
      <4> QED
        BY <2>2, <4>1 DEF CardsWereRead
    <3>2. CASE ~(i + lost <= Len(log))
      <4>1. log'[i] = texts[(i + lost) - Len(log)] /\ (i + lost) - Len(log) \in 1..Len(texts)
        BY <2>3, <2>4, <2>5, <3>2
      <4> QED
        BY <2>2, <4>1
    <3> QED
      BY <3>1, <3>2
  <2> QED
    BY <2>1, <2>2, <2>6 DEF CardsWereRead
<1>2. CASE LogThread
  <2>1. /\ Len(log) \in Nat \ {0} /\ Len(log') = Len(log) - 1 /\ scans' = scans
        /\ \A j \in 1..Len(log') : j + 1 \in 1..Len(log) /\ log'[j] = log[j + 1]
    BY <1>2, OldestLeaves DEF sent
  <2>2. scannedColours' \subseteq scannedColours \cup ({log[1].card} \cap Cards)
    <3>1. \/ scannedColours' = scannedColours
          \/ log[1].card \in Cards /\ scannedColours' = scannedColours \cup {log[1].card}
      BY <1>2, ReaderSteps DEF gui
    <3> QED
      BY <3>1
  <2>3. log[1].card \in ToSet(scans) \cup {"none"}
    BY <2>1 DEF CardsWereRead
  <2> QED
    BY <2>1, <2>2, <2>3, ForwardingAssumption DEF CardsWereRead
<1>3. CASE UNCHANGED vars
  BY <1>3 DEF vars, gui, sent, CardsWereRead
<1> QED
  BY <1>1, <1>2, <1>3, BaseNotifies

(* A scan that is not on the screen waits in the buffer, and the loss of   *)
(* one message, whichever, leaves one of its two lines as it was.          *)
LEMMA ScansKeepWaiting ==
  ASSUME FwIInv, SpoiltLinesEnd, ScansWait, [Next]_vars PROVE ScansWait'
<1> SUFFICES ASSUME NEW c \in ToSet(scans') \ scannedColours', overwritten' <= 1
             PROVE  Waits(c)' /\ (overwritten' = 0 => WaitsTwice(c)')
  <2>1. ASSUME NEW c \in ToSet(scans') \ scannedColours', overwritten' = 0 PROVE overwritten' <= 1
    BY <2>1
  <2> QED
    BY <2>1 DEF ScansWait
<1>0. /\ Len(log) \in Nat /\ overwritten \in Nat
      /\ \A i \in 1..Len(log) : log[i].card # "none" => log[i].sample = 0 /\ log[i].ends
  <2>1. \A i \in 1..Len(log) : log[i] \in LogTexts
    BY ElementOfSeq DEF FwIInv
  <2> QED
    BY <2>1, LenProperties DEF FwIInv, LogTexts
<1>1. c \in Cards /\ c # "none"
  <2>1. FwIInv'
    BY StepKeepsFwIInv
  <2>2. scans' \in Seq(Cards)
    BY <2>1 DEF FwIInv
  <2>3. \A i \in DOMAIN scans' : scans'[i] \in Cards
    BY <2>2
  <2> QED
    BY <2>3, ForwardingAssumption DEF ToSet
<1>2. ASSUME NEW texts \in Seq(LogTexts), Notifies(texts)
      PROVE  Waits(c)' /\ (overwritten' = 0 => WaitsTwice(c)')
  <2>1. Logged(texts) /\ line' = line /\ scannedColours' = scannedColours
    BY <1>2 DEF Notifies, gui
  <2>2. \/ c \in ToSet(scans)
        \/ texts = ScanText(c)
    <3>1. ASSUME NEW d \in Cards, texts = ScanText(d), scans' = Append(scans, d)
          PROVE  c \in ToSet(scans) \/ c = d
      BY <3>1, ScansAppended DEF FwIInv
    <3> QED
      BY <1>2, <3>1 DEF Notifies
  <2>3. PICK lost \in Nat :
          /\ overwritten' = overwritten + lost
          /\ Len(log') + lost = Len(log) + Len(texts)
          /\ \A i \in 1..Len(log') :
               log'[i] = IF i + lost <= Len(log) THEN log[i + lost] ELSE texts[(i + lost) - Len(log)]
    BY <1>0, <2>1, LoggedKeepsTheEnd DEF FwIInv
  <2>4. Len(texts) \in Nat /\ Len(log') \in Nat
    BY <2>1, LoggedKeepsTheEnd, LenProperties DEF FwIInv
  <2>5. texts = ScanText(c) =>
          Len(texts) = 3 /\ texts[1].card = c /\ texts[2].card = c /\ texts[1].ends /\ texts[2].ends
    BY TextsSay
  <2>6. CASE lost = 0
    <3>1. /\ Len(log') = Len(log) + Len(texts)
          /\ \A i \in 1..Len(log) : log'[i] = log[i]
          /\ \A k \in 1..Len(texts) : log'[Len(log) + k] = texts[k]
          /\ \A i \in 1..(Len(log) + 1) : Clean(i)' <=> Clean(i)
          /\ \A i \in (Len(log) + 2)..(Len(log') + 1) : Clean(i)' <=> texts[i - 1 - Len(log)].ends
      BY <1>0, <2>1, <2>3, <2>6, TextsJoin
    <3>2. CASE c \in ToSet(scans)
      <4>1. Waits(c) /\ (overwritten' = 0 => WaitsTwice(c))
        BY <1>0, <2>1, <2>3, <2>6, <3>2 DEF ScansWait
      <4>2. Waits(c)'
        <5>1. PICK i \in 1..Len(log) : log[i].card = c /\ Clean(i)
          BY <4>1 DEF Waits
        <5>2. i \in 1..Len(log') /\ log'[i].card = c /\ Clean(i)'
          BY <1>0, <2>4, <3>1, <5>1
        <5> QED
          BY <5>2 DEF Waits
      <4>3. ASSUME overwritten' = 0 PROVE WaitsTwice(c)'
        <5>1. PICK i \in 1..(Len(log) - 1) : log[i].card = c /\ log[i + 1].card = c
          BY <4>1, <4>3 DEF WaitsTwice
        <5>2. i \in 1..(Len(log') - 1) /\ i \in 1..Len(log) /\ i + 1 \in 1..Len(log)
          BY <1>0, <2>4, <3>1
        <5>3. log'[i].card = c /\ log'[i + 1].card = c
          BY <3>1, <5>1, <5>2
        <5> QED
          BY <5>2, <5>3 DEF WaitsTwice
      <4> QED
        BY <4>2, <4>3
    <3>3. CASE texts = ScanText(c)
      <4>1. log'[Len(log) + 1].card = c /\ log'[Len(log) + 2].card = c /\ Len(log') = Len(log) + 3
        <5>1. Len(texts) = 3 /\ texts[1].card = c /\ texts[2].card = c
          BY <2>5, <3>3
        <5>2. 1 \in 1..Len(texts) /\ 2 \in 1..Len(texts)
          BY <5>1
        <5>3. log'[Len(log) + 1] = texts[1] /\ log'[Len(log) + 2] = texts[2]
          BY <3>1, <5>2, Zenon
        <5> QED
          BY <3>1, <5>1, <5>3
      <4>2. PICK i \in Nat : i = Len(log) + 2
        BY <1>0
      <4>3. Clean(i)'
        <5>1. i \in (Len(log) + 2)..(Len(log') + 1) /\ i - 1 - Len(log) = 1
          BY <1>0, <4>1, <4>2
        <5> QED
          BY <2>5, <3>1, <3>3, <5>1
      <4>4. Waits(c)'
        <5>1. i \in 1..Len(log') /\ log'[i].card = c
          BY <1>0, <4>1, <4>2
        <5> QED
          BY <4>3, <5>1 DEF Waits
      <4>5. WaitsTwice(c)'
        <5> DEFINE j == Len(log) + 1
        <5>1. j \in 1..(Len(log') - 1) /\ j + 1 = Len(log) + 2
          BY <1>0, <4>1
        <5> HIDE DEF j
        <5>2. \E k \in 1..(Len(log') - 1) : log'[k].card = c /\ log'[k + 1].card = c
          BY <4>1, <5>1 DEF j
        <5> QED
          BY <5>2 DEF WaitsTwice
      <4> QED
        BY <4>4, <4>5
    <3> QED
      BY <2>2, <3>2, <3>3
  <2>7. CASE lost # 0
    <3>1. lost = 1 /\ overwritten = 0 /\ overwritten' = 1
      BY <1>0, <2>3, <2>7
    <3>2. ASSUME NEW i \in 1..Len(log'), log'[i].card = c, i = 1 => line = <<>>, i # 1 => log'[i - 1].ends
          PROVE  Waits(c)'
      <4>1. Clean(i)'
        BY <2>1, <3>2 DEF Clean
      <4> QED
        BY <3>2, <4>1 DEF Waits
    <3>3. CASE c \in ToSet(scans)
      <4>1. PICK i \in 1..(Len(log) - 1) : log[i].card = c /\ log[i + 1].card = c
        BY <2>1, <3>1, <3>3 DEF ScansWait, WaitsTwice
      <4>2. log[i].sample = 0 /\ log[i].ends
        BY <1>0, <1>1, <4>1
      <4>3. i \in 1..Len(log') /\ log'[i] = log[i + 1]
        BY <1>0, <2>3, <2>4, <3>1, <4>1
      <4>4. i # 1 => log'[i - 1] = log[i]
        <5>1. i # 1 => i - 1 \in 1..Len(log') /\ (i - 1) + 1 = i /\ i <= Len(log)
          BY <1>0, <4>3
        <5> QED
          BY <2>3, <3>1, <5>1
      <4>5. i = 1 => line = <<>>
        <5>1. 1 \in 1..(Len(log) + 1)
          BY <1>0
        <5> QED
          BY <3>1, <4>2, <5>1 DEF SpoiltLinesEnd, Clean
      <4> QED
        BY <3>1, <3>2, <4>1, <4>2, <4>3, <4>4, <4>5
    <3>4. CASE texts = ScanText(c)
      <4> DEFINE i == Len(log) + 1
      <4>1. i \in 1..Len(log') /\ (i + 1) - Len(log) = 2 /\ ~(i + 1 <= Len(log))
        <5>1. Len(log') + 1 = Len(log) + 3
          BY <2>3, <2>5, <3>1, <3>4
        <5> QED
          BY <1>0, <2>4, <5>1
      <4>2. log'[i].card = c
        BY <2>3, <2>5, <3>1, <3>4, <4>1
      <4>3. i # 1 => log'[i - 1].ends
        <5>1. i # 1 => /\ i - 1 \in 1..Len(log') /\ ~((i - 1) + 1 <= Len(log))
                       /\ ((i - 1) + 1) - Len(log) = 1
          BY <1>0, <4>1
        <5> QED
          BY <2>3, <2>5, <3>1, <3>4, <5>1
      <4>4. i = 1 => line = <<>>
        <5>1. 1 \in 1..(Len(log) + 1) /\ (i = 1 => Len(log) = 0)
          BY <1>0
        <5> QED
          BY <3>1, <5>1 DEF SpoiltLinesEnd, Clean
      <4> HIDE DEF i
      <4> QED
        BY <3>1, <3>2, <4>1, <4>2, <4>3, <4>4
    <3> QED
      BY <2>2, <3>3, <3>4
  <2> QED
    BY <2>6, <2>7
<1>3. CASE LogThread
  <2>1. /\ Len(log') = Len(log) - 1 /\ scans' = scans /\ overwritten' = overwritten
        /\ \A j \in 1..Len(log') : log'[j] = log[j + 1]
    BY <1>3, OldestLeaves DEF sent
  <2>2. \/ scannedColours' = scannedColours
        \/ scannedColours' = scannedColours \cup {log[1].card}
    BY <1>3, ReaderSteps DEF gui
  <2>3. c \in ToSet(scans) \ scannedColours
    BY <2>1, <2>2
  <2>4. Waits(c) /\ (overwritten' = 0 => WaitsTwice(c))
    BY <2>1, <2>3 DEF ScansWait
  <2>5. ASSUME Len(log) > 0, log[1].card = c, Clean(1) PROVE FALSE
    <3>1. line = <<>> /\ log[1].sample = 0 /\ log[1].ends
      BY <1>0, <1>1, <2>5 DEF Clean
    <3>2. scannedColours' = scannedColours \cup {log[1].card}
      BY <1>1, <1>3, <2>5, <3>1, ReaderSteps
    <3> QED
      BY <2>5, <3>2
  <2>6. Waits(c)'
    <3>1. PICK i \in 1..Len(log) : log[i].card = c /\ Clean(i)
      BY <2>4 DEF Waits
    <3>2. i # 1
      BY <1>0, <2>5, <3>1
    <3> DEFINE j == i - 1
    <3>3. j \in 1..Len(log') /\ j + 1 = i
      BY <1>0, <2>1, <3>2
    <3> HIDE DEF j
    <3>4. \E k \in 1..Len(log') : log'[k].card = c /\ Clean(k)'
      <4>1. PICK k \in 1..Len(log') : k + 1 = i
        BY <3>3
      <4>2. Clean(k)' <=> Clean(k + 1)
        BY <1>3, <2>1, <4>1, LinesMoveUp
      <4> QED
        BY <2>1, <3>1, <4>1, <4>2
    <3> QED
      BY <3>4 DEF Waits
  <2>7. ASSUME overwritten' = 0 PROVE WaitsTwice(c)'
    <3>1. PICK i \in 1..(Len(log) - 1) : log[i].card = c /\ log[i + 1].card = c
      BY <2>4, <2>7 DEF WaitsTwice
    <3>2. i # 1
      <4>1. ASSUME i = 1 PROVE FALSE
        <5>1. 1 \in 1..(Len(log) + 1) /\ Len(log) > 0 /\ log[1].sample = 0
          BY <1>0, <1>1, <3>1, <4>1
        <5>2. Clean(1)
          BY <2>1, <2>7, <5>1 DEF SpoiltLinesEnd
        <5> QED
          BY <2>5, <3>1, <4>1, <5>1, <5>2
      <4> QED
        BY <4>1
    <3> DEFINE j == i - 1
    <3>3. j \in 1..(Len(log') - 1) /\ j + 1 = i /\ j \in 1..Len(log') /\ j + 1 \in 1..Len(log')
      BY <1>0, <2>1, <3>2
    <3> HIDE DEF j
    <3>4. log'[j].card = c /\ log'[j + 1].card = c
      BY <2>1, <3>1, <3>3
    <3>5. \E k \in 1..(Len(log') - 1) : log'[k].card = c /\ log'[k + 1].card = c
      BY <3>3, <3>4
    <3> QED
      BY <3>5 DEF WaitsTwice
  <2> QED
    BY <2>6, <2>7
<1>4. CASE UNCHANGED vars
  <2>1. log' = log /\ line' = line /\ scans' = scans /\ scannedColours' = scannedColours
        /\ overwritten' = overwritten
    BY <1>4 DEF vars, gui, sent
  <2>2. Waits(c)' = Waits(c) /\ WaitsTwice(c)' = WaitsTwice(c)
    BY <2>1 DEF Waits, WaitsTwice, Clean
  <2> QED
    BY <2>1, <2>2 DEF ScansWait
<1> QED
  BY <1>2, <1>3, <1>4, BaseNotifies

-----------------------------------------------------------------------------
(* Samples.                                                                *)

(* Of the three messages of a sample one tells it: the second does not end *)
(* its line, the third ends the line of the second.                        *)
LEMMA NewTellings ==
  ASSUME FwIInv, SpoiltLinesEnd, NEW texts \in Seq(LogTexts), Notifies(texts), overwritten' = 0
  PROVE  /\ Len(log) \in Nat /\ Len(log') \in Nat /\ Len(log) <= Len(log')
         /\ \A i \in 1..Len(log) : log'[i] = log[i] /\ (Tells(i)' <=> Tells(i))
         /\ \/ sampled' = sampled /\ \A i \in (Len(log) + 1)..Len(log') : ~Tells(i)'
            \/ /\ sampled' = sampled + 1
               /\ \E i \in 1..Len(log') :
                    /\ i = Len(log) + 1 /\ Tells(i)' /\ log'[i].sample = sampled'
                    /\ \A j \in (Len(log) + 2)..Len(log') : ~Tells(j)'
<1>1. Logged(texts) /\ line' = line
  BY DEF Notifies
<1>2. overwritten = 0 /\ overwritten' = overwritten
  BY <1>1, LoggedKeepsTheEnd DEF FwIInv
<1>3. /\ Len(log) \in Nat /\ Len(texts) \in Nat /\ Len(log') = Len(log) + Len(texts)
      /\ \A i \in 1..Len(log) : log'[i] = log[i]
      /\ \A k \in 1..Len(texts) : log'[Len(log) + k] = texts[k]
      /\ \A i \in 1..(Len(log) + 1) : Clean(i)' <=> Clean(i)
      /\ \A i \in (Len(log) + 2)..(Len(log') + 1) : Clean(i)' <=> texts[i - 1 - Len(log)].ends
  BY <1>1, <1>2, TextsJoin
<1>4. ASSUME NEW i \in 1..Len(log) PROVE Tells(i)' <=> Tells(i)
  <2>1. log'[i] = log[i] /\ (Clean(i)' <=> Clean(i))
    BY <1>3
  <2> QED
    BY <2>1 DEF Tells
<1>5. ASSUME \A k \in 1..Len(texts) : texts[k].sample = 0, NEW i \in (Len(log) + 1)..Len(log')
      PROVE  ~Tells(i)'
  <2> DEFINE k == i - Len(log)
  <2>1. k \in 1..Len(texts) /\ i = Len(log) + k
    BY <1>3
  <2>2. log'[i].sample = 0
    BY <1>3, <1>5, <2>1
  <2> QED
    BY <2>2 DEF Tells
<1>6. CASE texts = SampleText(sampled') /\ sampled' = sampled + 1
  <2>1. /\ Len(texts) = 3 /\ texts[1].ends /\ ~texts[2].ends /\ texts[1].sample = sampled'
        /\ sampled' # 0
    <3>1. 1 \in 1..3
      OBVIOUS
    <3>2. sampled' # 0
      BY <1>6, ForwardingAssumption DEF FwIInv
    <3> QED
      BY <1>6, <3>1, <3>2, TextsSay
  <2>2. PICK i \in 1..Len(log') : i = Len(log) + 1
    BY <1>3, <2>1
  <2>3. log'[i] = texts[1]
    <3>1. 1 \in 1..Len(texts)
      BY <2>1
    <3> QED
      BY <1>3, <2>2, <3>1
  <2>4. Clean(i)'
    <3>1. i \in 1..(Len(log) + 1) /\ ~(i <= Len(log))
      BY <1>3, <2>2
    <3> QED
      BY <1>2, <1>3, <3>1 DEF SpoiltLinesEnd
  <2>5. Tells(i)' /\ log'[i].sample = sampled'
    BY <2>1, <2>3, <2>4 DEF Tells
  <2>6. ASSUME NEW j \in (Len(log) + 2)..Len(log') PROVE ~Tells(j)'
    <3>1. j = Len(log) + 2 \/ (j = Len(log) + 3 /\ j - 1 - Len(log) = 2)
      BY <1>3, <2>1
    <3>2. CASE j = Len(log) + 2
      <4>1. 2 \in 1..Len(texts)
        BY <2>1
      <4>2. log'[j] = texts[2]
        BY <1>3, <3>2, <4>1
      <4> QED
        BY <2>1, <4>2 DEF Tells
    <3>3. CASE j = Len(log) + 3 /\ j - 1 - Len(log) = 2
      <4>1. j \in (Len(log) + 2)..(Len(log') + 1)
        BY <1>3
      <4>2. ~Clean(j)'
        BY <1>3, <2>1, <3>3, <4>1
      <4> QED
        BY <4>2 DEF Tells
    <3> QED
      BY <3>1, <3>2, <3>3
  <2> QED
    BY <1>3, <1>4, <1>6, <2>1, <2>2, <2>5, <2>6
<1>7. CASE sampled' = sampled /\ \A k \in 1..Len(texts) : texts[k].sample = 0
  BY <1>3, <1>4, <1>5, <1>7
<1> QED
  <2>1. CASE \E c \in Cards : texts = ScanText(c) /\ UNCHANGED sampled
    BY <1>7, <2>1, TextsSay
  <2>2. CASE texts = <<Text(0, "none", TRUE)>> /\ UNCHANGED sampled
    BY <1>7, <2>2, TextsSay
  <2> QED
    BY <1>6, <2>1, <2>2 DEF Notifies

(* However much is overwritten, what is on its way is in order, and no     *)
(* older than what the reader took in last.                                *)
LEMMA SamplesStayInOrder ==
  ASSUME FwIInv, SamplesInOrder, [Next]_vars PROVE SamplesInOrder'
<1>0. /\ Len(log) \in Nat /\ Len(line) \in Nat /\ sampled \in Nat /\ Seen \in Nat
      /\ \A i \in 1..Len(log) : log[i].sample \in Nat
      /\ \A i \in 1..Len(line) : line[i].sample \in Nat
  <2>1. \A i \in 1..Len(log) : log[i] \in LogTexts
    BY ElementOfSeq DEF FwIInv
  <2>2. \A i \in 1..Len(line) : line[i] \in Fragments
    BY ElementOfSeq DEF FwIInv
  <2>3. Seen \in Nat
    <3>1. arrived # <<>> => Len(arrived) \in 1..Len(arrived)
      BY EmptySeq, LenProperties DEF FwIInv
    <3>2. arrived # <<>> => arrived[Len(arrived)] \in 1..MaxSamples
      BY <3>1, ElementOfSeq DEF FwIInv
    <3> QED
      BY <3>2, ForwardingAssumption DEF Seen
  <2> QED
    BY <2>1, <2>2, <2>3, LenProperties, ForwardingAssumption DEF LogTexts, Fragments, Message, FwIInv
<1>1. /\ Seen <= sampled + 1
      /\ \A i \in 1..Len(line) : Seen <= line[i].sample /\ line[i].sample <= sampled
      /\ \A i \in 1..Len(log) : log[i].sample # 0 => Seen <= log[i].sample /\ log[i].sample <= sampled
      /\ \A i \in 1..Len(line), j \in 1..Len(log) : log[j].sample # 0 => line[i].sample <= log[j].sample
      /\ \A i, j \in 1..Len(log) :
           log[i].sample # 0 /\ log[j].sample # 0 /\ i <= j => log[i].sample <= log[j].sample
      /\ \A i, j \in 1..Len(line) : i <= j => line[i].sample <= line[j].sample
  BY DEF SamplesInOrder
<1>2. ASSUME NEW texts \in Seq(LogTexts), Notifies(texts) PROVE SamplesInOrder'
  <2>1. Logged(texts) /\ line' = line /\ arrived' = arrived /\ Seen' = Seen
    BY <1>2 DEF Notifies, gui, Seen
  <2>2. /\ sampled' \in Nat /\ sampled <= sampled'
        /\ \A k \in 1..Len(texts) : texts[k].sample # 0 => texts[k].sample = sampled' /\ sampled' = sampled + 1
    <3>1. CASE texts = SampleText(sampled') /\ sampled' = sampled + 1
      <4>1. \A k \in 1..Len(texts) : texts[k].sample = sampled'
        BY <3>1, TextsSay
      <4> QED
        BY <1>0, <3>1, <4>1
    <3>2. CASE sampled' = sampled /\ \A k \in 1..Len(texts) : texts[k].sample = 0
      BY <1>0, <3>2
    <3>3. ASSUME NEW c \in Cards, texts = ScanText(c) PROVE \A k \in 1..Len(texts) : texts[k].sample = 0
      BY <3>3, TextsSay
    <3>4. ASSUME texts = <<Text(0, "none", TRUE)>> PROVE \A k \in 1..Len(texts) : texts[k].sample = 0
      BY <3>4, TextsSay
    <3> QED
      BY <1>2, <3>1, <3>2, <3>3, <3>4 DEF Notifies
  <2>3. PICK lost \in Nat :
          /\ Len(log') + lost = Len(log) + Len(texts)
          /\ \A i \in 1..Len(log') :
               log'[i] = IF i + lost <= Len(log) THEN log[i + lost] ELSE texts[(i + lost) - Len(log)]
    BY <2>1, LoggedKeepsTheEnd DEF FwIInv
  <2>4. Len(texts) \in Nat /\ Len(log') \in Nat
    BY <2>1, LoggedKeepsTheEnd, LenProperties DEF FwIInv
  <2>5. ASSUME NEW i \in 1..Len(log')
        PROVE  \/ i + lost \in 1..Len(log) /\ log'[i] = log[i + lost]
               \/ /\ i + lost > Len(log)
                  /\ log'[i].sample # 0 => log'[i].sample = sampled' /\ sampled' = sampled + 1
    <3>1. CASE i + lost <= Len(log)
      BY <1>0, <2>3, <2>4, <3>1
    <3>2. CASE i + lost > Len(log)
      <4> DEFINE k == (i + lost) - Len(log)
      <4>1. k \in 1..Len(texts) /\ log'[i] = texts[k]
        BY <1>0, <2>3, <2>4, <3>2
      <4> HIDE DEF k
      <4> QED
        BY <2>2, <3>2, <4>1
    <3> QED
      BY <1>0, <3>1, <3>2
  <2>6. \A i \in 1..Len(log') : log'[i].sample \in Nat
    <3>1. log' \in Seq(LogTexts)
      BY <2>1, LoggedKeepsTheEnd DEF FwIInv
    <3>2. \A i \in 1..Len(log') : log'[i] \in LogTexts
      BY <3>1, ElementOfSeq
    <3> QED
      BY <3>2, ForwardingAssumption DEF LogTexts, Message
  <2>7. \A i \in 1..Len(line) : Seen <= line[i].sample /\ line[i].sample <= sampled'
    BY <1>0, <1>1, <2>2
  <2>8. ASSUME NEW i \in 1..Len(log'), log'[i].sample # 0
        PROVE  Seen <= log'[i].sample /\ log'[i].sample <= sampled'
    <3>1. CASE i + lost \in 1..Len(log) /\ log'[i] = log[i + lost]
      <4>1. Seen <= log'[i].sample /\ log'[i].sample <= sampled
        BY <1>1, <2>8, <3>1
      <4> QED
        BY <1>0, <2>2, <2>6, <4>1
    <3>2. CASE log'[i].sample = sampled' /\ sampled' = sampled + 1
      BY <1>0, <1>1, <2>2, <3>2
    <3> QED
      BY <2>5, <2>8, <3>1, <3>2
  <2>9. ASSUME NEW i \in 1..Len(line), NEW j \in 1..Len(log'), log'[j].sample # 0
        PROVE  line[i].sample <= log'[j].sample
    <3>1. CASE j + lost \in 1..Len(log) /\ log'[j] = log[j + lost]
      BY <1>1, <2>9, <3>1
    <3>2. CASE log'[j].sample = sampled' /\ sampled' = sampled + 1
      BY <1>0, <1>1, <2>2, <3>2
    <3> QED
      BY <2>5, <2>9, <3>1, <3>2
  <2>10. ASSUME NEW i \in 1..Len(log'), NEW j \in 1..Len(log'), log'[i].sample # 0, log'[j].sample # 0, i <= j
         PROVE  log'[i].sample <= log'[j].sample
    <3>1. CASE j + lost > Len(log) /\ log'[j].sample = sampled'
      BY <2>8, <2>10, <3>1
    <3>2. CASE j + lost \in 1..Len(log) /\ log'[j] = log[j + lost]
      <4>1. i + lost \in 1..Len(log) /\ log'[i] = log[i + lost] /\ i + lost <= j + lost
        BY <1>0, <2>4, <2>5, <2>10, <3>2
      <4> QED
        BY <1>1, <2>10, <3>2, <4>1
    <3> QED
      BY <2>5, <2>10, <3>1, <3>2
  <2>11. Seen' <= sampled' + 1
    <3>1. PICK n \in Nat : n = sampled'
      BY <2>2
    <3>2. sampled <= n
      BY <2>2, <3>1
    <3>3. Seen <= n + 1
      BY <1>0, <1>1, <3>2
    <3> QED
      BY <2>1, <3>1, <3>3
  <2> QED
    BY <1>1, <2>1, <2>7, <2>8, <2>9, <2>10, <2>11 DEF SamplesInOrder
<1>3. CASE LogThread
  <2> DEFINE m == log[1]
  <2>1. /\ m \in LogTexts /\ Len(log) \in Nat \ {0} /\ Len(log') = Len(log) - 1
        /\ \A i \in 1..Len(log') : i + 1 \in 1..Len(log) /\ log'[i] = log[i + 1]
        /\ sampled' = sampled
    BY <1>3, OldestLeaves DEF sent
  <2>2. 1 \in 1..Len(log) /\ m.sample \in Nat
    BY <1>0, <2>1
  <2>3. ASSUME NEW s \in Nat, s # 0, Seen' = s, s <= sampled, line' = <<>>,
               \A i \in 2..Len(log) : log[i].sample # 0 => s <= log[i].sample
        PROVE  SamplesInOrder'
    <3>1. ASSUME NEW i \in 1..Len(log'), log'[i].sample # 0
          PROVE  s <= log'[i].sample /\ log'[i].sample <= sampled
      <4>1. i + 1 \in 2..Len(log) /\ log'[i] = log[i + 1] /\ i + 1 \in 1..Len(log)
        BY <2>1
      <4> QED
        BY <1>1, <2>3, <3>1, <4>1
    <3>2. ASSUME NEW i \in 1..Len(log'), NEW j \in 1..Len(log'), log'[i].sample # 0, log'[j].sample # 0, i <= j
          PROVE  log'[i].sample <= log'[j].sample
      <4>1. i + 1 <= j + 1
        BY <3>2
      <4> QED
        BY <1>1, <2>1, <3>2, <4>1
    <3>3. Len(line') = 0
      BY <2>3, EmptySeq
    <3>4. s <= sampled + 1
      BY <1>0, <2>3
    <3> QED
      BY <2>1, <2>3, <3>1, <3>2, <3>3, <3>4 DEF SamplesInOrder
  <2>4. ASSUME Seen' = Seen, line' = <<>> \/ (m.sample # 0 /\ m \in Fragments /\ line' = Append(line, m))
        PROVE  SamplesInOrder'
    <3>1. ASSUME NEW i \in 1..Len(log'), log'[i].sample # 0
          PROVE  /\ Seen <= log'[i].sample /\ log'[i].sample <= sampled
                 /\ m.sample # 0 => m.sample <= log'[i].sample
                 /\ \A j \in 1..Len(line) : line[j].sample <= log'[i].sample
      <4>1. log'[i] = log[i + 1] /\ i + 1 \in 1..Len(log) /\ 1 <= i + 1
        BY <2>1
      <4> QED
        BY <1>1, <2>2, <3>1, <4>1
    <3>2. ASSUME NEW i \in 1..Len(log'), NEW j \in 1..Len(log'), log'[i].sample # 0, log'[j].sample # 0, i <= j
          PROVE  log'[i].sample <= log'[j].sample
      <4>1. i + 1 <= j + 1
        BY <3>2
      <4> QED
        BY <1>1, <2>1, <3>2, <4>1
    <3>3. CASE line' = <<>>
      <4>1. Len(line') = 0
        BY <3>3, EmptySeq
      <4> QED
        BY <1>1, <2>1, <2>4, <3>1, <3>2, <4>1 DEF SamplesInOrder
    <3>4. CASE m.sample # 0 /\ m \in Fragments /\ line' = Append(line, m)
      <4>1. /\ Len(line') = Len(line) + 1 /\ line'[Len(line) + 1] = m
            /\ \A i \in 1..Len(line) : line'[i] = line[i]
        BY <3>4, AppendProperties DEF FwIInv
      <4>2. ASSUME NEW i \in 1..Len(line') PROVE (i \in 1..Len(line) /\ line'[i] = line[i]) \/ (i = Len(line) + 1 /\ line'[i] = m)
        BY <1>0, <4>1
      <4>3. Seen <= m.sample /\ m.sample <= sampled /\ \A i \in 1..Len(line) : line[i].sample <= m.sample
        BY <1>1, <2>2, <3>4
      <4>4. \A i \in 1..Len(line') : Seen <= line'[i].sample /\ line'[i].sample <= sampled
        BY <1>1, <4>2, <4>3
      <4>5. \A i \in 1..Len(line'), j \in 1..Len(log') : log'[j].sample # 0 => line'[i].sample <= log'[j].sample
        BY <3>1, <3>4, <4>2
      <4>6. \A i, j \in 1..Len(line') : i <= j => line'[i].sample <= line'[j].sample
        BY <1>0, <1>1, <2>2, <4>2, <4>3
      <4> QED
        BY <1>1, <2>1, <2>4, <3>1, <3>2, <4>4, <4>5, <4>6 DEF SamplesInOrder
    <3> QED
      BY <2>4, <3>3, <3>4
  <2>5. ASSUME NEW s \in 1..MaxSamples, arrived' = Append(arrived, s) PROVE Seen' = s
    BY <2>5, AppendProperties, LenProperties DEF FwIInv, Seen
  <2>6. CASE m.sample # 0 /\ line' = <<>> /\ arrived' = Append(arrived, m.sample)
    <3>1. m.sample \in 1..MaxSamples /\ m.sample <= sampled
      BY <1>1, <2>1, <2>2, <2>6 DEF LogTexts, Message
    <3>2. \A i \in 2..Len(log) : log[i].sample # 0 => m.sample <= log[i].sample
      BY <1>1, <2>1, <2>2, <2>6
    <3> QED
      BY <2>2, <2>3, <2>5, <2>6, <3>1, <3>2
  <2>7. CASE line # <<>> /\ line' = <<>> /\ arrived' = Append(arrived, line[1].sample)
    <3>1. 1 \in 1..Len(line)
      BY <1>0, <2>7, EmptySeq DEF FwIInv
    <3>2. line[1] \in Fragments
      BY <3>1, ElementOfSeq DEF FwIInv
    <3>3. line[1].sample \in 1..MaxSamples /\ line[1].sample <= sampled /\ line[1].sample \in Nat
      BY <1>0, <1>1, <3>1, <3>2 DEF Fragments, Message
    <3>4. \A i \in 2..Len(log) : log[i].sample # 0 => line[1].sample <= log[i].sample
      BY <1>1, <2>1, <3>1
    <3> QED
      BY <2>3, <2>5, <2>7, <3>3, <3>4
  <2>8. CASE arrived' = arrived /\ (line' = <<>> \/ (m \in Fragments /\ line' = Append(line, m)))
    BY <2>4, <2>8 DEF Seen, Fragments
  <2> QED
    <3>1. \/ m \in Fragments /\ line' = Append(line, m) /\ arrived' = arrived
          \/ line' = <<>> /\ arrived' = arrived
          \/ m.sample # 0 /\ line' = <<>> /\ arrived' = Append(arrived, m.sample)
          \/ line # <<>> /\ line' = <<>> /\ arrived' = Append(arrived, line[1].sample)
      BY <1>3, ReaderSteps DEF gui
    <3> QED
      BY <2>6, <2>7, <2>8, <3>1
<1>4. CASE UNCHANGED vars
  BY <1>4 DEF vars, gui, sent, SamplesInOrder, Seen
<1> QED
  BY <1>2, <1>3, <1>4, BaseNotifies

(* The reader takes in the next sample or none.                            *)
LEMMA SamplesKeepWaiting ==
  ASSUME FwIInv, SpoiltLinesEnd, SamplesInOrder, SamplesWait, [Next]_vars PROVE SamplesWait'
<1> DEFINE a == Len(arrived)
<1>0. a \in Nat /\ sampled \in Nat /\ Len(log) \in Nat /\ overwritten \in Nat
  BY LenProperties, ForwardingAssumption DEF FwIInv
<1>1. ASSUME NEW texts \in Seq(LogTexts), Notifies(texts), overwritten' = 0 PROVE SamplesWait'
  <2>1. /\ Len(log) \in Nat /\ Len(log') \in Nat /\ Len(log) <= Len(log')
        /\ \A i \in 1..Len(log) : log'[i] = log[i] /\ (Tells(i)' <=> Tells(i))
        /\ \/ sampled' = sampled /\ \A i \in (Len(log) + 1)..Len(log') : ~Tells(i)'
           \/ /\ sampled' = sampled + 1
              /\ \E i \in 1..Len(log') :
                   /\ i = Len(log) + 1 /\ Tells(i)' /\ log'[i].sample = sampled'
                   /\ \A j \in (Len(log) + 2)..Len(log') : ~Tells(j)'
    BY <1>1, NewTellings
  <2>2. arrived' = arrived
    BY <1>1 DEF Notifies, gui
  <2>3. overwritten = 0
    BY <1>0, <1>1, LoggedKeepsTheEnd DEF FwIInv, Notifies
  <2>4. /\ a <= sampled
        /\ \A i \in 1..a : arrived[i] = i
        /\ \A i \in 1..Len(log) : Tells(i) => log[i].sample > a
        /\ \A i, j \in 1..Len(log) : Tells(i) /\ Tells(j) /\ i < j => log[i].sample < log[j].sample
        /\ \A k \in (a + 1)..sampled : \E i \in 1..Len(log) : Tells(i) /\ log[i].sample = k
    BY <2>3 DEF SamplesWait
  <2>5. \A i \in 1..Len(log) : log[i].sample \in Nat
    <3>1. \A i \in 1..Len(log) : log[i] \in LogTexts
      BY ElementOfSeq DEF FwIInv
    <3> QED
      BY <3>1, ForwardingAssumption DEF LogTexts, Message
  <2>6. CASE sampled' = sampled /\ \A i \in (Len(log) + 1)..Len(log') : ~Tells(i)'
    <3>1. ASSUME NEW i \in 1..Len(log'), Tells(i)' PROVE i \in 1..Len(log) /\ Tells(i) /\ log'[i] = log[i]
      <4>1. ~(i \in (Len(log) + 1)..Len(log'))
        BY <2>6, <3>1
      <4>2. i \in 1..Len(log)
        BY <2>1, <4>1
      <4> QED
        BY <2>1, <3>1, <4>2
    <3>2. \A i \in 1..Len(log') : Tells(i)' => log'[i].sample > a
      BY <2>4, <3>1
    <3>3. \A i, j \in 1..Len(log') : Tells(i)' /\ Tells(j)' /\ i < j => log'[i].sample < log'[j].sample
      BY <2>4, <3>1
    <3>4. ASSUME NEW k \in (a + 1)..sampled PROVE \E i \in 1..Len(log') : Tells(i)' /\ log'[i].sample = k
      <4>1. PICK i \in 1..Len(log) : Tells(i) /\ log[i].sample = k
        BY <2>4
      <4>2. i \in 1..Len(log') /\ Tells(i)' /\ log'[i].sample = k
        BY <2>1, <4>1
      <4> QED
        BY <4>2
    <3> QED
      BY <2>2, <2>4, <2>6, <3>2, <3>3, <3>4 DEF SamplesWait
  <2>7. ASSUME sampled' = sampled + 1, NEW n \in 1..Len(log'), n = Len(log) + 1, Tells(n)',
               log'[n].sample = sampled', \A j \in (Len(log) + 2)..Len(log') : ~Tells(j)'
        PROVE  SamplesWait'
    <3>1. ASSUME NEW i \in 1..Len(log'), Tells(i)'
          PROVE  i = n \/ (i < n /\ i \in 1..Len(log) /\ Tells(i) /\ log'[i] = log[i])
      <4>1. ~(i \in (Len(log) + 2)..Len(log'))
        BY <2>7, <3>1
      <4>2. i = n \/ (i < n /\ i \in 1..Len(log))
        BY <2>1, <2>7, <4>1
      <4> QED
        BY <2>1, <3>1, <4>2
    <3>2. ASSUME NEW i \in 1..Len(log), Tells(i) PROVE log[i].sample <= sampled
      BY <3>2 DEF SamplesInOrder, Tells
    <3>3. \A i \in 1..Len(log') : Tells(i)' => log'[i].sample > a
      BY <1>0, <2>4, <2>7, <3>1
    <3>4. \A i, j \in 1..Len(log') : Tells(i)' /\ Tells(j)' /\ i < j => log'[i].sample < log'[j].sample
      BY <1>0, <2>4, <2>5, <2>7, <3>1, <3>2
    <3>5. ASSUME NEW k \in (a + 1)..sampled' PROVE \E i \in 1..Len(log') : Tells(i)' /\ log'[i].sample = k
      <4>1. CASE k = sampled'
        BY <2>7, <4>1
      <4>2. CASE k # sampled'
        <5>1. k \in (a + 1)..sampled
          BY <1>0, <2>7, <4>2
        <5>2. PICK i \in 1..Len(log) : Tells(i) /\ log[i].sample = k
          BY <2>4, <5>1
        <5>3. i \in 1..Len(log') /\ Tells(i)' /\ log'[i].sample = k
          BY <2>1, <5>2
        <5> QED
          BY <5>3
      <4> QED
        BY <4>1, <4>2
    <3>6. a <= sampled'
      BY <1>0, <2>4, <2>7
    <3> QED
      BY <2>2, <2>4, <3>3, <3>4, <3>5, <3>6 DEF SamplesWait
  <2> QED
    BY <2>1, <2>6, <2>7
<1>2. ASSUME LogThread, overwritten' = 0 PROVE SamplesWait'
  <2> DEFINE m == log[1]
  <2>1. /\ m \in LogTexts /\ Len(log) \in Nat \ {0} /\ Len(log') = Len(log) - 1
        /\ \A i \in 1..Len(log') : i + 1 \in 1..Len(log) /\ log'[i] = log[i + 1]
        /\ sampled' = sampled /\ overwritten = 0
    BY <1>2, OldestLeaves DEF sent
  <2>2. ASSUME NEW i \in 1..Len(log') PROVE Tells(i)' <=> Tells(i + 1)
    <3>1. i \in 1..(Len(log') + 1)
      BY <2>1
    <3>2. Clean(i)' <=> Clean(i + 1)
      BY <1>2, <3>1, LinesMoveUp
    <3> QED
      BY <2>1, <3>2 DEF Tells
  <2>3. /\ a <= sampled
        /\ \A i \in 1..a : arrived[i] = i
        /\ \A i \in 1..Len(log) : Tells(i) => log[i].sample > a
        /\ \A i, j \in 1..Len(log) : Tells(i) /\ Tells(j) /\ i < j => log[i].sample < log[j].sample
        /\ \A k \in (a + 1)..sampled : \E i \in 1..Len(log) : Tells(i) /\ log[i].sample = k
    BY <2>1 DEF SamplesWait
  <2>4. 1 \in 1..Len(log) /\ m.sample \in Nat
    BY <2>1, ForwardingAssumption DEF LogTexts, Message
  <2>5. ASSUME NEW k \in Nat, \E i \in 1..Len(log) : i # 1 /\ Tells(i) /\ log[i].sample = k
        PROVE  \E i \in 1..Len(log') : Tells(i)' /\ log'[i].sample = k
    <3>1. PICK i \in 1..Len(log) : i # 1 /\ Tells(i) /\ log[i].sample = k
      BY <2>5
    <3> DEFINE j == i - 1
    <3>2. j \in 1..Len(log') /\ j + 1 = i
      BY <2>1, <3>1
    <3> HIDE DEF j
    <3>3. Tells(j)' /\ log'[j].sample = k
      BY <2>1, <2>2, <3>1, <3>2
    <3> QED
      BY <3>2, <3>3
  <2>6. \A i, j \in 1..Len(log') : Tells(i)' /\ Tells(j)' /\ i < j => log'[i].sample < log'[j].sample
    <3> SUFFICES ASSUME NEW i \in 1..Len(log'), NEW j \in 1..Len(log'), Tells(i)', Tells(j)', i < j
                 PROVE  log'[i].sample < log'[j].sample
      OBVIOUS
    <3>1. i + 1 < j + 1 /\ Tells(i + 1) /\ Tells(j + 1)
      BY <2>1, <2>2
    <3> QED
      BY <2>1, <2>3, <3>1
  <2>7. CASE Tells(1)
    <3>1. m.sample # 0 /\ m.ends /\ line = <<>>
      BY <2>7 DEF Tells, Clean
    <3>2. arrived' = Append(arrived, m.sample)
      BY <1>2, <3>1, ReaderSteps
    <3>3. m.sample \in 0..MaxSamples
      BY <2>1 DEF LogTexts, Message
    <3>4. m.sample = a + 1
      <4>1. m.sample > a /\ m.sample <= sampled
        BY <2>3, <2>4, <2>7, <3>1 DEF SamplesInOrder
      <4>2. a + 1 \in (a + 1)..sampled
        BY <1>0, <2>4, <4>1
      <4>3. PICK i \in 1..Len(log) : Tells(i) /\ log[i].sample = a + 1
        BY <2>3, <4>2
      <4>4. i = 1 \/ 1 < i
        BY <2>1
      <4>5. 1 < i => m.sample < a + 1
        BY <2>3, <2>4, <2>7, <4>3
      <4> QED
        BY <1>0, <2>4, <4>1, <4>3, <4>4, <4>5
    <3>5. /\ Len(arrived') = a + 1 /\ arrived'[a + 1] = a + 1
          /\ \A i \in 1..a : arrived'[i] = arrived[i]
      <4>1. arrived \in Seq(1..MaxSamples) /\ m.sample \in 1..MaxSamples
        BY <3>1, <3>3, ForwardingAssumption DEF FwIInv
      <4> QED
        BY <3>2, <3>4, <4>1, AppendProperties
    <3>6. \A i \in 1..Len(arrived') : arrived'[i] = i
      BY <1>0, <2>3, <3>5
    <3>7. a + 1 <= sampled'
      BY <1>0, <2>1, <2>4, <2>7, <3>1, <3>4 DEF SamplesInOrder
    <3>8. ASSUME NEW i \in 1..Len(log'), Tells(i)' PROVE log'[i].sample > a + 1
      <4>1. Tells(i + 1) /\ 1 < i + 1 /\ i + 1 \in 1..Len(log) /\ log'[i] = log[i + 1]
        BY <2>1, <2>2, <3>8
      <4>2. m.sample < log[i + 1].sample
        BY <2>3, <2>4, <2>7, <4>1
      <4> QED
        BY <3>4, <4>1, <4>2
    <3>9. ASSUME NEW k \in (a + 2)..sampled PROVE \E i \in 1..Len(log') : Tells(i)' /\ log'[i].sample = k
      <4>1. k \in (a + 1)..sampled /\ k \in Nat /\ k # a + 1
        BY <1>0
      <4>2. PICK i \in 1..Len(log) : Tells(i) /\ log[i].sample = k
        BY <2>3, <4>1
      <4>3. i # 1
        BY <3>4, <4>1, <4>2
      <4> QED
        BY <2>5, <4>1, <4>2, <4>3
    <3>10. (a + 1) + 1 = a + 2
      BY <1>0
    <3> QED
      BY <2>1, <2>6, <3>5, <3>6, <3>7, <3>8, <3>9, <3>10 DEF SamplesWait
  <2>8. CASE ~Tells(1)
    <3>1. line # <<>> => m.sample # 0
      <4>1. 1 \in 1..(Len(log) + 1)
        BY <2>1
      <4> QED
        BY <2>1, <4>1 DEF SpoiltLinesEnd, Clean
    <3>2. ~(m.sample # 0 /\ m.ends /\ line = <<>>)
      BY <2>8 DEF Tells, Clean
    <3>3. arrived' = arrived
      BY <1>2, <3>1, <3>2, ReaderSteps DEF gui
    <3>4. ASSUME NEW i \in 1..Len(log'), Tells(i)' PROVE log'[i].sample > a
      <4>1. Tells(i + 1) /\ i + 1 \in 1..Len(log) /\ log'[i] = log[i + 1]
        BY <2>1, <2>2, <3>4
      <4> QED
        BY <2>3, <4>1
    <3>5. ASSUME NEW k \in (a + 1)..sampled PROVE \E i \in 1..Len(log') : Tells(i)' /\ log'[i].sample = k
      <4>1. PICK i \in 1..Len(log) : Tells(i) /\ log[i].sample = k
        BY <2>3
      <4>2. i # 1 /\ k \in Nat
        BY <1>0, <2>8, <4>1
      <4> QED
        BY <2>5, <4>1, <4>2
    <3> QED
      BY <2>1, <2>3, <2>6, <3>3, <3>4, <3>5 DEF SamplesWait
  <2> QED
    BY <2>7, <2>8
<1>3. CASE UNCHANGED vars
  <2>1. log' = log /\ line' = line /\ arrived' = arrived /\ sampled' = sampled
        /\ overwritten' = overwritten
    BY <1>3 DEF vars, gui, sent
  <2> QED
    BY <2>1 DEF SamplesWait, Tells, Clean
<1>4. overwritten' # 0 => SamplesWait'
  BY DEF SamplesWait
<1> QED
  BY <1>1, <1>2, <1>3, <1>4, BaseNotifies

-----------------------------------------------------------------------------
(* The inductive invariant and what it says of an empty buffer.            *)

Forwarded ==
  FwIInv /\ SpoiltLinesEnd /\ ScansWait /\ CardsWereRead /\ SamplesInOrder /\ SamplesWait

LEMMA ForwardedHolds == Spec => []Forwarded
<1>1. Init => Forwarded
  <2> SUFFICES ASSUME Init PROVE Forwarded
    OBVIOUS
  <2>1. /\ log = <<>> /\ line = <<>> /\ scans = <<>> /\ scannedColours = {} /\ arrived = <<>>
        /\ sampled = 0 /\ Len(log) = 0 /\ Len(line) = 0 /\ Len(arrived) = 0
    BY DEF Init
  <2>2. ToSet(scans) = {}
    BY <2>1 DEF ToSet
  <2>3. \A i \in 1..(Len(log) + 1) : Clean(i)
    BY <2>1 DEF Clean
  <2>4. SpoiltLinesEnd /\ ScansWait /\ CardsWereRead
    BY <2>1, <2>2, <2>3 DEF SpoiltLinesEnd, ScansWait, CardsWereRead
  <2>5. SamplesInOrder
    BY <2>1 DEF SamplesInOrder, Seen
  <2>6. SamplesWait
    BY <2>1 DEF SamplesWait
  <2> QED
    BY <2>4, <2>5, <2>6, InitFwIInv DEF Forwarded
<1>2. Forwarded /\ [Next]_vars => Forwarded'
  BY StepKeepsFwIInv, SpoiltLinesKeepEnding, ScansKeepWaiting, CardsStayRead, SamplesStayInOrder,
     SamplesKeepWaiting DEF Forwarded
<1> QED
  BY <1>1, <1>2, PTL DEF Spec

(* One message overwritten, at whatever place, costs no scan.              *)
THEOREM OneLossCostsNoScan == Spec => []OneLossSparesScans
<1>1. Forwarded => OneLossSparesScans
  <2> SUFFICES ASSUME ScansWait, CardsWereRead, overwritten <= 1, log = <<>>
               PROVE  scannedColours = ToSet(scans)
    BY DEF OneLossSparesScans, Forwarded
  <2>1. \A c : ~Waits(c)
    BY DEF Waits
  <2> QED
    BY <2>1 DEF ScansWait, CardsWereRead
<1> QED
  BY <1>1, ForwardedHolds, PTL

(* As long as the buffer never overflows, every sample reaches the screen, *)
(* once and in its order, and so does every scan.                          *)
THEOREM NothingIsLost == Spec => []NothingIsLostInTime
<1>1. Forwarded => NothingIsLostInTime
  <2> SUFFICES ASSUME FwIInv, SpoiltLinesEnd, ScansWait, CardsWereRead, SamplesWait, overwritten = 0, log = <<>>
               PROVE  arrived = [i \in 1..sampled |-> i] /\ scannedColours = ToSet(scans)
    BY DEF NothingIsLostInTime, Forwarded
  <2>1. Len(log) = 0 /\ Len(arrived) \in Nat /\ sampled \in Nat
    BY EmptySeq, LenProperties, ForwardingAssumption DEF FwIInv
  <2>2. \A c : ~Waits(c)
    BY <2>1 DEF Waits
  <2>3. scannedColours = ToSet(scans)
    <3>1. overwritten <= 1
      OBVIOUS
    <3>2. ScansWait /\ CardsWereRead
      OBVIOUS
    <3> QED
      BY <2>2, <3>1, <3>2 DEF ScansWait, CardsWereRead
  <2>4. /\ Len(arrived) <= sampled /\ \A i \in 1..Len(arrived) : arrived[i] = i
        /\ \A k \in (Len(arrived) + 1)..sampled : \E i \in 1..Len(log) : log[i].sample = k
    BY DEF SamplesWait
  <2>5. sampled = Len(arrived)
    <3> SUFFICES ASSUME Len(arrived) + 1 <= sampled PROVE FALSE
      BY <2>1, <2>4
    <3>1. sampled \in (Len(arrived) + 1)..sampled
      BY <2>1
    <3> QED
      BY <2>1, <2>4, <3>1
  <2>6. arrived \in [1..sampled -> 1..MaxSamples]
    BY <2>5, LenProperties DEF FwIInv
  <2>7. \A i \in 1..sampled : arrived[i] = i
    BY <2>4, <2>5
  <2>8. arrived = [i \in 1..sampled |-> i]
    BY <2>6, <2>7
  <2> QED
    BY <2>3, <2>8
<1> QED
  BY <1>1, ForwardedHolds, PTL

-----------------------------------------------------------------------------
(* What the base forwards implements ScreenFeed: every step of the reader  *)
(* is a step of the feed or none, whatever the buffer has lost.            *)
THEOREM ForwardingImplementsFeed == Spec => ForwardsInOrder
<1>1. Init => Screen!Init
  BY DEF Init, Screen!Init, ToSet
<1>2. Forwarded /\ [Next]_vars => [Screen!Next]_Screen!feedVars
  <2> SUFFICES ASSUME FwIInv, CardsWereRead, SamplesInOrder, [Next]_vars
               PROVE  Screen!Next \/ UNCHANGED Screen!feedVars
    BY DEF Forwarded
  <2>0. Screen!Latest = Seen
    BY DEF Screen!Latest, Seen
  <2>1. ASSUME UNCHANGED <<sampled, scans, arrived, scannedColours>> PROVE UNCHANGED Screen!feedVars
    BY <2>1 DEF Screen!feedVars
  <2>2. ASSUME NEW texts \in Seq(LogTexts), Notifies(texts) PROVE Screen!Next \/ UNCHANGED Screen!feedVars
    <3>1. arrived' = arrived /\ scannedColours' = scannedColours
      BY <2>2 DEF Notifies, gui
    <3>2. CASE sampled' = sampled + 1 /\ UNCHANGED scans
      BY <3>1, <3>2 DEF Screen!Next, Screen!Produce
    <3>3. ASSUME NEW c \in Cards, scans' = Append(scans, c), UNCHANGED sampled PROVE Screen!Next
      <4>1. ToSet(scans') = ToSet(scans) \cup {c}
        BY <3>3, ScansAppended DEF FwIInv
      <4>2. Screen!Scan(c)
        BY <3>1, <3>3, <4>1 DEF Screen!Scan
      <4> QED
        BY <4>2 DEF Screen!Next
    <3>4. CASE UNCHANGED <<sampled, scans>>
      BY <2>1, <3>1, <3>4
    <3> QED
      BY <2>2, <3>2, <3>3, <3>4 DEF Notifies
  <2>3. CASE LogThread
    <3> DEFINE m == log[1]
    <3>1. sampled' = sampled /\ scans' = scans /\ Len(log) \in Nat \ {0}
      BY <2>3, OldestLeaves DEF sent
    <3>2. ASSUME NEW k \in Nat, k # 0, Seen <= k, k <= sampled,
                 arrived' = Append(arrived, k), scannedColours' = scannedColours
          PROVE  Screen!Next
      <4>1. Screen!Show(k)
        BY <3>1, <3>2 DEF Screen!Show
      <4>2. k \in Screen!Latest..sampled
        <5>1. Seen \in Int
          <6>1. arrived # <<>> => Len(arrived) \in 1..Len(arrived)
            BY EmptySeq, LenProperties DEF FwIInv
          <6>2. arrived # <<>> => arrived[Len(arrived)] \in 1..MaxSamples
            BY <6>1, ElementOfSeq DEF FwIInv
          <6> QED
            BY <6>2, ForwardingAssumption DEF Seen
        <5>2. sampled \in Int
          BY DEF FwIInv
        <5> QED
          BY <2>0, <3>2, <5>1, <5>2
      <4> QED
        BY <4>1, <4>2 DEF Screen!Next
    <3>3. CASE UNCHANGED gui
      BY <2>1, <3>1, <3>3 DEF gui
    <3>4. CASE m.sample # 0 /\ arrived' = Append(arrived, m.sample) /\ UNCHANGED scannedColours
      <4>1. m \in LogTexts
        BY <2>3, OldestLeaves
      <4>2. m.sample \in Nat /\ Seen <= m.sample /\ m.sample <= sampled
        BY <3>1, <3>4, <4>1 DEF SamplesInOrder, LogTexts, Message
      <4> QED
        BY <3>2, <3>4, <4>2
    <3>5. CASE line # <<>> /\ arrived' = Append(arrived, line[1].sample) /\ UNCHANGED scannedColours
      <4>1. 1 \in 1..Len(line)
        BY <3>5, EmptySeq, LenProperties DEF FwIInv
      <4>2. line[1] \in Fragments
        BY <4>1, ElementOfSeq DEF FwIInv
      <4>3. line[1].sample \in Nat /\ line[1].sample # 0
        BY <4>2 DEF Fragments, Message
      <4>4. Seen <= line[1].sample /\ line[1].sample <= sampled
        BY <4>1 DEF SamplesInOrder
      <4> QED
        BY <3>2, <3>5, <4>3, <4>4
    <3>6. CASE m.card \in Cards /\ scannedColours' = scannedColours \cup {m.card} /\ UNCHANGED arrived
      <4>1. m.card \in ToSet(scans)
        BY <3>1, <3>6, ForwardingAssumption DEF CardsWereRead
      <4>2. Screen!Learn(m.card)
        BY <3>1, <3>6 DEF Screen!Learn
      <4> QED
        BY <4>1, <4>2 DEF Screen!Next
    <3> QED
      BY <2>3, <3>3, <3>4, <3>5, <3>6, ReaderSteps
  <2>4. CASE UNCHANGED vars
    BY <2>1, <2>4 DEF vars, gui, sent
  <2> QED
    BY <2>2, <2>3, <2>4, BaseNotifies
<1> QED
  BY <1>1, <1>2, ForwardedHolds, PTL DEF Spec, ForwardsInOrder, Screen!Spec
===============================================================================
