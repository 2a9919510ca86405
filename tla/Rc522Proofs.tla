---------------------------- MODULE Rc522Proofs ----------------------------
(***************************************************************************)
(* What a check of the reader can come to, for any set of cards, any length *)
(* of the wait loop and any number of faults.  The inductive invariant has  *)
(* three parts: the types; HeardIInv, how bytes of an id reach the buffer   *)
(* when wires break at any access; SteadyIInv, the order of the accesses of *)
(* a check during which the wires hold.                                     *)
(***************************************************************************)
EXTENDS Rc522, SequenceTheorems, TLAPS

(* The types of what is not Boolean.                                         *)
RcBase ==
  /\ pc \in {"rest", "anticoll", "halt", "crc", "irq_read", "irq_clear", "flush", "idle", "load",
             "command", "bits_read", "send", "poll", "stop_read", "stop_write", "error",
             "level", "control", "copy", "spilled"}
  /\ cmd \in {"reqa", "anticoll", "halt"} /\ asked \in {"reqa", "anticoll", "none"}
  /\ i \in Nat /\ seen \subseteq {"rx", "timer"} /\ irq \subseteq {"rx", "timer"}
  /\ bits \in {0, 7, 119} /\ framing \in {0, 7, 119} /\ n \in Nat
  /\ id \in [1..5 -> Byte] /\ fifo \in Seq(Byte)
  /\ wire \in {"ok", "zeros", "ones", "reset"}
  /\ field \in [Tags -> {"out", "idle", "ready"}]
  /\ \A a \in heard : a \in Seq(Byte) /\ Len(a) \in 1..5
  /\ faults \in 0..MaxFaults

RcFlags ==
  /\ whole \in BOOLEAN /\ status \in BOOLEAN /\ error \in BOOLEAN /\ active \in BOOLEAN
  /\ steady \in BOOLEAN /\ flushed \in BOOLEAN /\ misled \in BOOLEAN

(* Where the counter of toCard and the command are, by the place.            *)
Counters ==
  /\ pc = "poll" => i \in 1..Polls
  /\ pc = "load" => i \in 1..Len(Frame)
  /\ pc = "copy" => i >= 1
  /\ pc \in {"rest", "crc"} => cmd = "halt"
  /\ pc = "anticoll" => cmd = "reqa"

TypeIInv == RcBase /\ RcFlags /\ Counters

(* toCard before the command goes out, and until the error flags are read.   *)
Prep == {"irq_read", "irq_clear", "flush", "idle", "load", "command", "bits_read", "send"}
Waits == {"poll", "stop_read", "stop_write", "error"}

(* Two bytes that follow each other are not the first two of a known uid,    *)
(* or a card has sent them at the beginning of its id in this check.         *)
Genuine(x, y) ==
  \/ x \in Protocol \/ y \in Protocol
  \/ \E a \in heard : Len(a) >= 2 /\ a[1] = x /\ a[2] = y

(* While an answer is due, a FIFO that has been flushed holds only what the  *)
(* driver wrote.                                                             *)
OnlySent ==
  cmd # "halt" /\ flushed /\ asked # "none" => \A k \in 1..Len(fifo) : fifo[k] \in Protocol
(* In rc522_request this is one byte at most, and none before it is loaded.  *)
OneSent ==
  cmd = "reqa" /\ flushed =>
    /\ pc \notin {"irq_read", "irq_clear", "flush"}
    /\ asked # "none" => Len(fifo) <= 1 /\ (pc \in {"idle", "load"} => fifo = <<>>)
(* No error flag comes up behind the back of the driver.                     *)
LookedClean == Looked /\ ~misled => ~error
(* As long as the first byte of the FIFO may become the first of the id, the *)
(* first two belong together.  A check goes on to the anticollision only with*)
(* two bytes from REQA, so what that leaves in the FIFO is no part of an id. *)
InScope ==
  \/ cmd = "reqa" /\ pc \in Prep \cup Waits \cup {"level", "anticoll"}
  \/ cmd = "reqa" /\ pc \in {"control", "copy"} /\ n = 2
  \/ cmd = "anticoll" /\ pc \in Prep \cup Waits \cup {"level", "control"}
  \/ cmd = "anticoll" /\ pc = "copy" /\ i = 1
FifoGenuine ==
  InScope /\ flushed /\ ~misled /\ ~error /\ Len(fifo) >= 2 => Genuine(fifo[1], fifo[2])
TwoAnswered ==
  cmd = "reqa" /\ pc \in {"control", "copy"} /\ n = 2 /\ flushed => asked = "none" /\ Len(fifo) <= 2
(* The buffer: the second byte is NVB until it is copied, and the first two  *)
(* belong together once they are.                                            *)
SecondByte ==
  cmd = "anticoll" /\ pc \in Prep \cup Waits \cup {"level", "control", "copy"}
    /\ (pc = "copy" => i <= 2) => id[2] = NVB
FirstCopied ==
  cmd = "anticoll" /\ pc = "copy" /\ i = 2 /\ flushed /\ ~misled =>
    /\ fifo # <<>> => Genuine(id[1], fifo[1])
    /\ asked # "none" => id[1] \in Protocol
TwoCopied ==
  cmd = "anticoll" /\ pc = "copy" /\ i > 2 /\ flushed /\ ~misled => Genuine(id[1], id[2])
(* A check that has succeeded does not touch its id any more.                *)
StatusGenuine == status /\ flushed /\ ~misled => Genuine(id[1], id[2])
StatusKept == status => cmd = "halt" \/ (cmd = "anticoll" /\ pc = "halt")

HeardIInv ==
  /\ OnlySent /\ OneSent /\ LookedClean /\ FifoGenuine /\ TwoAnswered /\ SecondByte
  /\ FirstCopied /\ TwoCopied /\ StatusGenuine /\ StatusKept

After == Waits \cup {"level", "control", "copy"}

WireHolds == steady => wire = "ok"

(* What the driver writes gets through, behind what has come in late.        *)
Framed ==
  /\ pc \in {"bits_read", "send"} => active
  /\ pc = "load" => Len(fifo) >= i - 1
  /\ pc \in {"command", "bits_read", "send"} => Len(fifo) >= Len(Frame)
SteadyFramed == steady => Framed

(* Nothing longer than an id is read.                                        *)
Short ==
  /\ pc # "spilled"
  /\ pc \in After => Len(fifo) <= 5
  /\ pc \in {"control", "copy"} => n <= 5
  /\ pc = "copy" => i <= Count
SteadyShort == steady => Short

(* REQA goes out with seven bits; only its own answer leads on, and then     *)
(* nothing is due any more.                                                  *)
SteadyRequest ==
  steady /\ cmd = "reqa" =>
    /\ framing = 7 /\ (pc \in {"send", "stop_write"} => bits = 7)
    /\ pc \in After /\ asked # "none" => asked = "reqa" /\ fifo = <<>>
    /\ pc \in {"control", "copy"} /\ n > 0 => asked = "none"
    /\ pc = "anticoll" => asked = "none"

(* So the flags and the FIFO are clean before the anticollision, and a flag  *)
(* behind it tells of its own answer.                                        *)
SteadyAntiColl ==
  steady /\ cmd = "anticoll" =>
    /\ framing = 0 /\ (pc \in {"send", "stop_write"} => bits = 0)
    /\ pc \in Prep => asked = "none"
    /\ pc = "irq_clear" => irq \subseteq seen
    /\ pc \in Prep \ {"irq_read", "irq_clear"} => irq = {}
    /\ pc \in After => asked # "reqa"
    /\ pc \in After /\ asked = "anticoll" => fifo = <<>> /\ "rx" \notin irq /\ ~error

(* HLTA is answered by nobody.                                               *)
SteadyHalt ==
  steady /\ cmd = "halt" /\ pc \in After =>
    asked = "none" /\ fifo = <<>> /\ (pc \in {"control", "copy"} => n = 0)

(* An answer a lies partly in the buffer, the rest of it in the FIFO.        *)
CopiedFrom(a) ==
  /\ n = Len(a) /\ Len(fifo) = n - i + 1
  /\ \A k \in 1..Len(fifo) : fifo[k] = a[k + i - 1]
  /\ \A k \in 1..(i - 1) : id[k] = a[k]
SteadyAnswer ==
  steady /\ cmd = "anticoll" =>
    /\ pc = "poll" /\ "rx" \in irq => asked = "none" /\ (error \/ fifo \in heard)
    /\ pc \in {"stop_read", "stop_write"} /\ i # 0 => seen # {}
    /\ pc \in {"error", "level", "control", "copy"} => seen # {}
    /\ pc \in {"stop_read", "stop_write", "error"} /\ "rx" \in seen => asked = "none" /\ (error \/ fifo \in heard)
    /\ pc = "level" /\ "rx" \in seen => asked = "none" /\ fifo \in heard
    /\ pc = "control" /\ "rx" \in seen => asked = "none" /\ fifo \in heard /\ n = Len(fifo)
    /\ pc = "copy" /\ "rx" \in seen => asked = "none" /\ \E a \in heard : CopiedFrom(a)

SteadyStatus ==
  steady /\ status => BccOK(id) /\ \E a \in heard : \A k \in DOMAIN a : id[k] = a[k]

SteadyIInv ==
  /\ WireHolds /\ SteadyFramed /\ SteadyShort /\ SteadyRequest /\ SteadyAntiColl /\ SteadyHalt
  /\ SteadyAnswer /\ SteadyStatus

-----------------------------------------------------------------------------
(* The two parts are the type invariant.                                     *)
LEMMA TypesAre == RcBase /\ RcFlags <=> RcTypeOK
  BY Zenon DEF RcBase, RcFlags, RcTypeOK

(* The bytes of the protocol.                                                *)
LEMMA BytesAre ==
  /\ <<>> \in Seq(Byte)
  /\ Zero \in Byte /\ Ones \in Byte /\ REQIDL \in Byte /\ ANTICOLL \in Byte /\ NVB \in Byte
  /\ Atqa \in Seq(Byte) /\ Len(Atqa) = 2 /\ <<Atqa[1]>> \in Seq(Byte) /\ Len(<<Atqa[1]>>) = 1
  /\ Hlta \in Seq(Byte) /\ Len(Hlta) = 4 /\ <<Hlta[1], Hlta[2]>> \in Seq(Byte)
<1>1. Zero \in Byte /\ Ones \in Byte /\ REQIDL \in Byte /\ ANTICOLL \in Byte /\ NVB \in Byte /\ {2} \in Byte
      /\ {4, 6} \in Byte /\ {0, 1, 2, 4, 6} \in Byte /\ {0, 2, 3, 6, 7} \in Byte /\ {} \in Byte
  BY DEF Zero, Ones, REQIDL, ANTICOLL, NVB, Byte
<1>2. Atqa[1] = {2} /\ Atqa[2] = {}
  BY DEF Atqa
<1>3. Atqa \in Seq(Byte) /\ Len(Atqa) = 2
  BY <1>1, <1>2 DEF Atqa
<1>4. Hlta[1] = {4, 6} /\ Hlta[2] = {} /\ Len(Hlta) = 4 /\ Hlta \in Seq(Byte)
  BY <1>1 DEF Hlta
<1>5. <<>> \in Seq(Byte)
  OBVIOUS
<1> QED
  BY <1>1, <1>2, <1>3, <1>4, <1>5

(* The first bytes of an id.                                                 *)
LEMMA IdBytesAre ==
  ASSUME NEW t \in Tags, NEW m \in 1..5
  PROVE  IdBytes(t, m) \in Seq(Byte) /\ Len(IdBytes(t, m)) = m
<1>1. \A k \in 1..m : IdOf[t][k] \in Byte
  BY TagAssumption
<1> QED
  BY <1>1 DEF IdBytes

(* The beginning.                                                            *)
LEMMA InitTypes == Init => TypeIInv
<1> SUFFICES ASSUME Init PROVE TypeIInv
  OBVIOUS
<1>1. RcFlags
  BY Zenon DEF Init, RcFlags
<1>2. RcBase /\ Counters
  BY BytesAre, BoundAssumption DEF Init, RcBase, Counters
<1> QED
  BY <1>1, <1>2 DEF TypeIInv

(* Every step keeps the types.                                               *)
LEMMA TypesKept == ASSUME TypeIInv, Next PROVE RcFlags'
<1>1. CASE Request
  BY <1>1, BytesAre, Zenon DEF Request, TypeIInv, RcFlags, Put, Through, world, locals, Goes
<1>2. CASE AntiColl
  BY <1>2, BytesAre, Zenon DEF AntiColl, TypeIInv, RcFlags, history, world, locals, Goes
<1>3. CASE Halt
  BY <1>3, Zenon DEF Halt, TypeIInv, RcFlags, Put, Through, history, world, locals, Goes
<1>4. CASE CalculateCRC
  BY <1>4, Zenon DEF CalculateCRC, TypeIInv, RcFlags, Put, Through, history, world, locals,
     Goes
<1>5. CASE ReadIrq
  BY <1>5, Zenon DEF ReadIrq, TypeIInv, RcFlags, Get, FlagsRead, chip, history, world, Goes
<1>6. CASE ClearIrq
  BY <1>6, BytesAre, Zenon DEF ClearIrq, TypeIInv, RcFlags, Put, Through, history, world,
     Goes
<1>7. CASE FlushFifo
  BY <1>7, BytesAre, Zenon DEF FlushFifo, TypeIInv, RcFlags, Put, Through, world, locals,
     Goes
<1>8. CASE Idle
  BY <1>8, BytesAre, Zenon DEF Idle, TypeIInv, RcFlags, Put, Through, history, world, Goes
<1>9. CASE Load
  BY <1>9, BytesAre, Zenon DEF Load, TypeIInv, RcFlags, Put, Through, history, world, Goes
<1>10. CASE Command
  BY <1>10, Zenon DEF Command, TypeIInv, RcFlags, Put, Through, history, world, locals, Goes
<1>11. CASE ReadBits
  BY <1>11, BytesAre, Zenon DEF ReadBits, TypeIInv, RcFlags, chip, history, world, Goes
<1>12. CASE Send
  BY <1>12, BytesAre, Zenon DEF Send, TypeIInv, RcFlags, Put, Through, history, Goes
<1>13. CASE Poll
  BY <1>13, BytesAre, Zenon DEF Poll, TypeIInv, RcFlags, Get, FlagsRead, chip, history,
     world
<1>14. CASE ReadStop
  BY <1>14, BytesAre, Zenon DEF ReadStop, TypeIInv, RcFlags, chip, history, world, Goes
<1>15. CASE WriteStop
  BY <1>15, BytesAre, Zenon DEF WriteStop, TypeIInv, RcFlags, Put, Through, Return, history,
     world
<1>16. CASE ReadError
  BY <1>16, Zenon DEF ReadError, TypeIInv, RcFlags, Get, ErrorRead, Return, chip, world,
     locals
<1>17. CASE ReadLevel
  BY <1>17, BytesAre, Zenon DEF ReadLevel, TypeIInv, RcFlags, chip, history, world, Goes
<1>18. CASE ReadControl
  BY <1>18, BytesAre, Zenon DEF ReadControl, TypeIInv, RcFlags, chip, history, world, Goes
<1>19. CASE Copy
  BY <1>19, BytesAre, Zenon DEF Copy, TypeIInv, RcFlags, Put, Through, Return, history,
     world
<1>20. CASE Spill
  BY <1>20, BytesAre, Zenon DEF Spill, TypeIInv, RcFlags, chip, history, world, locals
<1>21. CASE RequestAnswered
  BY <1>21, Zenon DEF RequestAnswered, TypeIInv, RcFlags, history, world, driver, locals,
     Received, Hears
<1>22. CASE TimerRunsOut
  BY <1>22, BytesAre, Zenon DEF TimerRunsOut, TypeIInv, RcFlags, history, driver, locals
<1>23. CASE WireChanges
  BY <1>23, BytesAre, Zenon DEF WireChanges, TypeIInv, RcFlags, chip, driver, locals
<1>24. ASSUME NEW junk \in Junk, AnswerDisturbed(junk) PROVE RcFlags'
  BY <1>24, Zenon DEF AnswerDisturbed, TypeIInv, RcFlags, chip, history, world, driver,
     locals, Received
<1>25. ASSUME NEW t \in Tags, IdAnswered(t) PROVE RcFlags'
  BY <1>25, Zenon DEF IdAnswered, TypeIInv, RcFlags, chip, history, world, driver, locals,
     Received
<1>26. ASSUME NEW t \in Tags, TagLeaves(t) PROVE RcFlags'
  BY <1>26, Zenon DEF TagLeaves, TypeIInv, RcFlags, chip, history, world, driver, locals,
     Received
<1>27. ASSUME NEW t \in Tags, TagComes(t) PROVE RcFlags'
  BY <1>27, Zenon DEF TagComes, TypeIInv, RcFlags, chip, history, world, driver, locals,
     Received
<1>28. ASSUME NEW t \in Tags, NEW m \in 1..4, AnswerCutShort(t, m) PROVE RcFlags'
  BY <1>28, Zenon DEF AnswerCutShort, TypeIInv, RcFlags, chip, history, world, driver,
     locals, Received
<1> QED
  BY <1>1, <1>2, <1>3, <1>4, <1>5, <1>6, <1>7, <1>8, <1>9, <1>10, <1>11, <1>12, <1>13,
     <1>14, <1>15, <1>16, <1>17, <1>18, <1>19, <1>20, <1>21, <1>22, <1>23, <1>24, <1>25,
     <1>26, <1>27, <1>28 DEF Next, DriverNext, Prepares, Fetches

(* What the driver sends, and what it takes from the FIFO.                   *)
LEMMA FrameIs ==
  ASSUME cmd \in {"reqa", "anticoll", "halt"}
  PROVE  /\ Frame \in Seq(Byte) /\ Len(Frame) \in 1..4
         /\ cmd # "halt" => \A k \in 1..Len(Frame) : Frame[k] \in Protocol
         /\ cmd = "reqa" => Len(Frame) = 1
         /\ cmd = "halt" => Len(Frame) = 4
<1>1. CASE cmd = "reqa"
  BY <1>1, BytesAre DEF Frame, Protocol
<1>2. CASE cmd = "anticoll"
  BY <1>2, BytesAre DEF Frame, Protocol
<1>3. CASE cmd = "halt"
  BY <1>3, BytesAre DEF Frame
<1> QED
  BY <1>1, <1>2, <1>3

(* A read of the FIFO.                                                       *)
LEMMA PoppedIs ==
  ASSUME fifo \in Seq(Byte)
  PROVE  /\ HeadRead \in Byte /\ Popped \in Seq(Byte) /\ Len(Popped) \in Nat /\ Len(fifo) \in Nat
         /\ fifo = <<>> => Popped = <<>> /\ HeadRead \in {Zero, Ones}
         /\ fifo # <<>> =>
              /\ Len(Popped) = Len(fifo) - 1 /\ HeadRead \in {fifo[1], Zero, Ones}
              /\ \A k \in 1..Len(Popped) : Popped[k] = fifo[k + 1]
  BY BytesAre DEF HeadRead, Popped, Get

(* The same for what is not Boolean.                                         *)
LEMMA BaseKept == ASSUME TypeIInv, Next PROVE RcBase' /\ Counters'
<1>1. CASE Request
  BY <1>1, BytesAre DEF Request, TypeIInv, RcBase, Counters, Put, Through, world, locals,
     Goes, Frame
<1>2. CASE AntiColl
  BY <1>2, BytesAre DEF AntiColl, TypeIInv, RcBase, Counters, Put, Through, history, world,
     locals, Goes, Frame, AntiCollBits
<1>3. CASE Halt
  BY <1>3, BytesAre DEF Halt, TypeIInv, RcBase, Counters, Put, Through, history, world,
     locals, Goes, Frame
<1>4. CASE CalculateCRC
  BY <1>4 DEF CalculateCRC, TypeIInv, RcBase, Counters, Put, Through, history, world,
     locals, Goes, Frame
<1>5. CASE ReadIrq
  BY <1>5 DEF ReadIrq, TypeIInv, RcBase, Counters, Get, FlagsRead, chip, history, world,
     Goes, Frame
<1>6. CASE ClearIrq
  BY <1>6 DEF ClearIrq, TypeIInv, RcBase, Counters, Put, Through, history, world, Goes,
     Frame
<1>7. CASE FlushFifo
  BY <1>7 DEF FlushFifo, TypeIInv, RcBase, Counters, Put, Through, world, locals, Goes,
     Frame
<1>8. CASE Idle
  <2>1. Frame' = Frame /\ Len(Frame) \in 1..4
    BY <1>8, FrameIs DEF Idle, Frame, TypeIInv, RcBase
  <2> QED
    <3>1. pc' = "load" /\ i' = 1 /\ UNCHANGED <<cmd, seen, bits, n, id, framing, irq, fifo, asked, wire, field, heard, faults>>
      BY <1>8 DEF Idle, Goes, history, world
    <3>2. RcBase'
      BY <3>1 DEF TypeIInv, RcBase
    <3>3. 1 \in 1..Len(Frame)
      BY <2>1
    <3>4. Counters'
      BY <2>1, <3>1, <3>3 DEF Counters
    <3> QED
      BY <3>2, <3>4
<1>9. CASE Load
  <2>1. Frame \in Seq(Byte) /\ Len(Frame) \in 1..4 /\ i \in 1..Len(Frame)
    BY <1>9, FrameIs DEF Load, Goes, TypeIInv, RcBase, Counters
  <2>2. Frame[i] \in Byte
    BY <2>1
  <2>3. Append(fifo, Frame[i]) \in Seq(Byte)
    BY <2>2 DEF TypeIInv, RcBase
  <2>4. Frame' = Frame
    BY <1>9 DEF Load, Frame
  <2> QED
    BY <1>9, <2>1, <2>3, <2>4 DEF Load, Goes, TypeIInv, RcBase, Counters, Put, locals,
       history, world
<1>10. CASE Command
  BY <1>10 DEF Command, TypeIInv, RcBase, Counters, Put, Through, history, world, locals,
     Goes, Frame
<1>11. CASE ReadBits
  BY <1>11 DEF ReadBits, TypeIInv, RcBase, Counters, Get, FramingRead, chip, history, world,
     Goes, Frame
<1>12. CASE Send
  <2>1. Heard(Understood) \in [Tags -> {"out", "idle", "ready"}]
    BY DEF Heard, TypeIInv, RcBase
  <2>2. Understood \in {"reqa", "anticoll", "none"}
    BY DEF Understood
  <2>3. fifo' \in {<<>>, fifo} /\ asked' \in {Understood, "none", asked} /\ field' \in {Heard(Understood), field}
    BY <1>12 DEF Send
  <2>4. fifo' \in Seq(Byte) /\ asked' \in {"reqa", "anticoll", "none"}
        /\ field' \in [Tags -> {"out", "idle", "ready"}]
    <3>1. fifo' \in Seq(Byte)
      BY <2>3, BytesAre DEF TypeIInv, RcBase
    <3>2. asked' \in {"reqa", "anticoll", "none"}
      BY <2>2, <2>3 DEF TypeIInv, RcBase
    <3>3. field' \in [Tags -> {"out", "idle", "ready"}]
      BY <2>1, <2>3 DEF TypeIInv, RcBase
    <3> QED
      BY <3>1, <3>2, <3>3
  <2>5. /\ pc' = "poll" /\ i' = Polls /\ seen' = {} /\ bits' = 0 /\ framing' \in {framing, bits}
        /\ UNCHANGED <<cmd, n, id, irq, wire, heard, faults>>
    BY <1>12 DEF Send, Goes, Put, history
  <2> QED
    BY <2>4, <2>5, BoundAssumption DEF TypeIInv, RcBase, Counters
<1>13. CASE Poll
  BY <1>13, BoundAssumption DEF Poll, TypeIInv, RcBase, Counters, Get, FlagsRead, chip,
     history, world, Frame, PollsLeft
<1>14. CASE ReadStop
  BY <1>14 DEF ReadStop, TypeIInv, RcBase, Counters, Get, FramingRead, chip, history, world,
     Goes, Frame
<1>15. CASE WriteStop
  BY <1>15 DEF WriteStop, TypeIInv, RcBase, Counters, Put, Through, Return, history, world,
     Frame
<1>16. CASE ReadError
  BY <1>16 DEF ReadError, TypeIInv, RcBase, Counters, Get, ErrorRead, Return, chip, world,
     locals, Frame
<1>17. CASE ReadLevel
  BY <1>17 DEF ReadLevel, TypeIInv, RcBase, Counters, Get, LevelRead, chip, history, world,
     Goes, Frame
<1>18. CASE ReadControl
  BY <1>18 DEF ReadControl, TypeIInv, RcBase, Counters, chip, history, world, Goes, Frame
<1>19. CASE Copy
  <2>1. HeadRead \in Byte /\ Popped \in Seq(Byte)
    BY PoppedIs DEF TypeIInv, RcBase
  <2>2. i \in 1..5
    BY <1>19 DEF Copy, Size, TypeIInv, RcBase, Counters
  <2>3. id' \in [1..5 -> Byte]
    BY <1>19, <2>1, <2>2 DEF Copy, TypeIInv, RcBase
  <2>4. fifo' \in Seq(Byte)
    BY <1>19, <2>1 DEF Copy, Put, TypeIInv, RcBase
  <2>5. /\ pc' \in {"copy", "anticoll", "halt", "rest"} /\ i' \in Nat /\ n' \in {n, 0} /\ bits' \in {bits, 0} /\ seen' \in {seen, {}}
        /\ pc' = "copy" => i' >= 1
        /\ pc' = "anticoll" => cmd = "reqa"
        /\ pc' = "rest" => cmd = "halt"
    BY <1>19, <2>2 DEF Copy, Return, TypeIInv, RcBase
  <2> QED
    BY <1>19, <2>3, <2>4, <2>5 DEF Copy, TypeIInv, RcBase, Counters, history, world
<1>20. CASE Spill
  BY <1>20 DEF Spill, TypeIInv, RcBase, Counters, chip, history, world, locals, Frame, Size
<1>21. CASE RequestAnswered
  BY <1>21, BytesAre DEF RequestAnswered, TypeIInv, RcBase, Counters, history, world,
     driver, locals, Received, Hears, Frame
<1>22. CASE TimerRunsOut
  BY <1>22, BoundAssumption DEF TimerRunsOut, TypeIInv, RcBase, Counters, history, driver,
     locals, Frame, Fault
<1>23. CASE WireChanges
  <2>1. fifo' \in {fifo, <<>>} /\ framing' \in {framing, 0} /\ irq' \in {irq, {}} /\ asked' \in {asked, "none"}
    BY <1>23 DEF WireChanges, chip
  <2>2. wire' \in {"ok", "zeros", "ones", "reset"} /\ faults' \in 0..MaxFaults
    BY <1>23, BoundAssumption DEF WireChanges, Fault, TypeIInv, RcBase
  <2>3. UNCHANGED <<pc, cmd, i, seen, bits, n, id, field, heard>>
    BY <1>23 DEF WireChanges, driver, locals
  <2> QED
    <3>1. Counters'
      BY <2>3 DEF TypeIInv, Counters, Frame
    <3>2. irq' \subseteq {"rx", "timer"} /\ fifo' \in Seq(Byte)
      BY <2>1, BytesAre DEF TypeIInv, RcBase
    <3> QED
      BY <2>1, <2>2, <2>3, <3>1, <3>2 DEF TypeIInv, RcBase
<1>24. ASSUME NEW junk \in Junk, AnswerDisturbed(junk) PROVE RcBase' /\ Counters'
  BY <1>24, TagAssumption, BoundAssumption DEF AnswerDisturbed, TypeIInv, RcBase, Counters,
     driver, locals, Received, Hears, Frame, Fault
<1>25. ASSUME NEW t \in Tags, IdAnswered(t) PROVE RcBase' /\ Counters'
  BY <1>25, IdBytesAre DEF IdAnswered, TypeIInv, RcBase, Counters, world, driver, locals,
     Received, Hears, Frame
<1>26. ASSUME NEW t \in Tags, TagLeaves(t) PROVE RcBase' /\ Counters'
  BY <1>26 DEF TagLeaves, TypeIInv, RcBase, Counters, chip, history, driver, locals, Frame
<1>27. ASSUME NEW t \in Tags, TagComes(t) PROVE RcBase' /\ Counters'
  BY <1>27 DEF TagComes, TypeIInv, RcBase, Counters, chip, history, driver, locals, Frame
<1>28. ASSUME NEW t \in Tags, NEW m \in 1..4, AnswerCutShort(t, m) PROVE RcBase' /\ Counters'
  <2>0. m \in 1..5
    BY <1>28
  <2>1. IdBytes(t, m) \in Seq(Byte) /\ Len(IdBytes(t, m)) = m /\ <<Atqa[1]>> \in Seq(Byte)
    BY <1>28, <2>0, IdBytesAre, BytesAre
  <2>2. fifo' \in {fifo \o <<Atqa[1]>>, fifo \o IdBytes(t, m)} /\ heard' \in {heard, heard \cup {IdBytes(t, m)}}
        /\ irq' = irq \cup {"rx"} /\ asked' = "none" /\ field' = [field EXCEPT ![t] = "out"]
    BY <1>28 DEF AnswerCutShort, Received
  <2>3. fifo' \in Seq(Byte) /\ field' \in [Tags -> {"out", "idle", "ready"}]
    <3> DEFINE s1 == <<Atqa[1]>>
               s2 == IdBytes(t, m)
    <3>1. s1 \in Seq(Byte) /\ s2 \in Seq(Byte) /\ fifo \in Seq(Byte)
      BY <2>1 DEF TypeIInv, RcBase
    <3>2. fifo' \in {fifo \o s1, fifo \o s2}
      BY <2>2
    <3> HIDE DEF s1, s2
    <3>3. fifo' \in Seq(Byte)
      BY <3>1, <3>2, ConcatProperties
    <3> QED
      BY <1>28, <2>2, <3>3 DEF TypeIInv, RcBase
  <2>4. \A a \in heard' : a \in Seq(Byte) /\ Len(a) \in 1..5
    <3> DEFINE s2 == IdBytes(t, m)
    <3>1. s2 \in Seq(Byte) /\ Len(s2) \in 1..5
      BY <2>0, <2>1
    <3>2. heard' \in {heard, heard \cup {s2}}
      BY <2>2
    <3> HIDE DEF s2
    <3> QED
      BY <3>1, <3>2 DEF TypeIInv, RcBase
  <2>5. faults' \in 0..MaxFaults
    BY <1>28, BoundAssumption DEF AnswerCutShort, Fault, TypeIInv, RcBase
  <2> QED
    BY <1>28, <2>2, <2>3, <2>4, <2>5 DEF AnswerCutShort, TypeIInv, RcBase, Counters, driver,
       locals, Frame
<1> QED
  BY <1>1, <1>2, <1>3, <1>4, <1>5, <1>6, <1>7, <1>8, <1>9, <1>10, <1>11, <1>12, <1>13,
     <1>14, <1>15, <1>16, <1>17, <1>18, <1>19, <1>20, <1>21, <1>22, <1>23, <1>24, <1>25,
     <1>26, <1>27, <1>28 DEF Next, DriverNext, Prepares, Fetches

-----------------------------------------------------------------------------
(* What is received is put behind what is in the FIFO.                     *)
LEMMA ConcatIs ==
  ASSUME NEW s \in Seq(Byte), NEW t \in Seq(Byte)
  PROVE  /\ Len(s) \in Nat /\ Len(t) \in Nat /\ Len(s \o t) = Len(s) + Len(t)
         /\ \A k \in 1..Len(s) : (s \o t)[k] = s[k]
         /\ \A k \in 1..Len(t) : (s \o t)[Len(s) + k] = t[k]
         /\ s = <<>> => s \o t = t
         /\ Len(s) = 0 => s = <<>>
  OBVIOUS

(* An answer behind bytes of the driver, or alone, keeps the order.          *)
LEMMA ReceivedKeepsHeard ==
  ASSUME TypeIInv, TypeIInv', HeardIInv, asked # "none",
         NEW s \in Seq(Byte), fifo' = fifo \o s, asked' = "none",
         heard \subseteq heard', Len(s) >= 2 => Genuine(s[1], s[2])',
         UNCHANGED <<pc, cmd, i, n, status, id, error, flushed, misled>>
  PROVE  HeardIInv'
<1>0. fifo \in Seq(Byte)
  BY DEF TypeIInv, RcBase
<1>1. \A x, y : Genuine(x, y) => Genuine(x, y)'
  BY DEF Genuine
<1>2. OnlySent' /\ OneSent' /\ LookedClean' /\ SecondByte' /\ TwoCopied' /\ StatusGenuine' /\ StatusKept'
  BY <1>1 DEF HeardIInv, OnlySent, OneSent, LookedClean, SecondByte, TwoCopied,
     StatusGenuine, StatusKept, Looked
<1>3. TwoAnswered'
  BY DEF HeardIInv, TwoAnswered
<1>4. FifoGenuine'
  <2> SUFFICES ASSUME FifoGenuine, InScope, flushed, ~misled, ~error, Len(fifo') >= 2
               PROVE  Genuine(fifo[1], fifo[2])'
    BY DEF FifoGenuine, InScope, HeardIInv
  <2>1. cmd # "halt"
    BY DEF InScope
  <2>2. \A k \in 1..Len(fifo) : fifo[k] \in Protocol
    BY <2>1 DEF HeardIInv, OnlySent
  <2>3. CASE Len(fifo) = 0
    <3>1. fifo' = s
      BY <1>0, <2>3, ConcatIs
    <3> QED
      BY <3>1
  <2>4. CASE Len(fifo) > 0
    <3>1. fifo'[1] = fifo[1] /\ fifo[1] \in Protocol
      BY <1>0, <2>2, <2>4, ConcatIs
    <3> QED
      BY <3>1 DEF Genuine
  <2> QED
    BY <1>0, <2>3, <2>4, ConcatIs
<1>5. FirstCopied'
  <2> SUFFICES ASSUME cmd = "anticoll", pc = "copy", i = 2, flushed, ~misled
               PROVE  Genuine(id[1], fifo[1])'
    BY DEF FirstCopied
  <2>1. id[1] \in Protocol
    BY DEF HeardIInv, FirstCopied
  <2> QED
    BY <2>1 DEF Genuine
<1> QED
  BY <1>2, <1>3, <1>4, <1>5 DEF HeardIInv

(* Every step keeps the order of the bytes.                                  *)
LEMMA HeardKept == ASSUME TypeIInv, TypeIInv', HeardIInv, Next PROVE HeardIInv'
<1>1. CASE Request
  BY <1>1 DEF Request, TypeIInv, RcBase, RcFlags, Counters, Put, Through, world, locals,
     Goes, Looked, Prep, Waits, HeardIInv, Genuine, InScope, OnlySent, OneSent, LookedClean,
     FifoGenuine, TwoAnswered, SecondByte, FirstCopied, TwoCopied, StatusGenuine, StatusKept
<1>2. CASE AntiColl
  BY <1>2 DEF AntiColl, TypeIInv, RcBase, RcFlags, Counters, Put, Through, history, world,
     locals, Goes, AntiCollBits, Looked, Prep, Waits, HeardIInv, Genuine, InScope, OnlySent,
     OneSent, LookedClean, FifoGenuine, TwoAnswered, SecondByte, FirstCopied, TwoCopied,
     StatusGenuine, StatusKept
<1>3. CASE Halt
  BY <1>3 DEF Halt, TypeIInv, RcBase, RcFlags, Counters, Put, Through, history, world,
     locals, Goes, Looked, Prep, Waits, HeardIInv, Genuine, InScope, OnlySent, OneSent,
     LookedClean, FifoGenuine, TwoAnswered, SecondByte, FirstCopied, TwoCopied,
     StatusGenuine, StatusKept
<1>4. CASE CalculateCRC
  BY <1>4 DEF CalculateCRC, TypeIInv, RcBase, RcFlags, Counters, Put, Through, history,
     world, locals, Goes, Looked, Prep, Waits, HeardIInv, Genuine, InScope, OnlySent,
     OneSent, LookedClean, FifoGenuine, TwoAnswered, SecondByte, FirstCopied, TwoCopied,
     StatusGenuine, StatusKept
<1>5. CASE ReadIrq
  BY <1>5 DEF ReadIrq, TypeIInv, RcBase, RcFlags, Counters, Get, FlagsRead, chip, history,
     world, Goes, Looked, Prep, Waits, HeardIInv, Genuine, InScope, OnlySent, OneSent,
     LookedClean, FifoGenuine, TwoAnswered, SecondByte, FirstCopied, TwoCopied,
     StatusGenuine, StatusKept
<1>6. CASE ClearIrq
  BY <1>6 DEF ClearIrq, TypeIInv, RcBase, RcFlags, Counters, Put, Through, history, world,
     Goes, Looked, Prep, Waits, HeardIInv, Genuine, InScope, OnlySent, OneSent, LookedClean,
     FifoGenuine, TwoAnswered, SecondByte, FirstCopied, TwoCopied, StatusGenuine, StatusKept
<1>7. CASE FlushFifo
  <2>1. /\ pc = "flush" /\ pc' = "idle" /\ UNCHANGED <<cmd, i, n, status, id, error, asked, heard, misled>>
    BY <1>7, Zenon DEF FlushFifo, Goes, locals
  <2>2. \A x, y : Genuine(x, y) => Genuine(x, y)'
    BY <2>1 DEF Genuine
  <2>3. CASE Through
    <3>1. fifo' = <<>> /\ (flushed' => flushed \/ cmd # "halt")
      BY <1>7, <2>3, Zenon DEF FlushFifo, Put
    <3>2. OnlySent' /\ OneSent' /\ FifoGenuine'
      BY <2>1, <3>1 DEF OnlySent, OneSent, FifoGenuine
    <3>3. LookedClean' /\ TwoAnswered' /\ SecondByte' /\ FirstCopied' /\ TwoCopied'
      BY <2>1 DEF HeardIInv, LookedClean, TwoAnswered, SecondByte, FirstCopied, TwoCopied,
         Looked, Prep, Waits
    <3>4. StatusGenuine' /\ StatusKept'
      BY <2>1, <2>2, <3>1 DEF HeardIInv, StatusGenuine, StatusKept
    <3> QED
      BY <3>2, <3>3, <3>4 DEF HeardIInv
  <2>4. CASE ~Through
    <3>1. fifo' = fifo /\ flushed' = flushed
      BY <1>7, <2>4, Zenon DEF FlushFifo, Put, TypeIInv, RcFlags
    <3> QED
      BY <2>1, <2>2, <3>1 DEF HeardIInv, OnlySent, OneSent, LookedClean, FifoGenuine,
         InScope, TwoAnswered, SecondByte, FirstCopied, TwoCopied, StatusGenuine,
         StatusKept, Looked, Prep, Waits
  <2> QED
    BY <2>3, <2>4
<1>8. CASE Idle
  BY <1>8 DEF Idle, TypeIInv, RcBase, RcFlags, Counters, Put, Through, history, world, Goes,
     Looked, Prep, Waits, HeardIInv, Genuine, InScope, OnlySent, OneSent, LookedClean,
     FifoGenuine, TwoAnswered, SecondByte, FirstCopied, TwoCopied, StatusGenuine, StatusKept
<1>9. CASE Load
  BY <1>9, FrameIs DEF Load, TypeIInv, RcBase, RcFlags, Counters, Put, Through, history,
     world, Goes, Looked, Prep, Waits, HeardIInv, Genuine, InScope, OnlySent, OneSent,
     LookedClean, FifoGenuine, TwoAnswered, SecondByte, FirstCopied, TwoCopied,
     StatusGenuine, StatusKept
<1>10. CASE Command
  BY <1>10 DEF Command, TypeIInv, RcBase, RcFlags, Counters, Put, Through, history, world,
     locals, Goes, Looked, Prep, Waits, HeardIInv, Genuine, InScope, OnlySent, OneSent,
     LookedClean, FifoGenuine, TwoAnswered, SecondByte, FirstCopied, TwoCopied,
     StatusGenuine, StatusKept
<1>11. CASE ReadBits
  BY <1>11 DEF ReadBits, TypeIInv, RcBase, RcFlags, Counters, Get, FramingRead, chip,
     history, world, Goes, Looked, Prep, Waits, HeardIInv, Genuine, InScope, OnlySent,
     OneSent, LookedClean, FifoGenuine, TwoAnswered, SecondByte, FirstCopied, TwoCopied,
     StatusGenuine, StatusKept
<1>12. CASE Send
  BY <1>12 DEF Send, TypeIInv, RcBase, RcFlags, Counters, Put, Through, history, Goes,
     Looked, Prep, Waits, HeardIInv, Genuine, InScope, OnlySent, OneSent, LookedClean,
     FifoGenuine, TwoAnswered, SecondByte, FirstCopied, TwoCopied, StatusGenuine, StatusKept
<1>13. CASE Poll
  BY <1>13 DEF Poll, TypeIInv, RcBase, RcFlags, Counters, Get, FlagsRead, chip, history,
     world, PollsLeft, Looked, Prep, Waits, HeardIInv, Genuine, InScope, OnlySent, OneSent,
     LookedClean, FifoGenuine, TwoAnswered, SecondByte, FirstCopied, TwoCopied,
     StatusGenuine, StatusKept
<1>14. CASE ReadStop
  BY <1>14 DEF ReadStop, TypeIInv, RcBase, RcFlags, Counters, Get, FramingRead, chip,
     history, world, Goes, Looked, Prep, Waits, HeardIInv, Genuine, InScope, OnlySent,
     OneSent, LookedClean, FifoGenuine, TwoAnswered, SecondByte, FirstCopied, TwoCopied,
     StatusGenuine, StatusKept
<1>15. CASE WriteStop
  BY <1>15 DEF WriteStop, TypeIInv, RcBase, RcFlags, Counters, Put, Through, Return,
     history, world, Looked, Prep, Waits, HeardIInv, Genuine, InScope, OnlySent, OneSent,
     LookedClean, FifoGenuine, TwoAnswered, SecondByte, FirstCopied, TwoCopied,
     StatusGenuine, StatusKept
<1>16. CASE ReadError
  BY <1>16 DEF ReadError, TypeIInv, RcBase, RcFlags, Counters, Get, ErrorRead, Return, chip,
     world, locals, Looked, Prep, Waits, HeardIInv, Genuine, InScope, OnlySent, OneSent,
     LookedClean, FifoGenuine, TwoAnswered, SecondByte, FirstCopied, TwoCopied,
     StatusGenuine, StatusKept
<1>17. CASE ReadLevel
  BY <1>17, PoppedIs DEF ReadLevel, TypeIInv, RcBase, RcFlags, Counters, Get, LevelRead,
     chip, history, world, Goes, Looked, Prep, Waits, HeardIInv, Genuine, InScope, OnlySent,
     OneSent, LookedClean, FifoGenuine, TwoAnswered, SecondByte, FirstCopied, TwoCopied,
     StatusGenuine, StatusKept
<1>18. CASE ReadControl
  BY <1>18 DEF ReadControl, TypeIInv, RcBase, RcFlags, Counters, chip, history, world, Goes,
     Looked, Prep, Waits, HeardIInv, Genuine, InScope, OnlySent, OneSent, LookedClean,
     FifoGenuine, TwoAnswered, SecondByte, FirstCopied, TwoCopied, StatusGenuine, StatusKept
<1>19. CASE Copy
  <2>0. /\ HeadRead \in Byte /\ Popped \in Seq(Byte) /\ Len(Popped) \in Nat /\ Len(fifo) \in Nat
        /\ fifo = <<>> => Popped = <<>> /\ HeadRead \in {Zero, Ones}
        /\ fifo # <<>> =>
             /\ Len(Popped) = Len(fifo) - 1 /\ HeadRead \in {fifo[1], Zero, Ones}
             /\ \A k \in 1..Len(Popped) : Popped[k] = fifo[k + 1]
    BY PoppedIs DEF TypeIInv, RcBase
  <2>1. /\ pc = "copy" /\ i \in 1..Size /\ fifo' \in {fifo, Popped}
    BY <1>19 DEF Copy, Put, TypeIInv, RcBase, Counters
  <2>2. UNCHANGED <<cmd, asked, error, heard, flushed, misled>>
    BY <1>19, Zenon DEF Copy, history
  <2>3. /\ pc' = "copy" => i' = i + 1 /\ n' = n
        /\ pc' # "copy" => pc' = IF cmd = "reqa" /\ n = 2 /\ pc' = "anticoll" THEN "anticoll"
                                 ELSE IF cmd = "halt" THEN "rest" ELSE "halt"
        /\ status' => status \/ (cmd = "anticoll" /\ pc' = "halt")
    <3>1. CASE i = Count
      <4>1. Return("timer" \notin seen)
        BY <1>19, <3>1 DEF Copy
      <4>2. status' => status \/ cmd = "anticoll"
        BY <4>1, Zenon DEF Return
      <4> QED
        BY <4>1, <4>2 DEF Return, TypeIInv, RcBase
    <3>2. CASE i # Count
      <4>1. i' = i + 1 /\ UNCHANGED <<pc, n>>
        BY <1>19, <3>2 DEF Copy
      <4>2. status' = status
        BY <1>19, <3>2, Zenon DEF Copy
      <4> QED
        BY <2>1, <4>1, <4>2
    <3> QED
      BY <3>1, <3>2
  <2>4. /\ cmd = "halt" => id' = id
        /\ cmd # "halt" => id' = [id EXCEPT ![i] = HeadRead]
    BY <1>19, Zenon DEF Copy
  <2>5. cmd # "halt" => ~status
    BY <2>1 DEF HeardIInv, StatusKept
  <2>6. \A x, y : Genuine(x, y) => Genuine(x, y)'
    BY <2>2 DEF Genuine
  <2>7. fifo \in Seq(Byte) /\ i \in Nat /\ id \in [1..5 -> Byte] /\ i \in 1..5
    BY <2>1 DEF TypeIInv, RcBase, Size
  <2>8. Len(fifo') <= Len(fifo) /\ Len(fifo') \in Nat /\ (fifo = <<>> => fifo' = <<>>)
    BY <2>0, <2>1, <2>7
  <2>9. OnlySent' /\ OneSent' /\ LookedClean'
    <3>1. OnlySent'
      BY <2>0, <2>1, <2>2, <2>7 DEF HeardIInv, OnlySent
    <3>2. OneSent'
      BY <2>1, <2>2, <2>3, <2>7, <2>8 DEF HeardIInv, OneSent
    <3>3. LookedClean'
      BY <2>1, <2>2 DEF HeardIInv, LookedClean, Looked
    <3> QED
      BY <3>1, <3>2, <3>3
  <2>10. FifoGenuine' /\ TwoAnswered'
    <3>1. TwoAnswered'
      BY <2>1, <2>2, <2>3, <2>7, <2>8 DEF HeardIInv, TwoAnswered
    <3>2. FifoGenuine'
      <4> SUFFICES ASSUME InScope', flushed, ~misled, ~error, Len(fifo') >= 2
                   PROVE  Genuine(fifo[1], fifo[2])'
        BY <2>2 DEF FifoGenuine
      <4>1. cmd = "reqa" /\ n = 2
        BY <2>1, <2>2, <2>3, <2>7 DEF InScope, Prep, Waits
      <4>2. Len(fifo) <= 2 /\ Genuine(fifo[1], fifo[2])
        BY <2>1, <2>7, <2>8, <4>1 DEF HeardIInv, TwoAnswered, FifoGenuine, InScope
      <4>3. fifo' = fifo
        BY <2>0, <2>1, <2>7, <4>2
      <4> QED
        BY <2>6, <4>2, <4>3
    <3> QED
      BY <3>1, <3>2
  <2>11. cmd = "anticoll" /\ flushed /\ ~misled => Genuine(id[1], id[2])'
    <3> SUFFICES ASSUME cmd = "anticoll", flushed, ~misled
                 PROVE  Genuine(id[1], id[2])'
      OBVIOUS
    <3>0. CASE i = 1
      <4>1. id'[2] = NVB
        BY <2>1, <2>4, <2>7, <3>0 DEF HeardIInv, SecondByte
      <4> QED
        BY <4>1 DEF Genuine, Protocol
    <3>1. CASE i = 2
      <4>1. id'[1] = id[1] /\ id'[2] = HeadRead
        BY <2>4, <2>7, <3>1
      <4>2. fifo # <<>> => Genuine(id[1], fifo[1])
        BY <2>1, <3>1 DEF HeardIInv, FirstCopied
      <4>3. HeadRead \in {Zero, Ones} => Genuine(id[1], id[2])'
        BY <4>1 DEF Genuine, Protocol
      <4> QED
        BY <2>0, <2>6, <4>1, <4>2, <4>3
    <3>2. CASE i > 2
      <4>1. id'[1] = id[1] /\ id'[2] = id[2]
        BY <2>4, <2>7, <3>2
      <4> QED
        BY <2>1, <2>6, <3>2, <4>1 DEF HeardIInv, TwoCopied
    <3> QED
      BY <2>7, <3>0, <3>1, <3>2
  <2>12. SecondByte' /\ FirstCopied' /\ TwoCopied'
    <3> SUFFICES ASSUME cmd = "anticoll"
                 PROVE  SecondByte' /\ FirstCopied' /\ TwoCopied'
      BY <2>2 DEF SecondByte, FirstCopied, TwoCopied
    <3> SUFFICES ASSUME pc' = "copy"
                 PROVE  SecondByte' /\ FirstCopied' /\ TwoCopied'
      BY <2>3 DEF SecondByte, FirstCopied, TwoCopied, Prep, Waits
    <3>1. i' = i + 1 /\ id' = [id EXCEPT ![i] = HeadRead]
      BY <2>3, <2>4
    <3>2. SecondByte'
      BY <2>1, <2>2, <2>7, <3>1 DEF HeardIInv, SecondByte
    <3>3. FirstCopied'
      <4> SUFFICES ASSUME i = 1, flushed, ~misled
                   PROVE  /\ fifo' # <<>> => Genuine(id[1], fifo[1])'
                          /\ asked # "none" => id'[1] \in Protocol
        BY <2>2, <2>7, <3>1 DEF FirstCopied
      <4>1. id'[1] = HeadRead
        BY <2>7, <3>1
      <4>2. HeadRead \in {Zero, Ones} => Genuine(id[1], fifo[1])' /\ id'[1] \in Protocol
        BY <4>1 DEF Genuine, Protocol
      <4>3. CASE HeadRead = fifo[1] /\ HeadRead \notin {Zero, Ones}
        <5>0. wire \in {"ok", "reset"}
          BY <4>3 DEF HeadRead, Get, TypeIInv, RcBase
        <5>1. fifo # <<>> /\ fifo' = Popped /\ ~error
          <6>1. fifo' = Popped
            BY <1>19, <5>0 DEF Copy, Put, Through
          <6>2. ~error
            BY <2>1 DEF HeardIInv, LookedClean, Looked
          <6> QED
            BY <2>0, <4>3, <6>1, <6>2
        <5>2. Len(fifo) >= 2 => Genuine(fifo[1], fifo[2])
          BY <2>1, <5>1 DEF HeardIInv, FifoGenuine, InScope
        <5>3. asked # "none" => fifo[1] \in Protocol
          BY <2>0, <5>1 DEF HeardIInv, OnlySent
        <5>4. fifo' # <<>> => Len(fifo) >= 2 /\ fifo'[1] = fifo[2]
          BY <2>0, <2>7, <5>1
        <5> QED
          BY <2>6, <4>1, <4>3, <5>2, <5>3, <5>4
      <4> QED
        BY <2>0, <4>2, <4>3
    <3>4. TwoCopied'
      BY <2>2, <2>7, <2>11, <3>1 DEF TwoCopied
    <3> QED
      BY <3>2, <3>3, <3>4
  <2>13. StatusKept' /\ StatusGenuine'
    <3>1. StatusKept'
      BY <2>2, <2>3, <2>5 DEF StatusKept
    <3>2. StatusGenuine'
      <4> SUFFICES ASSUME status', flushed, ~misled
                   PROVE  Genuine(id[1], id[2])'
        BY <2>2 DEF StatusGenuine
      <4>1. CASE cmd = "anticoll"
        BY <2>11, <4>1
      <4>2. CASE cmd # "anticoll"
        <5>1. status /\ cmd = "halt"
          BY <2>3, <2>5, <4>2
        <5> QED
          BY <2>4, <2>6, <5>1 DEF HeardIInv, StatusGenuine
      <4> QED
        BY <4>1, <4>2
    <3> QED
      BY <3>1, <3>2
  <2> QED
    BY <2>9, <2>10, <2>12, <2>13 DEF HeardIInv
<1>20. CASE Spill
  BY <1>20 DEF Spill, TypeIInv, RcBase, RcFlags, Counters, chip, history, world, locals,
     Size, Looked, Prep, Waits, HeardIInv, Genuine, InScope, OnlySent, OneSent, LookedClean,
     FifoGenuine, TwoAnswered, SecondByte, FirstCopied, TwoCopied, StatusGenuine, StatusKept
<1>21. CASE RequestAnswered
  <2>1. asked # "none" /\ fifo' = fifo \o Atqa /\ asked' = "none" /\ heard' = heard
    BY <1>21 DEF RequestAnswered, Hears, Received, history
  <2>2. UNCHANGED <<pc, cmd, i, n, status, id, error, flushed, misled>>
    BY <1>21, Zenon DEF RequestAnswered, driver, locals, history
  <2>3. Genuine(Atqa[1], Atqa[2])'
    BY DEF Genuine, Protocol
  <2> QED
    BY <2>1, <2>2, <2>3, BytesAre, ReceivedKeepsHeard
<1>22. CASE TimerRunsOut
  BY <1>22 DEF TimerRunsOut, TypeIInv, RcBase, RcFlags, Counters, history, driver, locals,
     Fault, Looked, Prep, Waits, HeardIInv, Genuine, InScope, OnlySent, OneSent,
     LookedClean, FifoGenuine, TwoAnswered, SecondByte, FirstCopied, TwoCopied,
     StatusGenuine, StatusKept
<1>23. CASE WireChanges
  BY <1>23 DEF WireChanges, TypeIInv, RcBase, RcFlags, Counters, chip, driver, locals,
     Fault, Looked, Prep, Waits, HeardIInv, Genuine, InScope, OnlySent, OneSent,
     LookedClean, FifoGenuine, TwoAnswered, SecondByte, FirstCopied, TwoCopied,
     StatusGenuine, StatusKept
<1>24. ASSUME NEW junk \in Junk, AnswerDisturbed(junk) PROVE HeardIInv'
  BY <1>24 DEF AnswerDisturbed, TypeIInv, RcBase, RcFlags, Counters, driver, locals,
     Received, Hears, Fault, Looked, Prep, Waits, HeardIInv, Genuine, InScope, OnlySent,
     OneSent, LookedClean, FifoGenuine, TwoAnswered, SecondByte, FirstCopied, TwoCopied,
     StatusGenuine, StatusKept
<1>25. ASSUME NEW t \in Tags, IdAnswered(t) PROVE HeardIInv'
  <2> DEFINE s == IdBytes(t, 5)
  <2>0. s \in Seq(Byte) /\ Len(s) = 5
    BY <1>25, IdBytesAre
  <2>1. asked # "none" /\ fifo' = fifo \o s /\ asked' = "none" /\ heard' = heard \cup {s}
    BY <1>25 DEF IdAnswered, Hears, Received
  <2>2. UNCHANGED <<pc, cmd, i, n, status, id, error, flushed, misled>>
    BY <1>25, Zenon DEF IdAnswered, driver, locals
  <2> HIDE DEF s
  <2>3. Genuine(s[1], s[2])'
    BY <2>0, <2>1 DEF Genuine
  <2> QED
    BY <2>0, <2>1, <2>2, <2>3, ReceivedKeepsHeard
<1>26. ASSUME NEW t \in Tags, TagLeaves(t) PROVE HeardIInv'
  BY <1>26 DEF TagLeaves, TypeIInv, RcBase, RcFlags, Counters, chip, history, driver,
     locals, Looked, Prep, Waits, HeardIInv, Genuine, InScope, OnlySent, OneSent,
     LookedClean, FifoGenuine, TwoAnswered, SecondByte, FirstCopied, TwoCopied,
     StatusGenuine, StatusKept
<1>27. ASSUME NEW t \in Tags, TagComes(t) PROVE HeardIInv'
  BY <1>27 DEF TagComes, TypeIInv, RcBase, RcFlags, Counters, chip, history, driver, locals,
     Looked, Prep, Waits, HeardIInv, Genuine, InScope, OnlySent, OneSent, LookedClean,
     FifoGenuine, TwoAnswered, SecondByte, FirstCopied, TwoCopied, StatusGenuine, StatusKept
<1>28. ASSUME NEW t \in Tags, NEW m \in 1..4, AnswerCutShort(t, m) PROVE HeardIInv'
  <2>1. UNCHANGED <<pc, cmd, i, n, status, id, error, flushed, misled>>
    BY <1>28, Zenon DEF AnswerCutShort, driver, locals
  <2>2. asked # "none" /\ asked' = "none"
    BY <1>28 DEF AnswerCutShort, Hears, Received
  <2>3. CASE fifo' = fifo \o <<Atqa[1]>> /\ heard' = heard
    <3>1. ~(Len(<<Atqa[1]>>) >= 2)
      BY BytesAre
    <3> QED
      BY <2>1, <2>2, <2>3, <3>1, BytesAre, ReceivedKeepsHeard
  <2>4. CASE fifo' = fifo \o IdBytes(t, m) /\ heard' = heard \cup {IdBytes(t, m)}
    <3> DEFINE s == IdBytes(t, m)
    <3>0. m \in 1..5
      BY <1>28
    <3>1. s \in Seq(Byte)
      BY <1>28, <3>0, IdBytesAre
    <3>2. fifo' = fifo \o s /\ heard' = heard \cup {s}
      BY <2>4
    <3> HIDE DEF s
    <3>3. Len(s) >= 2 => Genuine(s[1], s[2])'
      BY <3>2 DEF Genuine
    <3> QED
      BY <2>1, <2>2, <3>1, <3>2, <3>3, ReceivedKeepsHeard
  <2> QED
    BY <1>28, <2>3, <2>4 DEF AnswerCutShort, Received
<1> QED
  BY <1>1, <1>2, <1>3, <1>4, <1>5, <1>6, <1>7, <1>8, <1>9, <1>10, <1>11, <1>12, <1>13,
     <1>14, <1>15, <1>16, <1>17, <1>18, <1>19, <1>20, <1>21, <1>22, <1>23, <1>24, <1>25,
     <1>26, <1>27, <1>28 DEF Next, DriverNext, Prepares, Fetches

-----------------------------------------------------------------------------
(* Arithmetic of LongerFrame.                                                *)
LEMMA NotShort == ASSUME NEW l \in Nat, l >= 4 PROVE l # 1 /\ l # 2
  OBVIOUS
(* A FIFO with HLTA in it is understood as nothing else.                     *)
LEMMA LongerFrame ==
  ASSUME NEW s \in Seq(Byte), Len(s) >= 4
  PROVE  s # <<REQIDL>> /\ s # <<ANTICOLL, NVB>>
<1>1. Len(<<REQIDL>>) = 1 /\ Len(<<ANTICOLL, NVB>>) = 2
  OBVIOUS
<1>2. Len(s) \in Nat
  BY LenProperties
<1>3. Len(s) # 1 /\ Len(s) # 2
  BY <1>2, NotShort
<1> QED
  BY <1>1, <1>3, Zenon
(* The frame depends on the command alone.                                   *)
LEMMA FrameKept == cmd' = cmd => Frame' = Frame
  BY DEF Frame

(* After its command has gone out, an answer finds an empty FIFO.            *)
LEMMA ReceivedKeepsSteady ==
  ASSUME TypeIInv, SteadyIInv, asked # "none",
         NEW s \in Seq(Byte), Len(s) <= 5, fifo' = fifo \o s,
         UNCHANGED <<pc, cmd, i, n, active, steady>>
  PROVE  SteadyFramed' /\ SteadyShort' /\ (steady /\ pc \in After => fifo' = s)
<1>1. fifo \in Seq(Byte) /\ cmd \in {"reqa", "anticoll", "halt"} /\ asked \in {"reqa", "anticoll", "none"}
  BY DEF TypeIInv, RcBase
<1>2. Len(fifo') >= Len(fifo) /\ (fifo = <<>> => fifo' = s)
  BY <1>1, ConcatIs
<1>3. steady /\ pc \in After => fifo = <<>>
  BY <1>1 DEF SteadyIInv, SteadyRequest, SteadyAntiColl, SteadyHalt
<1>4. SteadyFramed'
  <2> SUFFICES ASSUME steady PROVE Framed'
    BY DEF SteadyFramed
  <2>1. Framed /\ Len(fifo) \in Nat /\ Len(fifo') \in Nat /\ Frame' = Frame /\ Len(Frame) \in 1..4
    BY <1>1, ConcatIs, FrameIs, FrameKept DEF SteadyIInv, SteadyFramed
  <2>2. i \in Nat
    BY DEF TypeIInv, RcBase
  <2> QED
    BY <1>2, <2>1, <2>2 DEF Framed
<1>5. SteadyShort'
  <2> SUFFICES ASSUME steady PROVE Short'
    BY DEF SteadyShort
  <2>1. Short
    BY DEF SteadyIInv, SteadyShort
  <2> QED
    BY <1>2, <1>3, <2>1 DEF Short, Count, After
<1> QED
  BY <1>2, <1>3, <1>4, <1>5

(* Every step of a check during which the wires hold keeps its order.        *)
LEMMA SteadyKept ==
  ASSUME TypeIInv, TypeIInv', StatusKept, SteadyIInv, Next
  PROVE SteadyIInv'
<1>1. CASE Request
  BY <1>1 DEF Request, TypeIInv, RcBase, RcFlags, Counters, Put, Through, world, locals,
     Goes, Count, MFRC522_MAX_LEN, Prep, After, StatusKept, SteadyIInv, WireHolds,
     SteadyFramed, Framed, SteadyShort, Short, SteadyRequest, SteadyAntiColl, SteadyHalt,
     SteadyAnswer, CopiedFrom, SteadyStatus, Waits
<1>2. CASE AntiColl
  BY <1>2 DEF AntiColl, TypeIInv, RcBase, RcFlags, Counters, Put, Through, history, world,
     locals, Goes, Count, MFRC522_MAX_LEN, AntiCollBits, Prep, After, StatusKept,
     SteadyIInv, WireHolds, SteadyFramed, Framed, SteadyShort, Short, SteadyRequest,
     SteadyAntiColl, SteadyHalt, SteadyAnswer, CopiedFrom, SteadyStatus, Waits
<1>3. CASE Halt
  BY <1>3 DEF Halt, TypeIInv, RcBase, RcFlags, Counters, Put, Through, history, world,
     locals, Goes, Count, MFRC522_MAX_LEN, Prep, After, StatusKept, SteadyIInv, WireHolds,
     SteadyFramed, Framed, SteadyShort, Short, SteadyRequest, SteadyAntiColl, SteadyHalt,
     SteadyAnswer, CopiedFrom, SteadyStatus, Waits
<1>4. CASE CalculateCRC
  BY <1>4 DEF CalculateCRC, TypeIInv, RcBase, RcFlags, Counters, Put, Through, history,
     world, locals, Goes, Count, MFRC522_MAX_LEN, Prep, After, StatusKept, SteadyIInv,
     WireHolds, SteadyFramed, Framed, SteadyShort, Short, SteadyRequest, SteadyAntiColl,
     SteadyHalt, SteadyAnswer, CopiedFrom, SteadyStatus, Waits
<1>5. CASE ReadIrq
  BY <1>5 DEF ReadIrq, TypeIInv, RcBase, RcFlags, Counters, Get, FlagsRead, chip, history,
     world, Goes, Count, MFRC522_MAX_LEN, Prep, After, StatusKept, SteadyIInv, WireHolds,
     SteadyFramed, Framed, SteadyShort, Short, SteadyRequest, SteadyAntiColl, SteadyHalt,
     SteadyAnswer, CopiedFrom, SteadyStatus, Waits
<1>6. CASE ClearIrq
  BY <1>6 DEF ClearIrq, TypeIInv, RcBase, RcFlags, Counters, Put, Through, history, world,
     Goes, Count, MFRC522_MAX_LEN, Prep, After, StatusKept, SteadyIInv, WireHolds,
     SteadyFramed, Framed, SteadyShort, Short, SteadyRequest, SteadyAntiColl, SteadyHalt,
     SteadyAnswer, CopiedFrom, SteadyStatus, Waits
<1>7. CASE FlushFifo
  BY <1>7 DEF FlushFifo, TypeIInv, RcBase, RcFlags, Counters, Put, Through, world, locals,
     Goes, Count, MFRC522_MAX_LEN, Prep, After, StatusKept, SteadyIInv, WireHolds,
     SteadyFramed, Framed, SteadyShort, Short, SteadyRequest, SteadyAntiColl, SteadyHalt,
     SteadyAnswer, CopiedFrom, SteadyStatus, Waits
<1>8. CASE Idle
  BY <1>8 DEF Idle, TypeIInv, RcBase, RcFlags, Counters, Put, Through, history, world, Goes,
     Count, MFRC522_MAX_LEN, Prep, After, StatusKept, SteadyIInv, WireHolds, SteadyFramed,
     Framed, SteadyShort, Short, SteadyRequest, SteadyAntiColl, SteadyHalt, SteadyAnswer,
     CopiedFrom, SteadyStatus, Waits
<1>9. CASE Load
  <2>2. SteadyFramed'
    <3> SUFFICES ASSUME steady PROVE Framed'
      BY <1>9 DEF Load, history, SteadyFramed
    <3>1. wire = "ok" /\ Framed /\ fifo \in Seq(Byte) /\ i \in 1..Len(Frame) /\ Len(Frame) \in 1..4 /\ Frame' = Frame /\ Frame \in Seq(Byte)
      BY <1>9, FrameIs, FrameKept DEF SteadyIInv, WireHolds, SteadyFramed, Load, Goes,
         TypeIInv, RcBase, Counters
    <3>2. fifo' = Append(fifo, Frame[i]) /\ Frame[i] \in Byte
      BY <1>9, <3>1 DEF Load, Put, Through
    <3>3. Len(fifo') = Len(fifo) + 1 /\ Len(fifo) \in Nat
      BY <3>1, <3>2
    <3>4. pc = "load" /\ i' = i + 1 /\ pc' = IF i = Len(Frame) THEN "command" ELSE "load"
      BY <1>9 DEF Load, Goes
    <3> QED
      BY <3>1, <3>3, <3>4 DEF Framed
  <2>1. WireHolds' /\ SteadyShort' /\ SteadyRequest' /\ SteadyAntiColl' /\ SteadyHalt' /\ SteadyAnswer' /\ SteadyStatus'
    BY <1>9 DEF Load, TypeIInv, RcBase, RcFlags, Counters, Put, Through, history, world,
       Goes, Count, MFRC522_MAX_LEN, Prep, After, StatusKept, SteadyIInv, WireHolds,
       SteadyFramed, Framed, SteadyShort, Short, SteadyRequest, SteadyAntiColl, SteadyHalt,
       SteadyAnswer, CopiedFrom, SteadyStatus, Waits
  <2> QED
    BY <2>1, <2>2 DEF SteadyIInv
<1>10. CASE Command
  <2>2. SteadyFramed'
    <3> SUFFICES ASSUME steady PROVE Framed'
      BY <1>10 DEF Command, history, SteadyFramed
    <3>1. wire = "ok" /\ Framed /\ Frame' = Frame
      BY <1>10, FrameKept DEF SteadyIInv, WireHolds, SteadyFramed, Command
    <3>2. pc = "command" /\ pc' \in {"bits_read", "send"} /\ fifo' = fifo
      BY <1>10 DEF Command, Goes, chip
    <3>3. active'
      BY <1>10, <3>1, <3>2 DEF Command, Put, Through, chip, Framed
    <3> QED
      BY <3>1, <3>2, <3>3 DEF Framed
  <2>1. WireHolds' /\ SteadyShort' /\ SteadyRequest' /\ SteadyAntiColl' /\ SteadyHalt' /\ SteadyAnswer' /\ SteadyStatus'
    BY <1>10 DEF Command, TypeIInv, RcBase, RcFlags, Counters, Put, Through, history, world,
       locals, Goes, Count, MFRC522_MAX_LEN, Prep, After, StatusKept, SteadyIInv, WireHolds,
       SteadyFramed, Framed, SteadyShort, Short, SteadyRequest, SteadyAntiColl, SteadyHalt,
       SteadyAnswer, CopiedFrom, SteadyStatus, Waits
  <2> QED
    BY <2>1, <2>2 DEF SteadyIInv
<1>11. CASE ReadBits
  <2>2. SteadyFramed'
    <3> SUFFICES ASSUME steady PROVE Framed'
      BY <1>11 DEF ReadBits, history, SteadyFramed
    <3>1. wire = "ok" /\ Framed /\ Frame' = Frame
      BY <1>11, FrameKept DEF SteadyIInv, WireHolds, SteadyFramed, ReadBits
    <3>2. pc = "bits_read" /\ pc' \in {"bits_read", "send"} /\ fifo' = fifo
      BY <1>11 DEF ReadBits, Goes, chip
    <3>3. active'
      BY <1>11, <3>1, <3>2 DEF ReadBits, Put, Through, chip, Framed
    <3> QED
      BY <3>1, <3>2, <3>3 DEF Framed
  <2>1. WireHolds' /\ SteadyShort' /\ SteadyRequest' /\ SteadyAntiColl' /\ SteadyHalt' /\ SteadyAnswer' /\ SteadyStatus'
    BY <1>11 DEF ReadBits, TypeIInv, RcBase, RcFlags, Counters, Get, FramingRead, chip,
       history, world, Goes, Count, MFRC522_MAX_LEN, Prep, After, StatusKept, SteadyIInv,
       WireHolds, SteadyFramed, Framed, SteadyShort, Short, SteadyRequest, SteadyAntiColl,
       SteadyHalt, SteadyAnswer, CopiedFrom, SteadyStatus, Waits
  <2> QED
    BY <2>1, <2>2 DEF SteadyIInv
<1>12. CASE Send
  <2> DEFINE sent == steady => /\ fifo' = <<>> /\ ~error' /\ asked' = Understood
                              /\ framing' = bits /\ bits \in {0, 7, 119} /\ fifo \in Seq(Byte) /\ Framed /\ irq' = irq
  <2>0. sent /\ pc = "send" /\ pc' = "poll" /\ cmd' = cmd /\ steady' = steady
    <3>1. pc = "send" /\ pc' = "poll" /\ cmd' = cmd
      BY <1>12 DEF Send, Goes
    <3>2. steady' = steady
      BY <1>12, Zenon DEF Send, history
    <3>3. ASSUME steady PROVE wire = "ok" /\ active /\ Framed
      BY <3>1, <3>3 DEF SteadyIInv, WireHolds, SteadyFramed, Framed
    <3>4. ASSUME steady PROVE fifo' = <<>> /\ ~error' /\ asked' = Understood /\ framing' = bits
      BY <1>12, <3>3, <3>4 DEF Send, Put, Through
    <3> QED
      BY <1>12, <3>1, <3>2, <3>3, <3>4 DEF Send, TypeIInv, RcBase
  <2> HIDE DEF sent
  <2>4. SteadyRequest'
    <3> SUFFICES ASSUME steady, cmd = "reqa"
                 PROVE  framing' = 7 /\ asked' \in {"reqa", "none"} /\ fifo' = <<>>
      BY <2>0 DEF SteadyRequest, After
    <3>1. bits = 7
      BY <2>0 DEF SteadyIInv, SteadyRequest
    <3> QED
      BY <2>0, <3>1 DEF sent, Understood
  <2>5. SteadyAntiColl'
    <3> SUFFICES ASSUME steady, cmd = "anticoll"
                 PROVE  framing' = 0 /\ asked' # "reqa" /\ fifo' = <<>> /\ "rx" \notin irq' /\ ~error'
      BY <2>0 DEF SteadyAntiColl, Prep
    <3>1. bits = 0 /\ irq = {}
      BY <2>0 DEF SteadyIInv, SteadyAntiColl, Prep
    <3> QED
      BY <2>0, <3>1 DEF sent, Understood
  <2>6. SteadyHalt'
    <3> SUFFICES ASSUME steady, cmd = "halt"
                 PROVE  asked' = "none" /\ fifo' = <<>>
      BY <2>0 DEF SteadyHalt
    <3>1. Len(fifo) >= 4
      BY <2>0, FrameIs DEF sent, Framed
    <3>2. fifo # <<REQIDL>> /\ fifo # <<ANTICOLL, NVB>>
      BY <3>1, LongerFrame DEF TypeIInv, RcBase
    <3> QED
      BY <2>0, <3>2 DEF sent, Understood
  <2>1. WireHolds' /\ SteadyFramed' /\ SteadyShort' /\ SteadyAnswer' /\ SteadyStatus'
    BY <1>12 DEF Send, TypeIInv, RcBase, RcFlags, Counters, Put, Through, history, Goes,
       Count, MFRC522_MAX_LEN, Prep, After, StatusKept, SteadyIInv, WireHolds, SteadyFramed,
       Framed, SteadyShort, Short, SteadyRequest, SteadyAntiColl, SteadyHalt, SteadyAnswer,
       CopiedFrom, SteadyStatus, Waits
  <2> QED
    BY <2>1, <2>4, <2>5, <2>6 DEF SteadyIInv
<1>13. CASE Poll
  BY <1>13 DEF Poll, TypeIInv, RcBase, RcFlags, Counters, Get, FlagsRead, chip, history,
     world, Count, MFRC522_MAX_LEN, PollsLeft, Prep, After, StatusKept, SteadyIInv,
     WireHolds, SteadyFramed, Framed, SteadyShort, Short, SteadyRequest, SteadyAntiColl,
     SteadyHalt, SteadyAnswer, CopiedFrom, SteadyStatus, Waits
<1>14. CASE ReadStop
  BY <1>14 DEF ReadStop, TypeIInv, RcBase, RcFlags, Counters, Get, FramingRead, chip,
     history, world, Goes, Count, MFRC522_MAX_LEN, Prep, After, StatusKept, SteadyIInv,
     WireHolds, SteadyFramed, Framed, SteadyShort, Short, SteadyRequest, SteadyAntiColl,
     SteadyHalt, SteadyAnswer, CopiedFrom, SteadyStatus, Waits
<1>15. CASE WriteStop
  BY <1>15 DEF WriteStop, TypeIInv, RcBase, RcFlags, Counters, Put, Through, Return,
     history, world, Count, MFRC522_MAX_LEN, Prep, After, StatusKept, SteadyIInv, WireHolds,
     SteadyFramed, Framed, SteadyShort, Short, SteadyRequest, SteadyAntiColl, SteadyHalt,
     SteadyAnswer, CopiedFrom, SteadyStatus, Waits
<1>16. CASE ReadError
  BY <1>16 DEF ReadError, TypeIInv, RcBase, RcFlags, Counters, Get, ErrorRead, Return, chip,
     world, locals, Count, MFRC522_MAX_LEN, Prep, After, StatusKept, SteadyIInv, WireHolds,
     SteadyFramed, Framed, SteadyShort, Short, SteadyRequest, SteadyAntiColl, SteadyHalt,
     SteadyAnswer, CopiedFrom, SteadyStatus, Waits
<1>17. CASE ReadLevel
  BY <1>17 DEF ReadLevel, TypeIInv, RcBase, RcFlags, Counters, Get, LevelRead, chip,
     history, world, Goes, Count, MFRC522_MAX_LEN, Prep, After, StatusKept, SteadyIInv,
     WireHolds, SteadyFramed, Framed, SteadyShort, Short, SteadyRequest, SteadyAntiColl,
     SteadyHalt, SteadyAnswer, CopiedFrom, SteadyStatus, Waits
<1>18. CASE ReadControl
  BY <1>18 DEF ReadControl, TypeIInv, RcBase, RcFlags, Counters, chip, history, world, Goes,
     Count, MFRC522_MAX_LEN, Prep, After, StatusKept, SteadyIInv, WireHolds, SteadyFramed,
     Framed, SteadyShort, Short, SteadyRequest, SteadyAntiColl, SteadyHalt, SteadyAnswer,
     CopiedFrom, SteadyStatus, Waits
<1>19. CASE Copy
  <2>0. /\ pc = "copy" /\ i \in 1..Size /\ fifo \in Seq(Byte) /\ id \in [1..5 -> Byte]
        /\ UNCHANGED <<cmd, asked, heard>> /\ steady' = steady
    <3>1. steady' = steady
      BY <1>19, Zenon DEF Copy, history
    <3> QED
      BY <1>19, <3>1 DEF Copy, history, TypeIInv, RcBase, Counters
  <2>10. i = Count => Return("timer" \notin seen)
    BY <1>19 DEF Copy
  <2>11. i # Count => i' = i + 1 /\ UNCHANGED <<pc, seen, n>>
    BY <1>19 DEF Copy
  <2>12. ASSUME steady, cmd = "anticoll", "rx" \in seen
         PROVE  \E a \in heard : /\ n = Len(a) /\ Count = n /\ asked = "none" /\ a \in Seq(Byte) /\ Len(fifo') = n - i
                                 /\ \A k \in 1..Len(fifo') : fifo'[k] = a[k + i]
                                 /\ \A k \in 1..i : id'[k] = a[k]
    <3>1. PICK a \in heard : CopiedFrom(a)
      BY <2>0, <2>12 DEF SteadyIInv, SteadyAnswer
    <3>0. a \in Seq(Byte) /\ Len(a) \in 1..5 /\ n = Len(a)
      BY <3>1 DEF TypeIInv, RcBase, CopiedFrom
    <3>10. asked = "none" /\ wire = "ok" /\ i <= Count
      BY <2>0, <2>12 DEF SteadyIInv, SteadyShort, Short, SteadyAnswer, WireHolds
    <3>2. a \in Seq(Byte) /\ Len(a) \in 1..5 /\ n = Len(a) /\ Count = n /\ i <= n /\ asked = "none" /\ wire = "ok" /\ i \in 1..5
      BY <2>0, <2>12, <3>0, <3>10 DEF Count, MFRC522_MAX_LEN, Size
    <3>3. fifo # <<>> /\ Len(fifo) = n - i + 1 /\ fifo[1] = a[i]
      BY <2>0, <3>1, <3>2 DEF CopiedFrom
    <3>4. fifo' = Tail(fifo) /\ id' = [id EXCEPT ![i] = fifo[1]]
      <4>1. HeadRead = fifo[1] /\ Popped = Tail(fifo)
        BY <2>0, <3>2, <3>3 DEF Popped, HeadRead, Get
      <4> QED
        BY <1>19, <2>12, <3>2, <4>1 DEF Copy, Put, Through
    <3>5. Len(fifo') = n - i /\ \A k \in 1..Len(fifo') : fifo'[k] = fifo[k + 1]
      BY <2>0, <3>2, <3>3, <3>4
    <3>6. \A k \in 1..Len(fifo') : fifo'[k] = a[k + i]
      <4> SUFFICES ASSUME NEW k \in 1..Len(fifo') PROVE fifo'[k] = a[k + i]
        OBVIOUS
      <4>1. k + 1 \in 1..Len(fifo) /\ k + 1 + i - 1 = k + i
        BY <2>0, <3>2, <3>3, <3>5
      <4>2. fifo[k + 1] = a[k + 1 + i - 1]
        BY <3>1, <4>1 DEF CopiedFrom
      <4> QED
        BY <3>5, <4>1, <4>2
    <3>7. \A k \in 1..i : id'[k] = a[k]
      BY <2>0, <3>1, <3>2, <3>3, <3>4 DEF CopiedFrom
    <3> QED
      BY <3>2, <3>5, <3>6, <3>7
  <2>7. SteadyAnswer'
    <3> SUFFICES ASSUME steady, cmd = "anticoll" PROVE SteadyAnswer'
      BY <2>0 DEF SteadyAnswer
    <3>1. CASE i = Count
      <4>1. pc' = "halt"
        BY <2>10, <3>1 DEF Return
      <4> QED
        BY <4>1 DEF SteadyAnswer
    <3>2. CASE i # Count
      <4>1. pc' = "copy" /\ seen' = seen /\ i' = i + 1 /\ n' = n /\ seen # {}
        BY <2>0, <2>11, <3>2 DEF SteadyIInv, SteadyAnswer
      <4> SUFFICES ASSUME "rx" \in seen PROVE asked = "none" /\ (\E a \in heard : CopiedFrom(a))'
        BY <2>0, <4>1 DEF SteadyAnswer
      <4>2. PICK a \in heard : /\ n = Len(a) /\ asked = "none" /\ Len(fifo') = n - i
                               /\ \A k \in 1..Len(fifo') : fifo'[k] = a[k + i]
                               /\ \A k \in 1..i : id'[k] = a[k]
        BY <2>12
      <4>3. i \in Nat /\ n \in Nat /\ Len(fifo') \in Nat
        BY DEF TypeIInv, RcBase
      <4>4. CopiedFrom(a)'
        <5>1. n' = Len(a) /\ Len(fifo') = n' - i' + 1 /\ i' - 1 = i
          BY <4>1, <4>2, <4>3
        <5>2. \A k \in 1..Len(fifo') : fifo'[k] = a[k + i' - 1]
          <6> SUFFICES ASSUME NEW k \in 1..Len(fifo') PROVE fifo'[k] = a[k + i' - 1]
            OBVIOUS
          <6>1. k + i' - 1 = k + i
            BY <4>1, <4>3
          <6> QED
            BY <4>2, <6>1
        <5> QED
          <6>1. \A k \in 1..(i' - 1) : id'[k] = a[k]
            <7>1. \A k \in 1..i : id'[k] = a[k]
              BY <4>2, Zenon
            <7>2. 1..(i' - 1) = 1..i
              BY <5>1
            <7> QED
              BY <7>1, <7>2, Zenon
          <6> QED
            BY <5>1, <5>2, <6>1, Zenon DEF CopiedFrom
      <4> QED
        BY <2>0, <4>2, <4>4
    <3> QED
      BY <3>1, <3>2
  <2>8. SteadyStatus'
    <3> SUFFICES ASSUME steady, status'
                 PROVE  (BccOK(id) /\ \E a \in heard : \A k \in DOMAIN a : id[k] = a[k])'
      BY <2>0 DEF SteadyStatus
    <3>1. CASE cmd = "anticoll" /\ i = Count
      <4>1. BccOK(id') /\ "timer" \notin seen
        BY <2>10, <3>1, Zenon DEF Return, Accepted
      <4>2. "rx" \in seen
        <5>1. seen # {} /\ seen \subseteq {"rx", "timer"}
          BY <2>0, <3>1 DEF SteadyIInv, SteadyAnswer, TypeIInv, RcBase
        <5> QED
          BY <4>1, <5>1
      <4>3. PICK a \in heard : /\ n = Len(a) /\ Count = n /\ asked = "none" /\ a \in Seq(Byte) /\ Len(fifo') = n - i
                               /\ \A k \in 1..Len(fifo') : fifo'[k] = a[k + i]
                               /\ \A k \in 1..i : id'[k] = a[k]
        BY <2>12, <3>1, <4>2, Zenon
      <4>4. \A k \in DOMAIN a : id'[k] = a[k]
        <5>1. i = Len(a)
          BY <3>1, <4>3
        <5>2. DOMAIN a = 1..i
          BY <4>3, <5>1
        <5> QED
          <6>1. \A k \in 1..i : id'[k] = a[k]
            BY <4>3, Zenon
          <6> QED
            BY <5>2, <6>1, Zenon
      <4> QED
        BY <2>0, <4>1, <4>3, <4>4 DEF BccOK
    <3>2. CASE ~(cmd = "anticoll" /\ i = Count)
      <4>1. status' = status
        <5>1. CASE i = Count
          BY <2>10, <3>2, <5>1, Zenon DEF Return
        <5>2. CASE i # Count
          BY <1>19, <5>2, Zenon DEF Copy
        <5> QED
          BY <5>1, <5>2
      <4>2. status
        BY <4>1, Zenon
      <4>3. cmd = "halt"
        BY <2>0, <4>2 DEF StatusKept
      <4>4. id' = id
        BY <1>19, <4>3 DEF Copy
      <4> QED
        BY <2>0, <4>2, <4>4 DEF SteadyIInv, SteadyStatus, BccOK
    <3> QED
      BY <3>1, <3>2
  <2>1. WireHolds' /\ SteadyFramed' /\ SteadyShort' /\ SteadyRequest' /\ SteadyAntiColl' /\ SteadyHalt'
    BY <1>19, PoppedIs DEF Copy, TypeIInv, RcBase, RcFlags, Counters, Put, Through, Return,
       history, world, Size, Count, MFRC522_MAX_LEN, Prep, After, StatusKept, SteadyIInv,
       WireHolds, SteadyFramed, Framed, SteadyShort, Short, SteadyRequest, SteadyAntiColl,
       SteadyHalt, SteadyAnswer, CopiedFrom, SteadyStatus, Waits
  <2> QED
    BY <2>1, <2>7, <2>8 DEF SteadyIInv
<1>20. CASE Spill
  BY <1>20 DEF Spill, TypeIInv, RcBase, RcFlags, Counters, chip, history, world, locals,
     Size, Count, MFRC522_MAX_LEN, Prep, After, StatusKept, SteadyIInv, WireHolds,
     SteadyFramed, Framed, SteadyShort, Short, SteadyRequest, SteadyAntiColl, SteadyHalt,
     SteadyAnswer, CopiedFrom, SteadyStatus, Waits
<1>21. CASE RequestAnswered
  <2>0. asked # "none" /\ fifo' = fifo \o Atqa /\ Atqa \in Seq(Byte) /\ Len(Atqa) <= 5
    BY <1>21, BytesAre DEF RequestAnswered, Hears, Received
  <2>10. UNCHANGED <<pc, cmd, i, n, active, steady>>
    BY <1>21, Zenon DEF RequestAnswered, driver, locals, history
  <2>2. SteadyFramed'
    BY <2>0, <2>10, ReceivedKeepsSteady
  <2>3. SteadyShort'
    BY <2>0, <2>10, ReceivedKeepsSteady
  <2>1. WireHolds' /\ SteadyRequest' /\ SteadyAntiColl' /\ SteadyHalt' /\ SteadyAnswer' /\ SteadyStatus'
    BY <1>21 DEF RequestAnswered, TypeIInv, RcBase, RcFlags, Counters, history, world,
       driver, locals, Received, Hears, Count, MFRC522_MAX_LEN, Aligned, Prep, After,
       StatusKept, SteadyIInv, WireHolds, SteadyFramed, Framed, SteadyShort, Short,
       SteadyRequest, SteadyAntiColl, SteadyHalt, SteadyAnswer, CopiedFrom, SteadyStatus,
       Waits
  <2> QED
    BY <2>1, <2>2, <2>3 DEF SteadyIInv
<1>22. CASE TimerRunsOut
  BY <1>22 DEF TimerRunsOut, TypeIInv, RcBase, RcFlags, Counters, history, driver, locals,
     Count, MFRC522_MAX_LEN, Fault, Prep, After, StatusKept, SteadyIInv, WireHolds,
     SteadyFramed, Framed, SteadyShort, Short, SteadyRequest, SteadyAntiColl, SteadyHalt,
     SteadyAnswer, CopiedFrom, SteadyStatus, Waits
<1>23. CASE WireChanges
  BY <1>23 DEF WireChanges, TypeIInv, RcBase, RcFlags, Counters, chip, driver, locals,
     Count, MFRC522_MAX_LEN, Fault, Prep, After, StatusKept, SteadyIInv, WireHolds,
     SteadyFramed, Framed, SteadyShort, Short, SteadyRequest, SteadyAntiColl, SteadyHalt,
     SteadyAnswer, CopiedFrom, SteadyStatus, Waits
<1>24. ASSUME NEW junk \in Junk, AnswerDisturbed(junk) PROVE SteadyIInv'
  <2>0. asked # "none" /\ fifo' = fifo \o junk /\ junk \in Seq(Byte) /\ Len(junk) <= 5
    BY <1>24, TagAssumption DEF AnswerDisturbed, Hears, Received
  <2>10. UNCHANGED <<pc, cmd, i, n, active, steady>>
    BY <1>24, Zenon DEF AnswerDisturbed, driver, locals, history
  <2>2. SteadyFramed'
    BY <2>0, <2>10, ReceivedKeepsSteady
  <2>3. SteadyShort'
    BY <2>0, <2>10, ReceivedKeepsSteady
  <2>1. WireHolds' /\ SteadyRequest' /\ SteadyAntiColl' /\ SteadyHalt' /\ SteadyAnswer' /\ SteadyStatus'
    BY <1>24 DEF AnswerDisturbed, TypeIInv, RcBase, RcFlags, Counters, driver, locals,
       Received, Hears, Count, MFRC522_MAX_LEN, Fault, Looked, Aligned, Prep, After,
       StatusKept, SteadyIInv, WireHolds, SteadyFramed, Framed, SteadyShort, Short,
       SteadyRequest, SteadyAntiColl, SteadyHalt, SteadyAnswer, CopiedFrom, SteadyStatus,
       Waits
  <2> QED
    BY <2>1, <2>2, <2>3 DEF SteadyIInv
<1>25. ASSUME NEW t \in Tags, IdAnswered(t) PROVE SteadyIInv'
  <2>0. asked # "none" /\ fifo' = fifo \o IdBytes(t, 5) /\ IdBytes(t, 5) \in Seq(Byte) /\ Len(IdBytes(t, 5)) <= 5
    <3> DEFINE s == IdBytes(t, 5)
    <3>1. s \in Seq(Byte) /\ Len(s) = 5
      BY <1>25, IdBytesAre
    <3>2. asked # "none" /\ fifo' = fifo \o s
      BY <1>25 DEF IdAnswered, Hears, Received
    <3> HIDE DEF s
    <3>3. asked # "none" /\ fifo' = fifo \o s /\ s \in Seq(Byte) /\ Len(s) <= 5
      BY <3>1, <3>2
    <3> QED
      BY <3>3 DEF s
  <2>10. UNCHANGED <<pc, cmd, i, n, active, steady>>
    BY <1>25, Zenon DEF IdAnswered, driver, locals, history
  <2>2. SteadyFramed'
    BY <2>0, <2>10, ReceivedKeepsSteady
  <2>3. SteadyShort'
    BY <2>0, <2>10, ReceivedKeepsSteady
  <2>1. WireHolds' /\ SteadyRequest' /\ SteadyAntiColl' /\ SteadyHalt' /\ SteadyAnswer' /\ SteadyStatus'
    BY <1>25 DEF IdAnswered, TypeIInv, RcBase, RcFlags, Counters, world, driver, locals,
       Received, Hears, Count, MFRC522_MAX_LEN, Aligned, Prep, After, StatusKept,
       SteadyIInv, WireHolds, SteadyFramed, Framed, SteadyShort, Short, SteadyRequest,
       SteadyAntiColl, SteadyHalt, SteadyAnswer, CopiedFrom, SteadyStatus, Waits
  <2> QED
    BY <2>1, <2>2, <2>3 DEF SteadyIInv
<1>26. ASSUME NEW t \in Tags, TagLeaves(t) PROVE SteadyIInv'
  <2>2. SteadyFramed'
    <3>1. Frame' = Frame /\ UNCHANGED <<pc, i, fifo>>
      BY <1>26, FrameKept DEF TagLeaves, driver, locals, chip
    <3>2. UNCHANGED <<active, steady>>
      BY <1>26, Zenon DEF TagLeaves, chip, history
    <3> QED
      BY <3>1, <3>2 DEF SteadyIInv, SteadyFramed, Framed
  <2>1. WireHolds' /\ SteadyShort' /\ SteadyRequest' /\ SteadyAntiColl' /\ SteadyHalt' /\ SteadyAnswer' /\ SteadyStatus'
    BY <1>26 DEF TagLeaves, TypeIInv, RcBase, RcFlags, Counters, chip, history, driver,
       locals, Count, MFRC522_MAX_LEN, Prep, After, StatusKept, SteadyIInv, WireHolds,
       SteadyFramed, Framed, SteadyShort, Short, SteadyRequest, SteadyAntiColl, SteadyHalt,
       SteadyAnswer, CopiedFrom, SteadyStatus, Waits
  <2> QED
    BY <2>1, <2>2 DEF SteadyIInv
<1>27. ASSUME NEW t \in Tags, TagComes(t) PROVE SteadyIInv'
  BY <1>27 DEF TagComes, TypeIInv, RcBase, RcFlags, Counters, chip, history, driver, locals,
     Count, MFRC522_MAX_LEN, Prep, After, StatusKept, SteadyIInv, WireHolds, SteadyFramed,
     Framed, SteadyShort, Short, SteadyRequest, SteadyAntiColl, SteadyHalt, SteadyAnswer,
     CopiedFrom, SteadyStatus, Waits
<1>28. ASSUME NEW t \in Tags, NEW m \in 1..4, AnswerCutShort(t, m) PROVE SteadyIInv'
  <2> DEFINE s == IdBytes(t, m)
  <2>0. s \in Seq(Byte) /\ Len(s) = m /\ m \in 1..5
    <3>1. m \in 1..5
      BY <1>28
    <3> QED
      BY <1>28, <3>1, IdBytesAre
  <2>9. /\ asked # "none" /\ asked' = "none" /\ irq' = irq \cup {"rx"}
        /\ UNCHANGED <<pc, cmd, i, n, active, steady>>
    <3>1. asked # "none" /\ asked' = "none" /\ irq' = irq \cup {"rx"}
      BY <1>28 DEF AnswerCutShort, Hears, Received
    <3>2. UNCHANGED <<pc, cmd, i, n, active, steady>>
      BY <1>28, Zenon DEF AnswerCutShort, driver, locals
    <3> QED
      BY <3>1, <3>2
  <2>10. \/ asked = "reqa" /\ fifo' = fifo \o <<Atqa[1]>>
         \/ asked = "anticoll" /\ fifo' = fifo \o s /\ heard' = heard \cup {s}
    BY <1>28 DEF AnswerCutShort, Hears, Received
  <2> HIDE DEF s
  <2>11. SteadyFramed' /\ SteadyShort' /\ (steady /\ pc \in After => fifo' \in {<<Atqa[1]>>, s})
    <3>1. CASE fifo' = fifo \o <<Atqa[1]>>
      <4>1. <<Atqa[1]>> \in Seq(Byte) /\ Len(<<Atqa[1]>>) <= 5
        BY BytesAre
      <4> QED
        BY <2>9, <3>1, <4>1, ReceivedKeepsSteady
    <3>2. CASE fifo' = fifo \o s
      BY <2>0, <2>9, <3>2, ReceivedKeepsSteady
    <3> QED
      BY <2>10, <3>1, <3>2
  <2>2. SteadyFramed'
    BY <2>11
  <2>3. SteadyShort'
    BY <2>11
  <2>7. SteadyAnswer'
    <3>1. steady' = steady /\ error' = error /\ seen' = seen
      BY <1>28, Zenon DEF AnswerCutShort, driver, locals
    <3> SUFFICES ASSUME steady, cmd = "anticoll" PROVE SteadyAnswer'
      BY <2>9, <3>1 DEF SteadyAnswer
    <3>2. CASE pc \in After
      <4>1. asked = "anticoll"
        BY <2>9, <3>2 DEF SteadyIInv, SteadyAntiColl, TypeIInv, RcBase
      <4>2. fifo' \in heard'
        <5>1. fifo = <<>> /\ fifo \in Seq(Byte)
          BY <3>2, <4>1 DEF SteadyIInv, SteadyAntiColl, TypeIInv, RcBase
        <5>2. fifo' = s
          BY <2>0, <2>10, <4>1, <5>1, ConcatIs
        <5> QED
          BY <2>10, <4>1, <5>2
      <4> QED
        BY <2>9, <3>1, <4>1, <4>2 DEF SteadyIInv, SteadyAnswer
    <3>3. CASE pc \notin After
      BY <2>9, <3>3 DEF SteadyAnswer, After, Waits
    <3> QED
      BY <3>2, <3>3
  <2>1. WireHolds' /\ SteadyRequest' /\ SteadyAntiColl' /\ SteadyHalt' /\ SteadyStatus'
    BY <1>28 DEF AnswerCutShort, TypeIInv, RcBase, RcFlags, Counters, driver, locals,
       Received, Hears, Count, MFRC522_MAX_LEN, Fault, Aligned, Prep, After, StatusKept,
       SteadyIInv, WireHolds, SteadyFramed, Framed, SteadyShort, Short, SteadyRequest,
       SteadyAntiColl, SteadyHalt, SteadyAnswer, CopiedFrom, SteadyStatus, Waits
  <2> QED
    BY <2>1, <2>2, <2>3, <2>7 DEF SteadyIInv
<1> QED
  BY <1>1, <1>2, <1>3, <1>4, <1>5, <1>6, <1>7, <1>8, <1>9, <1>10, <1>11, <1>12, <1>13,
     <1>14, <1>15, <1>16, <1>17, <1>18, <1>19, <1>20, <1>21, <1>22, <1>23, <1>24, <1>25,
     <1>26, <1>27, <1>28 DEF Next, DriverNext, Prepares, Fetches

-----------------------------------------------------------------------------
(* The beginning of the two other parts.                                     *)
LEMMA InitHeard == Init => HeardIInv
<1> SUFFICES ASSUME Init PROVE HeardIInv
  OBVIOUS
<1>1. pc = "rest" /\ cmd = "halt" /\ ~status /\ ~flushed
  BY Zenon DEF Init
<1> QED
  BY <1>1 DEF HeardIInv, OnlySent, OneSent, LookedClean, Looked, FifoGenuine, TwoAnswered,
     SecondByte,
              FirstCopied, TwoCopied, StatusGenuine, StatusKept

(* Before the first check nothing has gone wrong.                            *)
LEMMA InitSteady == Init => SteadyIInv
<1> SUFFICES ASSUME Init PROVE SteadyIInv
  OBVIOUS
<1>1. pc = "rest" /\ cmd = "halt" /\ ~status /\ wire = "ok"
  BY Zenon DEF Init
<1> QED
  BY <1>1 DEF SteadyIInv, WireHolds, SteadyFramed, Framed, SteadyShort, Short,
     SteadyRequest, SteadyAntiColl,
              SteadyHalt, SteadyAnswer, SteadyStatus, After, Waits

(* The inductive invariant.                                                *)
RcIInv == TypeIInv /\ HeardIInv /\ SteadyIInv

(* A step of nobody.                                                         *)
LEMMA RcStutter == ASSUME RcIInv, UNCHANGED vars PROVE RcIInv'
<1>1. /\ UNCHANGED <<pc, cmd, i, seen, bits, n, id, framing, irq, fifo, asked, wire, field, heard, faults>>
      /\ UNCHANGED <<whole, status, error, active, steady, flushed, misled>>
  BY Zenon DEF vars, driver, locals, chip, history, world
<1>2. TypeIInv'
  <2>1. RcFlags'
    BY <1>1, Zenon DEF RcIInv, TypeIInv, RcFlags
  <2>2. RcBase' /\ Counters'
    BY <1>1 DEF RcIInv, TypeIInv, RcBase, Counters, Frame
  <2> QED
    BY <2>1, <2>2 DEF TypeIInv
<1>3. HeardIInv'
  BY <1>1 DEF RcIInv, HeardIInv, OnlySent, OneSent, LookedClean, Looked, FifoGenuine,
     InScope, TwoAnswered,
              SecondByte, FirstCopied, TwoCopied, StatusGenuine, StatusKept, Genuine
<1>4. SteadyIInv'
  BY <1>1 DEF RcIInv, SteadyIInv, WireHolds, SteadyFramed, Framed, Frame, SteadyShort,
     Short, Count,
              SteadyRequest, SteadyAntiColl, SteadyHalt, SteadyAnswer, CopiedFrom, SteadyStatus, BccOK
<1> QED
  BY <1>2, <1>3, <1>4 DEF RcIInv

(* The three parts together hold in every run, whatever breaks.              *)
THEOREM RcInvariant == Spec => []RcIInv
<1>1. Init => RcIInv
  BY InitTypes, InitHeard, InitSteady DEF RcIInv
<1>2. RcIInv /\ [Next]_vars => RcIInv'
  <2> SUFFICES ASSUME RcIInv, [Next]_vars PROVE RcIInv'
    OBVIOUS
  <2>1. CASE Next
    <3>1. TypeIInv'
      BY <2>1, TypesKept, BaseKept DEF RcIInv, TypeIInv
    <3> QED
      BY <2>1, <3>1, HeardKept, SteadyKept DEF RcIInv, HeardIInv
  <2>2. CASE UNCHANGED vars
    BY <2>2, RcStutter
  <2> QED
    BY <2>1, <2>2
<1> QED
  BY <1>1, <1>2, PTL DEF Spec

(* Types, for any set of cards and any number of polls and faults.         *)
THEOREM RcTypesHold == Spec => []RcTypeOK
<1>1. RcIInv => RcTypeOK
  BY TypesAre DEF RcIInv, TypeIInv
<1> QED
  BY <1>1, RcInvariant, PTL

(* While the wires hold, a check that succeeds has read what a card has    *)
(* answered in it, and nothing is written behind a buffer: for any cards,  *)
(* whatever earlier checks with broken wires have left in the chip.         *)
THEOREM SteadyChecksReadAnswers == Spec => []SteadyCheckReadsAnswer
<1>1. RcIInv => SteadyCheckReadsAnswer
  <2> SUFFICES ASSUME RcIInv, steady
               PROVE  /\ pc # "spilled"
                      /\ status => BccOK(id) /\ \E a \in heard : \A k \in DOMAIN a : id[k] = a[k]
    BY DEF SteadyCheckReadsAnswer
  <2> QED
    BY DEF RcIInv, SteadyIInv, SteadyShort, Short, SteadyStatus
<1> QED
  BY <1>1, RcInvariant, PTL

(* A known card is reported only if a card has answered in this check with *)
(* the same two bytes, wherever wires break and however often.              *)
THEOREM ReportedCardsAnswered == Spec => []ReportedCardAnswered
<1>1. RcIInv => ReportedCardAnswered
  <2> SUFFICES ASSUME RcIInv, NEW card \in Known, status, Is(card), flushed, ~misled
               PROVE  \E a \in heard : Len(a) >= 2 /\ a[1] = card[1] /\ a[2] = card[2]
    BY DEF ReportedCardAnswered
  <2>1. Genuine(id[1], id[2])
    BY DEF RcIInv, HeardIInv, StatusGenuine
  <2>2. id[1] = card[1] /\ id[2] = card[2]
    BY DEF Is
  <2>3. card[1] \notin Protocol /\ card[2] \notin Protocol
    BY TagAssumption
  <2> QED
    BY <2>1, <2>2, <2>3 DEF Genuine
<1> QED
  BY <1>1, RcInvariant, PTL
=============================================================================
