------------------------------- MODULE Rc522 -------------------------------
(***************************************************************************)
(* The card reader driver of the RFID node (02RFID/src/main.c:169-478): one *)
(* call of rc522_checkCard sends REQA, then the anticollision command, then *)
(* HLTA, each through rc522_toCard, which waits for an interrupt flag with  *)
(* a counted loop.  Every access to a register of the chip is a step; the   *)
(* chip, the cards and the SPI wires are external and move between any two. *)
(* Only the CRC of HLTA is two steps: its bytes, and the coprocessor.       *)
(*                                                                          *)
(* All three commands of the card loop share one buffer of five bytes, id.  *)
(* It is never cleared, rc522_antiColl does not look at the length of the   *)
(* answer, and rc522_toCard copies up to 16 bytes: what lies behind id, or  *)
(* behind rc522_halt's buffer on the stack, is not modelled, and neither is *)
(* anything after bytes were written there ("spilled").                     *)
(*                                                                          *)
(* A byte is the set of its bits that are 1, so that xor is the symmetric   *)
(* difference.                                                              *)
(***************************************************************************)
EXTENDS Integers, Sequences

CONSTANTS
  Tags,        \* the cards visitors may hold to the reader
  IdOf,        \* their answer to an anticollision command: uid and check byte
  Known,       \* the uids of known_cards
  Junk,        \* what a disturbed answer may leave in the FIFO
  Polls,       \* the count of the wait loop; 100 in the code
  MaxFaults    \* bound: answers cut short or disturbed, timers, broken wires

Byte == SUBSET (0..7)
Zero == {}
Ones == 0..7
Xor(a, b) == (a \ b) \cup (b \ a)

\* Bytes the driver sends, and the answer to REQA.
REQIDL == {1, 2, 5}
ANTICOLL == {0, 1, 4, 7}
NVB == {5}
Hlta == <<{4, 6}, {}, {0, 1, 2, 4, 6}, {0, 2, 3, 6, 7}>>
Atqa == <<{2}, {}>>

Protocol == {Zero, Ones, REQIDL, ANTICOLL, NVB, Atqa[1]}

\* Nothing a card sends is longer than an id.  The uids of the known cards do not
\* begin with bytes of the protocol or of a broken wire.
ASSUME TagAssumption ==
  /\ IdOf \in [Tags -> [1..5 -> Byte]]
  /\ \A junk \in Junk : junk \in Seq(Byte) /\ Len(junk) <= 5
  /\ Known \subseteq [1..4 -> Byte]
  /\ \A card \in Known : card[1] \notin Protocol /\ card[2] \notin Protocol
ASSUME BoundAssumption == Polls \in Nat \ {0, 1} /\ MaxFaults \in Nat

VARIABLES
  pc,          \* the next access to the chip; "rest" between two checks
  cmd,         \* the command under way or the last one
  i,           \* i of toCard: polls left, then the byte to send or to copy
  seen,        \* the interrupt flags read last
  bits,        \* BitFramingReg as read last
  n,           \* the FIFO level read
  whole,       \* lastBits = 0
  status,      \* what the check has come to
  id,          \* the buffer of the card loop
  framing,     \* chip: BitFramingReg, 16 * RxAlign + TxLastBits
  irq,         \* chip: interrupt flags, a subset of {"rx", "timer"}
  fifo,        \* chip: the bytes in the FIFO
  error,       \* chip: one of the error flags 0x1B
  active,      \* chip: does the Transceive command run?
  asked,       \* chip: the command that went out and may still be answered
  wire,        \* "ok"; "zeros" and "ones": nothing gets through and reads give
               \* that; "reset": the chip has lost its configuration
  field,       \* each card: "out" of the field, "idle" or "ready"
  heard,       \* history: the ids that cards have sent in this check,
  steady,      \* whether the wires have held since it began,
  flushed,     \* whether the flush for REQA or anticollision got through,
  misled,      \* and whether junk got past the look at the error flags
  faults

locals == <<i, seen, bits, n, whole>>
driver == <<pc, cmd, locals, status, id>>
chip == <<framing, irq, fifo, error, active, asked>>
history == <<heard, steady, flushed, misled>>
world == <<wire, field, faults>>
vars == <<driver, chip, history, world>>

Fault == faults < MaxFaults /\ faults' = faults + 1
Ready == {t \in Tags : field[t] = "ready"}

Init ==
  /\ pc = "rest" /\ cmd = "halt" /\ i = 0 /\ seen = {} /\ bits = 0 /\ n = 0 /\ whole = TRUE
  /\ status = FALSE /\ id = [k \in 1..5 |-> Zero]
  /\ framing = 0 /\ irq = {} /\ fifo = <<>> /\ error = FALSE /\ active = FALSE /\ asked = "none"
  /\ wire = "ok" /\ field = [t \in Tags |-> "out"] /\ faults = 0
  /\ heard = {} /\ steady = TRUE /\ flushed = FALSE /\ misled = FALSE

-----------------------------------------------------------------------------
(* Accesses.  A read gives the register, or what the broken wire gives; a  *)
(* write reaches the chip or is lost, and the driver looks at neither.     *)

Through == wire \in {"ok", "reset"}
Get(value, zeros, ones) ==
  CASE wire = "zeros" -> zeros [] wire = "ones" -> ones [] OTHER -> value
Put(var, value) == IF Through THEN value ELSE var

FlagsRead == Get(irq, {}, {"rx", "timer"})
FramingRead == Get(framing, 0, 119)
ErrorReadMutant == FALSE                          \* the error flags not looked at
ErrorRead == Get(error, FALSE, TRUE)
LevelReadMutant == Get(Len(fifo) - 1, 0, 255)     \* one off
LevelRead == Get(Len(fifo), 0, 255)
HeadRead == Get(IF fifo = <<>> THEN Zero ELSE Head(fifo), Zero, Ones)
Popped == IF fifo = <<>> THEN fifo ELSE Tail(fifo)

Goes(from, to) == pc = from /\ pc' = to

-----------------------------------------------------------------------------
(* rc522_request, rc522_antiColl and rc522_halt up to rc522_toCard.        *)

\* rc522_checkCard begins; the card loop hands it the same buffer each time.
Request ==
  /\ Goes("rest", "irq_read") /\ cmd' = "reqa" /\ status' = FALSE
  /\ framing' = Put(framing, 7) /\ id' = [id EXCEPT ![1] = REQIDL]
  /\ heard' = {} /\ steady' = (wire = "ok") /\ flushed' = FALSE /\ misled' = FALSE
  /\ UNCHANGED <<locals, irq, fifo, error, active, asked, world>>

AntiCollBitsMutant == framing                \* BitFramingReg not written
AntiCollBits == Put(framing, 0)

AntiColl ==
  /\ Goes("anticoll", "irq_read") /\ cmd' = "anticoll"
  /\ framing' = AntiCollBits /\ id' = [id EXCEPT ![1] = ANTICOLL, ![2] = NVB]
  /\ UNCHANGED <<locals, status, irq, fifo, error, active, asked, history, world>>

\* rc522_calculateCRC flushes the FIFO and writes two bytes, which the CRC
\* command then takes; the framing stays as the command before has left it.
Halt ==
  /\ Goes("halt", "crc") /\ cmd' = "halt"
  /\ fifo' = Put(fifo, <<Hlta[1], Hlta[2]>>)
  /\ UNCHANGED <<locals, status, id, framing, irq, error, active, asked, history, world>>

CalculateCRC ==
  /\ Goes("crc", "irq_read") /\ active' = Put(active, FALSE) /\ fifo' = Put(fifo, <<>>)
  /\ UNCHANGED <<cmd, locals, status, id, framing, irq, error, asked, history, world>>

-----------------------------------------------------------------------------
(* rc522_toCard up to its wait loop.                                       *)

\* The flags are cleared by writing back what was read.
ReadIrq ==
  /\ Goes("irq_read", "irq_clear") /\ seen' = FlagsRead
  /\ UNCHANGED <<cmd, i, bits, n, whole, status, id, chip, history, world>>

ClearIrq ==
  /\ Goes("irq_clear", "flush") /\ irq' = Put(irq, irq \ seen) /\ seen' = {}
  /\ UNCHANGED <<cmd, i, bits, n, whole, status, id, framing, fifo, error, active, asked, history, world>>

FlushFifo ==
  /\ Goes("flush", "idle") /\ fifo' = Put(fifo, <<>>) /\ flushed' = (flushed \/ (Through /\ cmd # "halt"))
  /\ UNCHANGED <<cmd, locals, status, id, framing, irq, error, active, asked, heard, steady, misled, world>>

Idle ==
  /\ Goes("idle", "load") /\ active' = Put(active, FALSE) /\ i' = 1
  /\ UNCHANGED <<cmd, seen, bits, n, whole, status, id, framing, irq, fifo, error, asked, history, world>>

Frame ==
  CASE cmd = "reqa" -> <<REQIDL>> [] cmd = "anticoll" -> <<ANTICOLL, NVB>> [] OTHER -> Hlta
Load ==
  /\ Goes("load", IF i = Len(Frame) THEN "command" ELSE "load")
  /\ fifo' = Put(fifo, Append(fifo, Frame[i])) /\ i' = i + 1
  /\ UNCHANGED <<cmd, seen, bits, n, whole, status, id, framing, irq, error, active, asked, history, world>>

Command ==
  /\ Goes("command", "bits_read") /\ active' = Put(active, TRUE)
  /\ UNCHANGED <<cmd, locals, status, id, framing, irq, fifo, error, asked, history, world>>

ReadBits ==
  /\ Goes("bits_read", "send") /\ bits' = FramingRead
  /\ UNCHANGED <<cmd, i, seen, n, whole, status, id, chip, history, world>>

\* StartSend: the Transceive command sends what is in the FIFO, the last byte
\* as a whole or its lower bits.  REQA is a frame of seven bits; a card leaves
\* the ready state for anything but a good anticollision command.
Understood ==
  CASE fifo = <<REQIDL>> /\ bits % 8 = 7 -> "reqa"
    [] fifo = <<ANTICOLL, NVB>> /\ bits % 8 = 0 -> "anticoll"
    [] OTHER -> "none"
Heard(c) ==
  [t \in Tags |->
    CASE field[t] = "idle" /\ c = "reqa" -> "ready"
      [] field[t] = "ready" /\ c # "anticoll" -> "idle"
      [] OTHER -> field[t]]

Send ==
  /\ Goes("send", "poll") /\ i' = Polls /\ seen' = {} /\ bits' = 0
  /\ framing' = Put(framing, bits)
  /\ IF Through /\ active
       THEN /\ fifo' = <<>> /\ error' = FALSE
            /\ asked' = IF wire = "ok" THEN Understood ELSE "none"
            /\ field' = IF wire = "ok" THEN Heard(Understood) ELSE field
       ELSE UNCHANGED <<fifo, error, asked, field>>
  /\ UNCHANGED <<cmd, n, whole, status, id, irq, active, history, wire, faults>>

-----------------------------------------------------------------------------
(* The wait loop, and what rc522_toCard and its callers do after it.       *)

PollsLeftMutant == i                         \* the count is not taken down
PollsLeft == i - 1
Poll ==
  /\ pc = "poll"
  /\ seen' = FlagsRead /\ i' = PollsLeft
  /\ pc' = IF i' = 0 \/ seen' # {} THEN "stop_read" ELSE "poll"
  /\ UNCHANGED <<cmd, bits, n, whole, status, id, chip, history, world>>

ReadStop ==
  /\ Goes("stop_read", "stop_write") /\ bits' = FramingRead
  /\ UNCHANGED <<cmd, i, seen, n, whole, status, id, chip, history, world>>

\* toCard returns to rc522_request, rc522_antiColl or rc522_halt.  The check
\* byte is all that rc522_antiColl looks at.
BccOK(b) == Xor(Xor(b[1], b[2]), Xor(b[3], b[4])) = b[5]
AcceptedMutant(b) == TRUE
Accepted(b) == BccOK(b)

Return(good) ==
  /\ pc' = CASE cmd = "reqa" -> IF good /\ n = 2 /\ whole THEN "anticoll" ELSE "halt"
             [] cmd = "anticoll" -> "halt"
             [] OTHER -> "rest"
  /\ status' = IF cmd = "anticoll" THEN good /\ Accepted(id') ELSE status
  /\ i' = 0 /\ seen' = {} /\ bits' = 0 /\ n' = 0 /\ whole' = TRUE

\* Nothing more is read if the loop has come to its end, even with a flag.
WriteStop ==
  /\ pc = "stop_write" /\ framing' = Put(framing, bits)
  /\ IF i = 0 THEN Return(FALSE)
              ELSE pc' = "error" /\ bits' = 0 /\ UNCHANGED <<i, seen, n, whole, status>>
  /\ UNCHANGED <<cmd, id, irq, fifo, error, active, asked, history, world>>

ReadError ==
  /\ pc = "error" /\ misled' = (misled \/ (error /\ wire = "zeros"))
  /\ IF ErrorRead THEN Return(FALSE) ELSE pc' = "level" /\ UNCHANGED <<locals, status>>
  /\ UNCHANGED <<cmd, id, chip, heard, steady, flushed, world>>

ReadLevel ==
  /\ Goes("level", "control") /\ n' = LevelRead
  /\ UNCHANGED <<cmd, i, seen, bits, whole, status, id, chip, history, world>>

ReadControl ==
  /\ Goes("control", "copy") /\ whole' = (wire # "ones") /\ i' = 1
  /\ UNCHANGED <<cmd, seen, bits, n, status, id, chip, history, world>>

\* At least one byte is copied and at most 16, to a buffer of 5 or of 4.
MFRC522_MAX_LEN == 16
Count == IF n = 0 THEN 1 ELSE IF n > MFRC522_MAX_LEN THEN MFRC522_MAX_LEN ELSE n
Size == IF cmd = "halt" THEN 4 ELSE 5

Copy ==
  /\ pc = "copy" /\ i <= Size
  /\ id' = IF cmd = "halt" THEN id ELSE [id EXCEPT ![i] = HeadRead]
  /\ fifo' = Put(fifo, Popped)
  /\ IF i = Count THEN Return("timer" \notin seen)
                  ELSE i' = i + 1 /\ UNCHANGED <<pc, seen, bits, n, whole, status>>
  /\ UNCHANGED <<cmd, framing, irq, error, active, asked, history, world>>

Spill ==
  /\ pc = "copy" /\ i > Size
  /\ pc' = "spilled"
  /\ UNCHANGED <<cmd, locals, status, id, chip, history, world>>

-----------------------------------------------------------------------------
(* The chip and the cards.  An answer comes before the chip has been asked *)
(* for it 100 times, or later, or not at all.                              *)

Hears(c) == asked = c /\ active
Aligned == framing < 16

IdBytes(t, m) == [k \in 1..m |-> IdOf[t][k]]
Received(bytes) == fifo' = fifo \o bytes /\ irq' = irq \cup {"rx"} /\ asked' = "none"

\* The ready cards answer REQA together, a single one anticollision.
RequestAnswered ==
  /\ Hears("reqa") /\ Ready # {} /\ Aligned
  /\ Received(Atqa)
  /\ UNCHANGED <<driver, framing, error, active, history, world>>

IdAnswered(t) ==
  /\ Hears("anticoll") /\ Ready = {t} /\ Aligned
  /\ Received(IdBytes(t, 5)) /\ heard' = heard \cup {IdBytes(t, 5)}
  /\ UNCHANGED <<driver, framing, error, active, steady, flushed, misled, world>>

\* A card that leaves breaks off after a whole byte, unnoticed.
AnswerCutShort(t, m) ==
  /\ Ready = {t} /\ Aligned /\ Fault
  /\ \/ Hears("reqa") /\ m = 1 /\ Received(<<Atqa[1]>>) /\ UNCHANGED heard
     \/ Hears("anticoll") /\ Received(IdBytes(t, m)) /\ heard' = heard \cup {IdBytes(t, m)}
  /\ field' = [field EXCEPT ![t] = "out"]
  /\ UNCHANGED <<driver, framing, error, active, steady, flushed, misled, wire>>

\* Two ids collide; noise, or a break within a byte, is seen as well.  With
\* RxAlign set the bytes are shifted, which no error flag tells.
Looked == pc \in {"level", "control", "copy"}
AnswerDisturbed(junk) ==
  /\ Hears("reqa") \/ Hears("anticoll")
  /\ Ready # {}
  /\ \/ ~Aligned /\ UNCHANGED faults
     \/ Hears("anticoll") /\ (\E t, u \in Ready : t # u) /\ UNCHANGED faults
     \/ Fault
  /\ Received(junk)
  /\ error' = (error \/ Aligned) /\ misled' = (misled \/ ~Aligned \/ Looked)
  /\ UNCHANGED <<driver, framing, active, heard, steady, flushed, wire, field>>

\* The timer, set to 1.5 s, runs out while main has been held up.
TimerRunsOut ==
  /\ pc = "poll" /\ wire # "reset" /\ Fault
  /\ irq' = irq \cup {"timer"}
  /\ UNCHANGED <<driver, framing, fifo, error, active, asked, history, wire, field>>

\* Cards go at any time, and come between two checks: one that comes within a
\* check, before REQA or after it, makes no difference until REQA is sent.
TagLeaves(t) ==
  /\ field[t] # "out" /\ field' = [field EXCEPT ![t] = "out"]
  /\ UNCHANGED <<driver, chip, history, wire, faults>>

TagComes(t) ==
  /\ pc = "rest" /\ field[t] = "out" /\ field' = [field EXCEPT ![t] = "idle"]
  /\ UNCHANGED <<driver, chip, history, wire, faults>>

\* A wire breaks, or comes back, the chip as it was or without its
\* configuration: rc522_init runs at boot only.
WireChanges ==
  /\ steady' = FALSE
  /\ \/ wire = "ok" /\ wire' \in {"zeros", "ones"} /\ Fault
     \/ wire \in {"zeros", "ones"} /\ wire' \in {"ok", "reset"} /\ UNCHANGED faults
  /\ IF wire' = "reset"
       THEN /\ framing' = 0 /\ irq' = {} /\ fifo' = <<>> /\ error' = FALSE
            /\ active' = FALSE /\ asked' = "none"
       ELSE UNCHANGED chip
  /\ UNCHANGED <<driver, field, heard, flushed, misled>>

Prepares == ReadIrq \/ ClearIrq \/ FlushFifo \/ Idle \/ Load \/ Command \/ ReadBits \/ Send
Fetches == ReadStop \/ WriteStop \/ ReadError \/ ReadLevel \/ ReadControl \/ Copy \/ Spill
DriverNext == Request \/ AntiColl \/ Halt \/ CalculateCRC \/ Prepares \/ Poll \/ Fetches

Next ==
  \/ DriverNext
  \/ RequestAnswered \/ TimerRunsOut \/ WireChanges
  \/ \E junk \in Junk : AnswerDisturbed(junk)
  \/ \E t \in Tags : IdAnswered(t) \/ TagLeaves(t) \/ TagComes(t) \/ \E m \in 1..4 : AnswerCutShort(t, m)

Spec == Init /\ [][Next]_vars

\* main runs.  A card that is asked again and again answers again and again
\* before the last poll: after that one the loop no longer looks (:370-377).
InTime == pc = "poll" /\ i > 1
FairSpec ==
  /\ Spec /\ WF_vars(DriverNext) /\ SF_vars(InTime /\ RequestAnswered)
  /\ \A t \in Tags : SF_vars(InTime /\ IdAnswered(t))

-----------------------------------------------------------------------------
\* Types.
RcTypeOK ==
  /\ pc \in {"rest", "anticoll", "halt", "crc", "irq_read", "irq_clear", "flush", "idle", "load",
             "command", "bits_read", "send", "poll", "stop_read", "stop_write", "error",
             "level", "control", "copy", "spilled"}
  /\ cmd \in {"reqa", "anticoll", "halt"} /\ asked \in {"reqa", "anticoll", "none"}
  /\ i \in Nat /\ seen \subseteq {"rx", "timer"} /\ irq \subseteq {"rx", "timer"}
  /\ bits \in {0, 7, 119} /\ framing \in {0, 7, 119} /\ n \in Nat /\ whole \in BOOLEAN
  /\ status \in BOOLEAN /\ id \in [1..5 -> Byte]
  /\ fifo \in Seq(Byte) /\ error \in BOOLEAN /\ active \in BOOLEAN
  /\ wire \in {"ok", "zeros", "ones", "reset"}
  /\ field \in [Tags -> {"out", "idle", "ready"}]
  /\ \A a \in heard : a \in Seq(Byte) /\ Len(a) \in 1..5
  /\ steady \in BOOLEAN /\ flushed \in BOOLEAN /\ misled \in BOOLEAN
  /\ faults \in 0..MaxFaults

\* As long as the wires hold, whatever earlier checks have left in the chip and
\* in id and however late their answers come: a check that succeeds has read
\* what a card answered in this very check, as far as the answer goes, with a
\* check byte that fits; and no byte is written behind a buffer.
SteadyCheckReadsAnswer ==
  steady =>
    /\ pc # "spilled"
    /\ status => BccOK(id) /\ \E a \in heard : \A k \in DOMAIN a : id[k] = a[k]

\* Whichever wires break between any two accesses, and wherever the answer
\* breaks off: main reports a known card only if a card has answered in this
\* check whose uid begins with the same two bytes.  The exceptions: neither the
\* flush for REQA nor that for the anticollision has reached the chip, or junk got
\* past the error flags.
Is(card) == \A k \in 1..4 : id[k] = card[k]
ReportedCardAnswered ==
  \A card \in Known :
    status /\ Is(card) /\ flushed /\ ~misled
      => \E a \in heard : Len(a) >= 2 /\ a[1] = card[1] /\ a[2] = card[2]

\* Every check comes to its end, also with a reader that is not there, unless
\* bytes were written behind a buffer.
CheckReturns == pc # "rest" ~> pc \in {"rest", "spilled"}

\* A card that lies alone on a reader that works is reported again and again.
Reports(t) == pc = "rest" /\ status /\ id = IdOf[t]
Alone(t) == wire = "ok" /\ field[t] # "out" /\ \A u \in Tags \ {t} : field[u] = "out"
CardIsReported == \A t \in Tags : []<>(~Alone(t) \/ pc = "spilled") \/ []<>Reports(t)
===========================================================================
