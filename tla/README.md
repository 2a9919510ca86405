# Making Waves: a TLA+ development

*Making Waves* is an exhibit: a visitor steers a ship on a screen by turning a
wheel and scans a sequence of cards to begin. Three microcontrollers and a
program on the host make it work:

```
  wheel node                 base station                    host
  01mobileIMU   --- BLE ---  00base  --- USB serial ---  03GUI (Python)
  card reader   --- BLE ---
  02RFID
```

The nodes are peripherals that notify JSON over the Nordic UART service (NUS).
The base is the central: it finds the nodes by name, connects, discovers the
service, prints each notification on its console and writes the command lines
of the host to the node they name. The firmware is Zephyr 4.3.0 for the
xiao_ble; the facts about the build that the models use (thread priorities,
numbers of connections and requests, what the linker keeps) are read from the
`build/` trees that are part of the repository.

Nothing in the firmware takes a lock. What keeps it correct is which threads are
cooperative, where they wait, and the order in which callbacks come. None of
this can be exercised by a test on the host, and the repository has no tests
(a mutex guards two collections of the GUI's reader, and nothing else there).
These modules are about that.

Sections: 1 inventory; 2 modules; 3 runs; 4 bounds; 5 fairness;
6 what is proved; 7 what the runs found; 8 not modelled; 9 what is left.

## 1. Inventory

### 1.1 Base: connection manager (`00base/src/main.c:580-656, 723-843`)

*State.* `nodes[MAX_NODES]` with a connection pointer and a name each, the
scanner, `scan_restart_work`; in the stack, the connection objects with their
reference counts, and in the controller the filter for duplicate reports.

*Operations.* `start_scan`, `device_found`, `connected`, `disconnected`,
`scan_restart_work_fn`, and `main` with `base_entry`.

*Threads.* `device_found` and `connected` run in the Bluetooth receive work
queue, `disconnected` and the work item in the system work queue, and the first
scan in `main`. Both queues are cooperative, so a handler is atomic up to a
point where it waits for the controller: inside `bt_le_scan_start`,
`bt_le_scan_stop`, `bt_conn_le_create` and `bt_conn_le_data_len_update`.

*Hard.* `device_found` chooses its free entry before it waits twice and fills
it afterwards. A reference to a connection is given back on three different
paths. The scanner is started from four places (and from `sniffer_entry`,
which is never entered), and tried again from none.

*Correct means.* A link the stack holds is in exactly one entry and the reverse;
references balance; an entry's name is that of its link; the chosen entry is
still free when used; while an entry is free the base scans, and a node that is
there is connected.

### 1.2 Base: discovery and subscription (`:333-521`, and the end of `connected`)

*State.* Each entry has `discover_params`, `rx_discover_params`,
`subscribe_params`, and the handle of the RX characteristic. The stack has a
slab of `CONFIG_BT_ATT_TX_COUNT` = 3 requests for both links together.

*Operations.* `connected` starts the MTU exchange, the discovery of the service
and *at once* that of the RX characteristic; `discover_func` goes on from
service to TX characteristic to CCC descriptor, subscribes, and starts the RX
discovery a second time; `rx_discover_func` stores the handle or wipes its
block; on a lost link the stack calls back every pending request.

*Hard.* One parameter block serves two discoveries that may be under way
together. The callbacks never wait, and `connected` reads none of the results of
its three calls, so what finds no free request is not started and nobody tries
again; the requests that are missing may be those of the other link.

*Correct means.* No callback meets a block the other discovery wiped; a link
that stays up is subscribed and writable in the end if the stack accepts what
its discovery asks for.

### 1.3 Base: UART commands (`:92-261`, `nus_send_to_node` `:661-692`)

*State.* A line buffer, a message queue of 8, the preemptible UART thread.

*Hard.* The thread reads an entry that the work queues clear and refill in the
meantime, and leaves the handle in the entry's `write_params` while it waits, up
to 30 s, for a request the other link may hold; the queue drops a line it has no room for, and the base drops a
command whose node is not there. *Correct means* that a command is written to a
handle of the connection it goes out on, and that commands keep their order.

### 1.4 Base: forwarding of notifications (`notify_func`, `:333-372`)

*State.* The buffer of the deferred log (1024 bytes, `CONFIG_LOG_MODE_OVERFLOW`:
the oldest message makes room), and the line of the console that has no end yet.

*Operations.* `notify_func` logs the text of a notification, prints it, and
prints what its kind calls for; the log thread, of the lowest priority, writes
the buffer to the UART.

*Hard.* Every text is written twice, and what is overwritten may be one half of
a line. *Correct means* that the GUI is told each sample once and in order, and
each scan.

### 1.5 Wheel node (`01mobileIMU/src/main.c`)

*State.* The six sensor values with `print_samples`; the three globals of the
filter, `g_gyro_z_filtered`, `g_cumulative_angle_deg` and
`g_steering_angle_deg`; `sample_count`; a channel of the task watchdog;
advertising.

*Threads.* `main` (100 rounds a second, preemptible), the sensor's trigger
handler (system work queue), the NUS callback `received` (Bluetooth work queue).
The two handlers are cooperative and may preempt `main` between any two of its
accesses.

*Hard.* Six values are copied one after the other while a handler overwrites
them; the angle is a load and a store that a zero command can fall between; the
watchdog has to notice a sensor that falls silent.

*Correct means.* `main` mixes at most two successive samples; the steering
angle follows the cumulative one; a zero command is not lost; a node whose
sensor is dead is rebooted.

### 1.6 Card reader node (`02RFID/src/main.c`)

*State.* `g_difficulty` in RAM and in NVS, three LEDs, the reader, advertising.

*Threads.* `main` waits for cards, reports each and flashes it; `received` (the
Bluetooth work queue) takes a difficulty, saves it and flashes it, and sleeps
while it does; the system work queue restarts advertising.

*Hard.* Two threads flash the same LEDs at the same time. RAM and flash are
written one after the other with a wait between them, and the power may fail at
any moment. The card loop reads the difficulty twice.

*Correct means.* Whatever overlaps, no LED stays on; the difficulty after a
power cycle is the one in force before it; a scan reaches the base.

### 1.7 Card reader driver (`02RFID/src/main.c:169-480`)

*State.* The chip's framing, interrupt flags, FIFO and error flags; in the
firmware one buffer `id[5]` that every check shares and nothing clears.

*Operations.* `rc522_checkCard` is REQA, anticollision and HLTA, each a
`rc522_toCard`: it clears the flags, sends, polls the flags at most 100 times,
and copies what the FIFO holds.

*Hard.* The length of an answer is not looked at, so a short one leaves bytes of
an earlier card in the buffer; no register access reports an error, so a wire
that breaks between two of them loses half a command or puts zeros and ones into
`id`; up to 16 bytes are copied into five (`:404`). *Correct means* that an
accepted id is what a card answered in this check, as long as the wires hold;
that a known card is never reported unless one like it has answered, whatever the
wires do; that a check ends, and that a card on the reader is found.

### 1.8 GUI (`03GUI/ship_navigation-4.py`)

*State.* The screen, the difficulty, the reader with its cards and samples, the
threads that read the port, ship and obstacles.

*Operations.* The home screen (difficulty, Connect, SPACE), the screen that
collects cards, the countdown, the voyage (Connect, Zero, Home), quitting.

*Hard.* A fixed wait of 600 ms before the difficulty is sent, once; a thread
that outlives the reader it belongs to and takes the lines of the next one;
commands of an earlier visit still on their way; a steering delta that is
applied again in every frame.

*Correct means.* A voyage begins with the cards of this visit; the node has the
difficulty of the screen; the port has one reader; the visitor gets on.

### 1.9 The rest

`lib/heartbeat` and `drivers/.../csse4011_tmp36` are linked into none of the
three firmwares. The `build/` trees are generated.

### 1.10 How the parts interact

| from | to | by |
|---|---|---|
| wheel, reader | base | advertising with a name; NUS notification of one JSON object |
| base | wheel | NUS write of `zero` or `collision` |
| base | reader | NUS write of a difficulty |
| base | GUI | one console line for each notification |
| GUI | base | one JSON line with a command and, for a difficulty, a mode; the base knows the node |
| base's work queues | UART thread | `nodes[]`, unlocked |
| node's work queues | node's `main` | globals, unlocked |

The hazards of each part are listed in `PROJECT.json`, each at the line where
it bites, with the properties that watch it. The ones no property watches yet
say why.

## 2. The modules

| module | models | rests on |
|---|---|---|
| `NodeSessions` | what the connection manager promises | |
| `ScreenFeed` | what the way to the screen promises when messages are lost | |
| `BaseCentral` | the connection manager | `NodeSessions` (refinement) |
| `BaseLink` | discovery, subscription and UART commands of both entries | |
| `Forwarding` | a notification on its way from the base to the screen | `ScreenFeed` (refinement) |
| `ImuNode` | the wheel node | |
| `RfidNode` | the card reader node | |
| `Rc522` | the driver of the card reader, with its chip and the cards | |
| `MakingWaves` | the GUI, composed with the base and the card reader node | `NodeSessions` |
| `MC...` | instances for TLC | the module named |
| `...Proofs` | theorems | the module named |

**BaseCentral.** An action is what runs between two waits of a handler; `rx`,
`sys` and `main` say where each thread waits. `DeviceFoundIgnored` and
`DeviceFoundChosen` are the two ways out of the first part of `device_found`,
`ScanStopped`, `CreateFails` and `CreateSucceeds` the code after its waits.
`start_scan` is entered by setting a thread's counter to `starting`; the
operator `StartScan` says what the controller has done when it returns, and
`RxScanStarted`, `SysScanStarted`, `MainScanStarted` are the returns in the
three threads. `Connected`, `ConnectFailed`, `ConnectedReturns`, `Disconnected`
and `ScanRestartRuns` are the callbacks. The rest is external: a connection
object is `unused`, `creating`, `initiating`, `up`, `lost` (the callback is
queued) or `failed` (the callback is running), with a reference of the stack
unless it is unused; a peripheral advertises, leaves, and a link may break
whenever nothing else runs in the receive queue. Up to `MaxFaults` controller
commands fail. `ParallelScanInit` is the feature of the same name
(`CONFIG_BT_SCAN_AND_INITIATE_IN_PARALLEL`, off in the build); the theorems hold
with it and without it.

Time is left out: the delay of the work item (5 s, 1 s or 500 ms) is "later". The
copied strings are the name itself, and `TARGET_NAMES` is the set `Peers`.

**NodeSessions.** One variable, the session with each peripheral: `none`,
`opening`, `open`, `closing`. No slots, objects, references, scanner or threads.
`BaseCentral!Sessions` reads a session from the entry that leads to the
peripheral.

**BaseLink.** Both entries of `nodes[]`, since the parameter blocks are per entry
but the slab is not. `att[i]` is the queue of requests of a link, the head one
outstanding; every callback runs when the head is answered, and appends what
the code asks for, as far as there is `Room` in the one slab. `Connected` comes
after the wait in `update_data_length`, when the link may be gone already, and
queues as many of its three requests as fit. Connections are opened one at a time,
as the scanner is off meanwhile; nothing orders them against the UART thread.
That thread is cut at every access to the entry: `UartLooksUp` reads connection
and handle, once, as the build does (it keeps both in registers), `UartSetsHandle`
and `UartSetsFunc` fill `write_params` in the order of the build,
`UartAllocates` takes a request or waits for the slab (a request freed on *either*
link goes to a thread that waits, `Woken`), and `UartSends` encodes the handle that
`write_params` has then. A thread whose entry was wiped in the middle of this goes
on (`torn`): it may write an old handle, handle 0, or on the entry's next
connection, and its callback may be gone when the answer comes (`fault`). All of
that is modelled and reached; the request is marked `stray`. The handle of the RX
characteristic is represented by the number of the connection it was discovered
on; what the commands say and what becomes of them at the node is in `MakingWaves`.

**Forwarding.** `SampleNotified` and `ScanNotified` are `notify_func` for the two
kinds of text; it is not interrupted by the log thread. `OtherLogged` is any
other message of the base. `Logged` puts messages into the buffer, which is
counted in messages: where the new ones are longer than the ones that make room,
one more may go. `LogThread` writes the oldest message and, where it ends a line,
lets `SerialReader._run` take the line in. That reader takes all from the first
brace to the last for one object, so a line with two is refused. The text of the
wheel node has no line break, so the two plain prints make such a line and only
the log line steers; the text of the card reader has one, and each scan is told
twice. A sample is its number: order and repetition are what steering depends on.

**ScreenFeed.** The samples produced, the cards scanned, and what the screen has
been shown of both; no buffer, no messages, no lines. A sample that is shown is
none older than the one before, and a card that is known was scanned; either may
be missed, and a sample may be shown again.

**ImuNode.** `main`'s loop is cut at every access to a shared variable
(`ReadAxis`, `Load`, `Store`); the handlers are one action each. The angles are
abstracted to what a zero command is about: a value is *fresh* if it was
computed from globals the last zero command had reset, and a zero command makes
the globals fresh and what `main` holds in `reg` not. The compiler may keep the
cumulative angle in a register between its statements or load it again: both are
allowed. The watchdog is modelled as the program leaves it: `task_wdt_init` is
never called, so the timer of the channels has no function to call and
`TimerExpires` changes nothing else. `task_wdt_callback` is therefore no action.

**RfidNode.** `main` is cut at every access to an LED or to the difficulty;
`flash_colour` has ten steps (three off, three on, the sleep, three off). The
callback `received` is one action up to each of its waits: `DifficultyReceived`
(RAM written, the save begins), `DifficultySaved` (the save has returned, the
first flash is on), `RxFlashEnds`. `PowerCycle` may happen at any time after
the difficulty is loaded, and finds a write that was under way completely or
not at all; NVS may fail to mount, and then every save is refused, or a single
save may fail. `unsent` is a history variable: the cards scanned while no
central was connected. *Connected* stands for connected and subscribed.

**Rc522.** Every register access of `rc522_checkCard` is an action: those of
`rc522_toCard` up to its wait loop (`ReadIrq` to `Send`, among them the two halves
of a read-modify-write), the rounds of the loop (`Poll`), and after it `ReadStop`,
`WriteStop`, `ReadError`, `ReadLevel`, `ReadControl` and one `Copy` for each byte;
`Return` is what the callers do with the result. `Get` and `Put` are an access over
wires that may be broken. A byte is the set of its bits, and xor the symmetric
difference: the check byte is computed, not assumed. The chip, the cards (`out` of
the field, `idle`, `ready`) and the wires are external and move between any two
accesses; an answer may be cut short after any byte or be disturbed, two cards may
answer together, a command that was half lost or sent with the wrong framing is
understood by no card, and a wire that breaks loses writes and reads as zeros or
ones, and comes back with the chip as it was or without its configuration
(`reset`), as `rc522_init` runs at boot only. The copy clips the level at 16 and not
at the buffer: `Spill` is the first byte that would be written behind `id`, or behind
the four bytes of `rc522_halt`, and the model ends there. The code writes the
bytes of the timer's reload value in the order that makes it 1.5 s, so that the
count of the loop ends a wait; the timer runs out only as a fault. HLTA is sent
with the framing that is left over. `heard`, `steady`, `flushed` and `misled` are
history variables, and begin anew with each check.

**MakingWaves.** One action per button and per end of a screen. `connecting` is
the loop of the home screen, which handles the rest of the events of its batch
after Connect has lowered the flag: another click on a difficulty is possible
then. Connect starts a thread (`StartsReader`) and waits: `ConnectReturns`,
600 ms later, finds the port open or not. The threads (`port`) are numbered, a
number is used again when its thread has ended, and a port that opens only once
is a case of `PortFails`. The base is taken from its modules in short: `session`
is the variable of `NodeSessions`, which `BaseCentral` implements; commands pass
through a queue and may be lost on the way to a node, as in `BaseLink`; a scan is
told to whoever reads the port, as in `Forwarding`; the node keeps its difficulty
over a restart, as in `RfidNode`. `CablePulled` is the supply of the base.
`earned`, `agreed` and `stray` are history variables: the cards of this visit,
whether the base has taken the difficulty on the screen, and whether the GUI has
let go of a thread that was not done.

## 3. The runs

All figures are distinct states.

| run | cfg | states | shows |
|---|---|---|---|
| `base_central` | BaseCentral | 861 452 | the safety of the connection manager |
| `base_liveness` | BaseLiveness | 28 388 | scanner and connections come back; `NodeSessions` is implemented |
| `base_reboot` | BaseReboot | violation | a node that reboots quickly is never found again |
| `base_link` | BaseLink | 393 917 | discovery, subscription and commands of two links with one slab |
| `forwarding` | Forwarding | 61 529 | samples and scans reach the screen |
| `imu_node` | ImuNode | 20 375 | the sample handshake, and the steering angle |
| `imu_hung` | ImuHung | violation | the watchdog does not reboot a node without a sensor |
| `imu_zero` | ImuZero | violation | a zero command can be overwritten |
| `rfid_node` | RfidNode | 556 672 | LEDs and saved difficulty across overlaps and power cycles |
| `rfid_offline` | RfidOffline | violation | a scan made offline is delivered to nobody |
| `rc522` | Rc522 | 775 673 | whose id is accepted; checks end and find the card |
| `making_waves` | MakingWaves | 758 368 | visits, from the home screen to the voyage and back |

**base_central.** `LinksAreTracked`, `RefsBalance`, `NamesMatchLinks` and
`OneEntryPerPeer` relate the table, which the application owns, to the stack's
objects, which it does not, over every interleaving of two work queues and
`main`. `ChoiceStaysValid` is the check-then-wait of `device_found`.
`FreeEntryHasObject` says that with `CONFIG_BT_MAX_CONN` = `MAX_NODES` the stack
never runs out of objects before the table runs out of entries, so no path leaks
one. `EntriesAreNotStolen` is an action property. `IInv` is the inductive
invariant of section 6, checked before it was proved. Symmetric connection
objects, and the two peripherals with one name are symmetric to each other;
symmetry is used in this run only, which checks no liveness.

**base_liveness.** `FreeEntryIsScannedFor`: once booted, the base scans again
whenever an entry is free. This is not evident: `scan_restart_work` is shared by
three callers, does nothing while the table is full, is not re-armed, and a scan
that starts while the controller initiates is refused. `NodeOnlineIsConnected`:
once links stop breaking, a node that advertises is connected unless the table
is full. Both need the assumptions of section 5 and those of this instance: no
command fails, and a node advertises only after the base has noticed its loss.
Both are needed. `base_reboot` drops the second. Without the first, one
`bt_le_scan_start` that fails ends scanning for good: its error is printed, and
no caller tries again.

**base_link.** `NoCallThroughWipedParams` holds because requests are answered in
order: the second RX discovery begins only after the stage that follows the
first, whatever interleaves and whatever is refused. Its mutant, the discovery
started one stage earlier, breaks it on a lost link. `DiscoveriesTakeTurns` is the
reason said as an invariant: one discovery request is queued at a time and an RX
request has its block, but for the four orders (`StartPairs`) at the beginning of a
link, where `connected()` has started both. `WritesUseOwnHandle`: the handle is
wiped with the entry and found again by the next discovery only, so a thread that
finds one writes to the connection it was discovered on, with its callback in
place, although it may wait for a slab the other link holds while links come and
go. The one exception, an entry wiped between the look-up and the end of
`bt_gatt_write`, is real (section 7).

`LinkIsSetUp`: a link that stays up delivers notifications and can be written to.
It excuses a link of which the stack refused a request. That happens: three
discovery requests of one link leave none for the other, and
`bt_gatt_exchange_mtu` and `bt_gatt_discover` in `connected()` return an error
nobody reads; commands that are not answered yet have the same effect on the
subscription. Without the excuse TLC finds the property violated, with two links
and no command at all. What the run shows is that a refusal, a lost link or a
`fault` is the *only* way in which a link stays without its subscription.

**forwarding.** `NothingIsLostInTime`: while the buffer never overflows, every
sample arrives, once and in order (the GUI steers by the difference of two
samples, so a sample told twice would stop the ship turning), and every scan.
`OneLossSparesScans`: one message overwritten, whichever it is, costs no scan,
because the second telling of a scan never shares a line with a fragment. Two
can cost one. `ForwardsInOrder` is about the rest, any number of losses at any
place: `Forwarding` implements `ScreenFeed`. Halves of two texts may meet on one
line, but what the reader takes from it is never older than what it has, and
never a card nobody scanned. Its mutant, a ring that is read from its first slot
after it has wrapped, turns the samples around.

**imu_node.** `OnePublicationPerRound` is what the flag `print_samples` buys
without a lock. `SteeringCatchesUp` says the two angles agree again after every
zero command. That the *cumulative* angle keeps the zero is false
(`imu_zero`).

**rfid_node.** `LedsOffWhenIdle` is the comment "LEDs always turned off after
flash_colour() completes" for two threads that flash at once. `RamMatchesFlash`:
outside of a save that is under way, has failed, or was impossible, what a boot
would load is what is in force. Deadlock is checked in this run: a node can
always be switched off and on.

**rc522.** `SteadyCheckReadsAnswer`: as long as the wires hold, an id that is
accepted is what a card answered in this check as far as that answer goes, with a
check byte that fits, and nothing is copied behind a buffer. Earlier checks may
have had broken wires and have left anything in the FIFO, the flags, the framing
and `id`. The driver does not look at the length of an answer, so what is behind a
short one is left over from an earlier card, and only the check byte keeps it
apart: an id that is a mix and passes is possible, and TLC reaches it.
`ReportedCardAnswered` is about wires that break between any two accesses, in the
middle of the flush, the command or the copy: `main` reports one of the three known
cards only if a card has answered in this check whose uid begins with the same two
bytes. Bytes of the wire, of the command and of an earlier answer cannot make up
those two, because the bytes of one copy come in order behind each other and the
flush takes what was there before. It has two exceptions, which are what the driver
cannot notice: neither flush of the check reached the chip (`flushed`), or a
disturbed answer came when the error flags had been looked at, or were read over a
wire stuck at zeros, or are not set for it (`misled`). An *unknown* id can be
accepted on account of a wire alone, and is reported as an unknown card.
`CheckReturns`: the wait loop ends with a reader that is not there.
`CardIsReported`: a card alone on a working reader is reported again and again,
although HLTA only sends it back to idle, whatever earlier checks have left.
Deadlock is not checked, and both liveness properties end, where a byte was written
behind a buffer.

**making_waves.** `VoyageIsEarned`: the cards of the visitor before do not start
the next voyage. `ScreenAgreesWithNode`: once the base has taken the difficulty
of the screen, the last difficulty among its commands, or the one in the node,
is that one; a command of an earlier visit cannot come after it.
`OneReaderPerPort`: a thread that lives is that of the GUI, unless the GUI has
dropped one that was not done, by disconnecting at sea, by a second Connect or by
Home before the port was open (`stray`). `DifficultyArrives`: a difficulty the
base has taken reaches the node, unless link, cable or visitor put an end to it.
`VoyageBegins`: a visitor who holds the cards to a reader that works gets to sea.
The excuses in these properties are limits of the GUI worth knowing: it sends
the difficulty once and shows nothing when it is lost; it does not connect again
on the card screen; and a stray thread eats lines of the next reader.

Every property of a passing run has a mutant beside the operator it changes: a
change of one operator the way a bug would (a NULL test forgotten, a reset
forgotten, a reference given back twice, a stage too early), under which the
same run finds the property violated.

## 4. Bounds

| constant | value | the code | why it is enough |
|---|---|---|---|
| `MaxNodes`, `Conns` | 2 | `MAX_NODES` 2, `CONFIG_BT_MAX_CONN` 2 | the values of the build |
| `Peers` | 3, or 2 | any number of devices | 3 compete for 2 entries and two share a name; 2 is the exhibit, for liveness |
| `MaxFaults` (base) | 1, or 0 | unbounded | each path after an error is reached once; the theorems hold for every value |
| `ReqSlots` | 3 | `CONFIG_BT_ATT_TX_COUNT` 3 | the value of the build, for both links together; proved for every value |
| `RxRounds` | 2 | depends on the node's attributes and the MTU | both `BT_GATT_ITER_CONTINUE` and the hit happen; why 2: below |
| `QueueSize` | 1 | `MSG_QUEUE_SIZE` 8 | full and empty are reached; the queue holds no order a property sees |
| `MaxLinks` | 3 | unbounded | two links at a time, and one entry used again while the other link is up; proved for every number |
| `MaxLines` | 2 | unbounded | a command that is not answered and one that waits for the slab; the safety is proved for every number, and with three lines TLC finds all properties to hold (978 000 states) |
| `Axes` | 6 | six sensor values | exact |
| `LogEvery` | 2 | `LOG_EVERY_N_SAMPLES` 5 | a round with and one without a report |
| `WdtRounds` | 3 | 500 rounds of 10 ms | the timer may or may not expire before a sample comes |
| `MaxFaults` (nodes) | 1 | unbounded | each error path is taken; proved for every value |
| `Scans` | 4, or 1 | 3 known cards and any other | exact; one is enough for a violation |
| `LogSize` | 5 | 1024 bytes | less than two notifications, so any message can be the one overwritten |
| `MaxSamples`, `MaxScans`, `MaxOthers` | 3, 2, 1 | unbounded | a text can come before, between and after others, and overflow twice over |
| `Tags` | 2 | any card | collide, and leave bytes for each other; these two share two bytes; the safety is proved for every set |
| `Junk` | 2 | any bytes | noise that is an answer to REQA, and noise that is a known card; proved for all noise of at most five bytes, as nothing a card sends is longer |
| `Polls` | 2 | 100 | an answer before, at and after the last poll; proved for every number |
| `MaxFaults` (driver) | 1 | unbounded | one at every access, and a wire that breaks comes back; the safety holds with 2 as well (33 million states) and is proved for every value |
| `Levels` | 2 | 3 difficulties | two differ; the difficulty a visit starts with is among them |
| `QueueSize` (exhibit) | 2 | `MSG_QUEUE_SIZE` 8 | order and overflow; proved for every size |
| `MaxReaders` | 2 | unbounded | the reader of the GUI and one that lives on; proved for every number |

`RxRounds` is 2 because of the MTU exchange, which `connected()` queues first: with
`CONFIG_BT_L2CAP_TX_MTU` = 247 the response to the first read-by-type request has
every characteristic with a 16-bit UUID, and the second, with 128-bit UUIDs, both
of the NUS service. With the default MTU of 23 a response holds a few entries
only, and there would be more rounds. That matters: TLC finds both
`NoCallThroughWipedParams` and `DiscoveriesTakeTurns` violated for three rounds,
and neither for two.
The code rests on an exchange whose failure it only logs (`mtu_exchange_cb`).

`published` in `ImuNode` counts to 2, which is "more than one".

## 5. Fairness

*BaseCentral.* Weak fairness for: `main`; each return of a wait in the receive
queue and in the system queue (the stack bounds every command by a time-out);
the callbacks and the work item, which sit in queues of threads that are never
starved, since both are cooperative and above the preemptible threads; the end
of each connection attempt (it has a time-out); hearing a peripheral that keeps
advertising while the base scans. Strong fairness for two external things: of
the attempts to reach a peripheral that is there, not every one fails, and a
link whose peripheral advertises again is dead and noticed by its supervision
time-out although the receive queue is busy again and again. Nothing obliges a
peripheral to advertise, to leave, or a healthy link to break.

*BaseLink.* For each link, weak fairness of its callbacks, that is of the answers to
its requests while it is up, and of `disconnected`; weak fairness of the UART
thread, whose wait for a request the stack bounds. Lines, connections and losses
are not forced.

*ImuNode.* Weak fairness of `main`, of the timer, of the end of the 250 ms flash
and of the delayed restart of advertising. Neither the sensor nor a central is
obliged to anything.

*Rc522.* Weak fairness of the driver, which `main` runs. A card that is asked
again and again answers again and again before the last poll (strong, since each
check asks anew, and since the code itself looks no later): 100 polls over SPI
take longer than the answer of a card. Cards, wires and timer owe nothing.

*Forwarding.* Safety only: what is printed is written when the log thread runs,
and the properties look at the moments when the buffer is empty. Deadlock is not
checked in this run, since the base falls silent when the nodes do.

*MakingWaves.* Weak fairness of the loop of each screen, of the UART thread of
the base, and of each card that lies on the reader (scanned while it lies there).
No button is pressed of necessity, and no port opens, no session holds.

*RfidNode.* `rfid_node` checks safety only. `rfid_offline` has weak fairness for
`main`, the callback and advertising, and is conditional on a power supply that
settles, so that its violation is not due to a node switched off for ever.

## 6. What is proved

For every set of peripherals, table size, number of connection objects and of
faults, every number of axes, rounds and so on. The assumptions are the named
`ASSUME`s of the modules: sizes are natural numbers, and positive where the code
needs one; "no peer", "no connection" and "no name" are none of the others.

| theorem | states |
|---|---|
| `BaseInductive` | `Spec => []IInv` |
| `BaseTypeCorrect`, `BaseLinksAreTracked`, `BaseRefsBalance`, `BaseNamesMatchLinks`, `BaseOneEntryPerPeer`, `BaseChoiceStaysValid` | the invariants of `base_central` of these names |
| `BaseEntriesAreNotStolen` | the action property |
| `BaseImplementsSessions` | `BaseCentral` implements `NodeSessions` |
| `BaseFreeEntryHasObject` | the invariant, if there are at least as many objects as entries |
| `WritesGoToOwnHandle`, `LinkTypesHold` | `WritesUseOwnHandle`, `LinkTypeOK` |
| `DiscoveriesInTurn`, `DiscoveriesDoNotCollide` | `DiscoveriesTakeTurns`, `NoCallThroughWipedParams`, if `RxRounds <= 2` |
| `ForwardingTypesHold`, `NothingIsLost`, `OneLossCostsNoScan` | the invariants of `forwarding` |
| `ForwardingImplementsFeed` | `Forwarding` implements `ScreenFeed` |
| `ImuInductive`, `ImuTypeCorrect`, `ImuOnePublicationPerRound` | the sample handshake |
| `RfidInductive`, `RfidTypeCorrect`, `RfidLedsOffWhenIdle`, `RfidRamMatchesFlash` | the LEDs and the saved difficulty |
| `RcInvariant` | `Spec => []RcIInv` |
| `RcTypesHold`, `SteadyChecksReadAnswers`, `ReportedCardsAnswered` | `RcTypeOK`, `SteadyCheckReadsAnswer`, `ReportedCardAnswered` |
| `WavesTypesHold`, `VoyagesAreEarned`, `ScreenAndNodeAgree`, `OneReaderHolds` | the safety of `making_waves` |

**BaseCentral.** None of its properties is inductive alone: that a chosen entry
is still free depends on who may fill entries, and the balance of references on
which object is being created. `IInv` is their conjunction with `RxConsistent`,
which ties the counter of the receive thread to the entry and to the object it is
working on. The argument is that entries are filled only by the receive thread,
one at a time, and emptied only for a connection that has ended, so nothing can
take the chosen entry between the choice and the use; other actions either touch
none of this (`Bystander`) or move one object one step. There is a lemma for
each action, and `NextIInv` puts them together.

**Refinement.** `BaseSessionsProofs` shows that each step of `BaseCentral` is a
step of one session or a stutter. `OneEntryPerPeer` makes the entry of a
peripheral unique and so the mapping a function of it; the guard of `Open`, that
fewer than `Capacity` sessions are active, comes from the free entry: active
sessions inject into the entries in use (`FreeEntryLeavesRoom`).
`BaseFreeEntryHasObject` counts in the same way: while the receive thread is not
creating or dropping an object, each object in use is in the table.

**BaseLink.** The invariant (`LinkIInv`) follows the handle. In an entry it is 0 or
that of the present connection, as the memset wipes it with the connection's number;
in the UART thread it is that of the entry's present connection, unless the thread
is `torn`, which is exactly when the entry was wiped since the look-up; from
`handle_set` on it is in `write_params`, and a queued write that is not stray finds
`func` set there. Two links and the thread share one slab, so the invariant carries
its sum, too (`CallbackLeavesRoom`, `SlabSum`): a callback may queue only what the
waiting thread leaves. A reconnect with a thread that waits or was preempted is an
ordinary case of `ClearKeepsIInv` and `UartKeepsIInv`, and no assumption orders them.

*The two discoveries.* That no callback meets a wiped block is not inductive: it
depends on what else is in the queue. `DiscoveriesTakeTurns`, with the invariant
above, is. An answer takes the only discovery request away, and a callback queues
at most one in its place, or after the CCC descriptor the subscription and one RX
request in a block it has just filled (`CallbacksTakeTurns`); a refusal queues less,
which is never worse (`FewerInTurn`). Writes are queued between them and are no
discovery. At the start of a link there are two, in one of four orders
(`PairsOfStart`), and the RX discovery, of two rounds, is over when the CCC
descriptor is found. With more rounds it is not: the hypothesis of the two
theorems is what TLC finds to be needed (section 4).

**Forwarding.** The invariant, `Forwarded`, says what is on its way, in the buffer
and in the unfinished line, and its parts are true of more and more losses:

- `FwIInv`: only a sample leaves its line open, and a card has a line of its own.
- `SamplesInOrder` and `CardsWereRead`, whatever is lost: the numbers of the
  samples in what the reader has, the line and the buffer never go down, and no
  card is there that was not scanned. Dropping the head of the buffer keeps both,
  and they give the refinement.
- `ScansWait`: a scan the screen does not know is in the buffer on two messages
  in a row as long as nothing is lost, and after one loss at least on one that
  begins a line. For the second of two messages this holds because the first
  ends its line; the first may follow a fragment only if the message behind that
  fragment is the one lost.
- `SpoiltLinesEnd` and `SamplesWait`, while nothing is lost: a half line is ended by
  the message behind it, with an object, so that the reader refuses both; and
  there is exactly one message that begins and ends its line for each sample
  yet to come.

What every action has in common is in two lemmas: `LoggedKeepsTheEnd` (after a
notification the buffer is the end of the old one and the new texts, and what is
missing is counted in `overwritten`) and `ReaderSteps` (the four outcomes for one
message of the log thread). `LinesMoveUp` and `TextsJoin` say which messages begin a
line after it.

**ImuNode.** `published <= 1` becomes inductive with "an open request has not
been served in this round".

**RfidNode.** `LedsOffWhenIdle` speaks of the states in which nobody flashes.
The invariant has to account for each LED in all the others (`LedsAccounted`):
one that is on belongs to the flash of the callback, or `main` has not yet come
to the step that switches it off, or it is the red light of a failed reader. The
step of `main` that switches an LED on is always followed by its own step that
switches it off, so it does not matter that the callback switches the same LEDs
in between.

**Rc522.** `RcIInv` has three parts. `TypeIInv` is types with the counters of the
loops. `SteadyIInv` is what a check has got to while its wires hold: the driver has
sent what it meant to send and the framing is right (`SteadyFramed`), so the FIFO
after an answer is that answer and no more than an id, and what has been copied of it
is in `id` (`SteadyAnswer`); the flush of each command is what makes this
independent of the check before. `HeardIInv` holds with broken wires, too. While an
answer is due, a FIFO that was flushed in this check holds nothing but bytes of the
driver (`OnlySent`). Its first two bytes, and with them the first two that are
copied, then belong together (`FifoGenuine`): they are bytes of the protocol,
or the first two of one answer; a copy that breaks off, or reads zeros and ones for
some bytes, replaces bytes of `id` by those of `Protocol` (`FirstCopied`,
`TwoCopied`). No known uid begins with one of these (`TagAssumption`, which TLC
checks for the three), so the two bytes of a known card come from an answer
(`StatusGenuine`). Nothing is assumed about other cards: that the bytes of visitors'
cards do not mix is neither true nor needed.

**MakingWaves.** `VoyageIsEarned` becomes inductive with "the cards in the reader
are among those earned", which holds because Home and Connect drop both
together. `ScreenAgreesWithNode` needs that the queue is first in, first out: the
last difficulty stays last when the head is taken, and is the node's when none
is left. `OneReaderPerPort` follows from the threads the GUI starts and drops.

**Model-checked only.** Every liveness property, since fairness and ENABLED are
outside of what the provers do. No safety property of a passing run is without
its theorem; that the bound of the type invariants is met and that each action is
taken is what the runs add to the theorems.

## 7. What the runs found

1. **`base_reboot`.** A node that restarts and advertises while the base still
   holds its dead link is reported once, ignored because its address is in the
   table, and hidden by the duplicate filter from then on. While the other
   entry is free the scan goes on; the one that `disconnected` schedules finds
   it running (`-EALREADY`) and does not reset the filter.
2. **`imu_hung`.** A channel is added to the task watchdog and fed, but
   `task_wdt_init` is not called; the link map lists it as discarded. With it,
   the rule for feeding would still need a change: it looks at the last values
   received, which a hung sensor leaves in place.
3. **`imu_zero`.** A zero command between the load and the store of the
   cumulative angle is overwritten.
4. **`rfid_offline`.** The document promises delivery of scans collected while
   offline; the scan is sent once and kept nowhere.

Two things the runs reach that no document speaks of, so that they are not listed
as violations:

- *A command in the middle of a disconnect* (`BaseLink`). `nus_send_to_node` is not
  protected against `disconnected()`. A thread that waits for a request, up to 30 s, may
  find the entry taken by the next connection; its command then goes to another
  node, or with an old handle, or the stack calls the NULL that the memset has left
  in `write_params.func`.
- *A copy past the end of* `id` (`Rc522`). A wire stuck at ones when the level is read
  makes `rc522_toCard` copy 16 bytes into five, and into four in `rc522_halt`.

Other differences between documents and code met on the way, about data that
the models abstract: the colours of the three known cards
(`02RFID/src/main.c:108-112` against paragraphs 57-63 of
`00 Docs/making_waves_documentation.docx`), the colours that show a difficulty
(paragraphs 79-83 against yellow; yellow and green; yellow, green and purple),
and two JSON objects on one line of the base (`00base/src/main.c:357,367`).

## 8. Not modelled, and why

- *Arithmetic of the filter* (floating point): no integer abstraction of it says
  something a property is about, except the reset, which is modelled.
- *Text*: JSON, log lines, names as strings. A name or a command is a value.
- *Time*: delays are "later", and no guard of a model rests on one.
- *The state machine's second state* of the base, `STATE_SNIFFER`: nothing
  enters it, and the thread that would run it is commented out.
- *Two nodes with one name in `nus_send_to_node`*: the first entry wins. It is
  listed as a hazard; no document says how many nodes of a name there may be.
- *The driver's set-up*: `rc522_init` is the initial state of `Rc522`. The CRC of HLTA
  is two steps with its right value (a card does not answer HLTA, and leaves the
  ready state for anything it does not understand). What lies behind `id` in
  memory is not modelled: a check that writes there ends the behaviour.
  `rc522_detect_card` has no caller.
- *Freed connection objects*: the UART thread may hold the object of a lost link. Since
  entries and objects are taken and given back together (`BaseCentral`), it is the
  object of the entry's next link.
- *The rest of the GUI*: the physics and the drawing of ship and obstacles, with
  the steering delta that stays in force; the choice of a port; the raw log.
- *Dead code*: `task_wdt_callback`, `lib/heartbeat`, the tmp36 driver.
- *Generated code*: the `build/` trees, read for the configuration.

## 9. What is left

`RfidNode` composed with `Rc522` in place of the input `Scans`: it would add the
red light of a reader that fails in the middle of a check, and nothing to the
properties of either. The game of the GUI, whose frame loop and physics are
floating point.

## Running

`tlc -config BaseCentral.cfg MCBaseCentral` checks one run (modules and
configurations are paired in `PROJECT.json`), `tlapm BaseCentralProofs.tla` the
proofs of one module.
