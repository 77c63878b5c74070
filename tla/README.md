# A formal model of iotsploit-usb

TLA+ modules, TLC configurations and TLAPS proofs for the iotsploit-usb firmware
component, its transport glue and the data plane beside it. Paths below are relative to the
repository. Every definition is translated from the source; `PROJECT.json` maps each one to
the lines it stands for.

## 1. The system

A device embeds a *component core* (`src/usbscpi.c`) that turns a byte stream from a host into
SCPI commands, executed by the vendored parser `third_party/libscpi`, and into *binary
blocks* (`DATA:WRITE #<n><len><payload>`), which bypass libscpi and go straight to callbacks of
the application. A *glue* connects the core to one transport: USBTMC over TinyUSB, a TCP
socket, or BLE over NimBLE. High-rate captures do not pass the core: a producer thread pushes
fixed-stride records into a lock-free *ring*, and the *stream glue* drains it to a TCP consumer.
A Rust *host library* speaks the other end of all of these.

### 1.1 Inventory

**Component core** (`src/usbscpi.c`). State: the text line collected so far (`line_buf`,
`line_len`), the parser mode (text, block digits, block length, block payload), the block
header's counters, `block_started`, libscpi's context with its error queue, and a lock the
application supplies. Operations: `usbscpi_init`, `usbscpi_register`, `usbscpi_on_rx` (one
call for each receive buffer), `usbscpi_clear`, `usbscpi_queue_error`, and the built-in
commands (`DATA:READ?`, `DATA:FREE?`, `WORKflow...?`, `SYSTem:DESCriptor?`). Hard: receive
buffers cut messages and blocks anywhere; callbacks fail in the middle of a block; an error
resets the parser while the rest of the failed message is still to come. Correct when no buffer
is overrun, when the application sees each block begin, its bytes and its end exactly as
announced, when every command is executed once and in order wherever the stream is cut, when a
failure is readable by the host, and when every call returns.

**libscpi** (vendored). State: its input buffer and the error queue. The core hands it one
line at a time. Hard: it does not execute a line whose newline lies inside an inline arbitrary
block, but keeps it and waits for more; its error queue replaces the newest entry when full.

**Ring buffer** (`helpers/ring_buffer.c`). State: storage and two free-running indices, `head`
written by the producer only and `tail` by the consumer only. Operations: count, free, write,
read, peek_linear, advance. Hard: each side's copy of the other's index is stale by the time
it is used, payload accesses may be reordered up to the release store, and the indices wrap at
the width of `size_t`. Correct when it is a FIFO of bytes, when it neither overruns nor
underruns, and when the two threads never touch one slot at a time.

**TCP SCPI glue** (`glue/usbscpi_socket.c`). One client at a time; `recv()` into `usbscpi_on_rx`
with no end-of-message; `usbscpi_clear` when the client goes. Hard: a client may die after any byte.
Correct when each session executes exactly what its own client sent.

**Data plane glue** (`glue/usbscpi_stream.c`). State: `s_attached`, `s_torn`, and in
`serve_consumer` what it waits for. Operations: accept, poll, drain, realign, detach. Hard: a
consumer stalls in the middle of a record, closes while the stream is idle, or vanishes; the
producer must never block. Correct when every consumer gets whole records in order with the
losses stamped in them, when a torn record is counted before the detach is visible, when a gone
consumer does not keep the next one out, and when a consumer that reads is never left waiting.

**TinyUSB glue** (`glue/usbscpi_tinyusb.c`). One response buffer, its length, the bytes sent,
the bytes in flight, and the status byte. TinyUSB calls it for each OUT and IN transfer and when
the host clears an endpoint. Hard: the host may give up on an exchange at any point, and a reply
takes several IN transfers. Correct, together with the host's `usbtmc_raw.rs`, when each
read returns its own command's whole reply or an error, and no exchange gets stuck.

**NimBLE glue** (`glue/usbscpi_nimble.c`). Host task and worker task, a bounded queue of
128-byte items tagged with a session number, a semaphore, security state; no lock. Hard: links
drop and come back, on the same handle, between any two steps of the worker; the stack
runs out of buffers. Correct when no command or reply mixes two links, when only
bonded links are served, and when the worker is never stranded.

**CAN example** (`examples/can/main.c`). The producer thread of the data plane, `OPEN`, `CLOSe`,
`FILTer`, `SEND`, `STARt` and `STOP` commands beside it, and a mutex round the socket's
descriptor. Hard: the descriptor is closed, or means another socket, between the producer's read of it and its
`recvmsg`; the loss counter is cumulative per socket. Correct when no socket leaks, when STOP
stops, when START starts, and when the drop count is what was lost.

**STM32 SocketCAN application** (`examples/stm32f4disco-socketcan/main.c`,
`examples/stm32f4disco/can_stream.h`). Two CAN controllers, each owned by nobody, by SCPI or by the
host's `gs_usb` driver; three transmit mailboxes each with the echo of the frame in them; rings
filled by the receive interrupts; a capture of records to a vendor interface. One main loop:
USB events, capture pump, `gs_poll`. Hard: the interrupts come between any two steps;
bus resets and unplugging come in the middle of anything; the driver reopens a channel while
frames of its earlier life are still on their way. Correct when the owner of a controller is one
that may use it, when every echo the driver waits for comes and none comes before the frame was on the bus,
and when every captured frame is delivered or counted lost.

**ESP32 Wi-Fi component** (`examples/components/wlan`). A job with a phase, a result the host
polls, a deadline, and the credentials of the attempt, under one mutex. SCPI commands, the
event loop, the timer and the driver act on it. Hard: the driver's events are queued and may
belong to an earlier connection; any call may fail. Correct when the host reads the
truth, a STOP sticks, old events do not leak into a new attempt, and every attempt ends.

**ESP32-S3 application** (`examples/esp32s3/main`). A scanner (`ble_scan.c`) whose one discovery a
timed scan and an endless RSSI stream share, a result table the host task fills; a connection
with pairing (`ble_conn.c`); and the words the host polls. Two SCPI contexts (USB and
TCP) run commands on tasks of their own, beside the NimBLE host task's callbacks, with no lock.
Hard: all of it is unsynchronised. Correct when the table has no duplicates and is never overrun,
when no discovery outlives the stream's STOP, and when links, attempts and prompts reported exist.

**nRF52840 application** (`examples/nrf52840`). Central (`ble_scan_handler.c`,
`ble_conn_handler.c`) and peripheral (`ble_periph_handler.c`) with one SoftDevice below, whose
events preempt the main thread anywhere; `main.c` has the automatic workflow. Hard: one
handle space for two roles; every command is several writes an event may split. Correct when the
roles never take each other's link, when what the host reads is so, when no half-written key is
offered to a bonded peer, and when jobs end.

**Other applications** (`examples/`): a POSIX daemon, GPIO (RP2040), the STM32 board without the
Linux driver's side, a radio sniffer, two test peers.

**Host library** (`host/rust`). `transport/` (USBTMC raw and kernel, TCP, BLE); `session.rs`: query,
`send_checked`, `drain_errors`; `workflow.rs`: trigger, poll, prompt, results; `dataplane.rs`:
records with gap tracking; the command-line tool. Hard: a query that times out over TCP leaves
its answer on the wire; an error queued earlier is drained after a trigger and taken for its
refusal; a job left over from an earlier invocation looks like one's own. Correct when every reply
is paired with its request, when what the user is told is about the user's own run, and when a
workflow ends.

### 1.2 How the parts interact

    host client --bytes--> TCP/USBTMC/BLE glue --usbscpi_on_rx--> core --feed_line--> libscpi
                                                                  core --on_block_*--> application
    host client <--bytes-- glue <--usb_tx-- core / libscpi results
    capture thread --write--> ring --peek/advance--> stream glue --send--> TCP consumer

`usbscpi_on_rx`, `usbscpi_clear` and `usbscpi_queue_error` exclude each other by the context
lock. The ring is the only state the capture thread and the stream server share besides the two
counters. The applications' jobs are driven by the host's workflows: a trigger, a state word to
poll, an optional prompt, and queries for results (`HostSession` against `WifiSta`, `NrfBle`, `EspBle`).

## 2. The modules

| module | models | composes |
|---|---|---|
| `UsbScpi` | the receive path of the core with what it uses of libscpi | |
| `DataRead` | how much a `DATA:READ?` takes from its source and what its reply is made of | |
| `CoreQueries` | the core's command table, the pages of `HELP:HEADers?` and the host that turns them, the size of the descriptor | `DataRead` |
| `ScpiServer` | the core behind the TCP glue, with clients | `UsbScpi` |
| `Fifo` | what a byte queue promises (abstract) | |
| `Ring` | the ring between two threads, one memory access at a time | refines `Fifo` |
| `Stream` | capture thread, data plane glue, network, and the host's record reader and gap tracker | |
| `Usbtmc` | the TinyUSB glue and the host's raw USBTMC transport | `DataRead` |
| `Nimble` | the NimBLE glue's host task and worker, links and peers | |
| `CanCapture` | SCPI thread and producer thread of the CAN daemon, and the kernel's sockets | |
| `CanStream` | the capture of the STM32 boards | |
| `GsUsb` | the SocketCAN application: controllers, main loop, interrupts, host driver | `CanStream` |
| `WifiSta` | the Wi-Fi station job with the driver's event queue | |
| `NimbleGap` | what the ESP32-S3 application sees of the NimBLE host (external) | |
| `EspScan`, `EspConn` | its scanner; its connection and pairing | `NimbleGap` |
| `EspBle` | both, with two command tasks and the automatic workflow | `EspScan`, `EspConn` |
| `SoftDevice` | what the nRF52840 application sees of the SoftDevice (external) | |
| `NrfCentral`, `NrfPeriph` | its two roles | `SoftDevice` |
| `NrfBle` | both on one main thread, preempted by events | `NrfCentral`, `NrfPeriph` |
| `HostSession` | the host tool: invocations, sessions, workflows, and a device that answers | |
| `MCUsbScpi`, `MCScpiServer`, `MCUsbtmc`, `MCEsp` | receive buffers, client messages, replies and symmetry for TLC | |
| `UsbtmcProofs`, `EspProofs`, `HostProofs` | TLAPS proofs about the component each is named for | |
| `UsbScpiProofs` | proofs about `UsbScpi`, `ScpiServer`, `DataRead` and `CoreQueries` | |
| `CanProofs` | TLAPS proofs about `CanCapture` and `GsUsb` | |
| `DataPlaneProofs` | proofs about `Ring` and `Stream` | |
| `RadioProofs` | proofs about `WifiSta` and `Nimble` | |
| `NrfProofs` | proofs about `NrfBle` | |

The modules without an MC module take all their constants from the configuration itself.

### 2.1 UsbScpi

A call of `usbscpi_on_rx` is `OnRxEnter`, one action for each iteration of its loop
(`Iterate`), and `OnRxReturn`, which flushes a line the transport ended by its end-of-message
flag and resets the parser after a failure. Each branch and each early exit of the loop is an
action of its own (`TextBlockStart`, `TextOverflow`, `BlockRefused`, `PayloadDataFails`...).
The lock makes a call atomic for other callers; the steps are kept because the properties
speak of states inside the loop, and because `CallReturns` is about the loop.

Data are abstract: a byte is the class the code distinguishes, with a digit's value, and a tag
that the code never reads and the properties use to say whose byte it was. The prefix
`DATA:WRITE ` is one byte, and so is `SYST:ERR?`; every other command is a sequence of `char`
bytes that may succeed or fail. `blk` and `log` are what the application saw.
`Scan` is the one pass over a line that decides whether a `;` separates commands; libscpi's
lexer makes the same pass, and `Terminated` uses it for the newline.

`DataRead` has no state: `BlockFit` is `block_fit`'s loop, whose second pass always settles (a
theorem, so that two passes need no recursion), and `BlockPieces` what libscpi hands the
transport for a block, which `Usbtmc` uses for its `DATA:READ?` replies. Two things worth knowing of
it: with an `mtu` of 5 and 123 bytes wanted it takes nothing though one byte would fit, and it
counts its own reply only, so in a compound line (`A?;DATA:READ? n`) the whole may exceed `mtu`.

`CoreQueries` has no state either: the command table after `usbscpi_init` and `usbscpi_register`, the walk
over it, a page of `SYSTem:HELP:HEADers?` with its `uint32_t` arithmetic, one step of the host's
`fetch_paged`, and the pieces `emit_descriptor` prints until one does not fit. A command is its pattern, a
text the widths of its pieces. `MCUsbScpi` evaluates named assumptions about them over small tables
(`TablesEnd`, `PagesMakeTheListing`, `DescriptionIsWhole`), and section 4 proves the first two in general.

### 2.2 ScpiServer

`Accept`, `Recv`, `Hangup` of the glue round the actions of `UsbScpi`. A client picks a script of
messages and lives to send the first `sent` bytes of it; `wire` holds what `recv` has not returned
of them, and `Recv` cuts it anywhere up to the receive buffer's
size. `faulted` says that the stream failed
(an overflow, a refused block, a failing callback), after which the host cannot expect the rest
of its script to be executed; a command that only fails is no fault.

A script is a record: its bytes, what they mean (the commands and blocks, in order) and how they
divide into pieces. A piece is a program message unit, some text, then carriage returns, then a
newline or semicolon, or it is the whole upload of a block. The assumption `ScriptsFit` says which scripts a
client may rely on: a unit fits libscpi's buffer and its lines the line buffer (`UnitFits`), a header announces
the bytes that follow it (`UploadFits`), and `means` is what the pieces say (`Meaning`). Whether a
newline or a semicolon inside a unit is text or an end depends on quotes and inline blocks, which
`ScriptsFit` takes from the core's own scan (`Scan`, `LineSeparator`): that the scan reads the language right is not
at issue here. What is at issue is that a state machine that keeps only a line, a few counters and
libscpi's residue, and sees the stream in arbitrary parts, finds the same units as one look
at the whole. TLC evaluates the assumption for the scripts of the run. One limit of it: a carriage
return belongs before a terminator, since the core drops it wherever else it stands.

### 2.3 Fifo, Ring

`Fifo` is a queue to which a write appends and from which a read takes. In `Ring` each call
begins with its acquire load and the clamp to what is free or queued, then accesses slots in
any order (the hardware and the compiler may reorder them), and ends in the release store.
`Queue == INSTANCE Fifo` maps the queue to the bytes between `tail` and `head`.

### 2.4 Stream

The producer stamps, checks the free space and pushes or drops in separate steps. The server
thread accepts, polls, drains, realigns, counts, detaches and closes in separate steps, each
at most one access to shared state. The network holds up to `SockCap` bytes; a consumer reads,
closes, vanishes or is reset; TCP keepalive turns a vanished peer into a reset one. The ring is
an atomic byte queue here, which `Ring` justifies. The consumer is the host's
`DataPlane::next_record` with its `GapTracker`: it cuts the bytes into records and says
how many were lost between two of them; the properties compare that with what was.

### 2.5 Usbtmc

Both ends of one USBTMC interface. The host writes a command in one or more bulk-OUT transfers,
requests the reply in chunks until EOM (`Write`, `Request`, `Receive`), may time out at any point
and then clears both endpoints, OUT first (`Timeout`, `ClearOut`, `ClearIn`, which run the
device's callbacks), may be restarted (`HostRestart`, `Open`), and may read without having asked. The device side
is TinyUSB's class driver, external, as far as the glue relies on it, and the glue's callbacks, which one
thread runs. The core is reduced to gathering the parts of a command, to which `UsbScpi`
is the detail; an answer is given by where its pieces end, since libscpi hands them to the glue one by one. `outcome`
holds what the last read returned beside what it was due: the reply of the command just written.

### 2.6 Nimble

One action for each callback of the host task (`Connect`, `Disconnect`, encryption change,
`check_security`, `rx_access`, subscribe, notify-complete) and, for the worker, one for each
step between two accesses to what they share: taking an item, clearing for a new session, reading
`s_conn`, checking the session, notifying, waiting for room. Links reuse one handle, as controllers do; a
command is a run of numbered parts.

### 2.7 CanCapture

Descriptors are small numbers the kernel gives out again, lowest first; a socket lives while a
call is inside it. `cmd_can_open` is `Open`, `Swap` under the lock and `ForgetOvfl` after it;
the producer's loop is cut at each access to what both threads use. Frames are those the
socket's filters let through, so `CAN:FILTer:ADD` has no action. A frame carries the losses its socket had when
it arrived, if there were any (SO_RXQ_OVFL).

### 2.8 WifiSta

Commands, handlers and the timer are atomic under `s_mutex`. The driver (external) runs ahead of
them: it changes state and posts events to a queue the event loop takes from, so a handler
sees the driver as it was. Every `esp_wifi_*` call may fail. `finish`, `begin_connect` and
`disconnect_for` are operators the handlers share, as in the code. Of time, only whether the
deadline has passed matters. `net` is the network the driver is on, which the code never sees and the
properties compare with what was asked. The lost-IP timer of the network interface is why a `LOST_IP`
may arrive long after the lease was lost.

### 2.9 CanStream, GsUsb

`loop` says where the main loop is: USB events, the capture's pump, the poll of transmit
mailboxes, an echo or a received frame on its way in, the frame the host sent. Commands and
control requests are USB events. A receive interrupt, or a frame leaving a mailbox for the bus, may come
between any two. `up` and `slots` are the Linux driver: which channels it opened and which of its
echo contexts are in use. `gs_poll` scans channels and mailboxes in a fixed order; the model takes any
that is due, so nothing relies on the order. `CleanReopen` states the one thing assumed of the driver and the USB
host controller: a channel is opened again once none of its old frames is still in a FIFO. A
record of the capture is reduced to the plug-in it was captured in, since whose it is
is all the accounting needs.

### 2.10 NimbleGap, EspScan, EspConn, EspBle

Every access to a shared variable that another task may interleave with is a step of its own: `spc`
and `cpc` say where each context is in a command, `step` where `store_device` is, `cb` in which
callback the host task is. The NimBLE host changes its own state first and calls back afterwards;
between the two, commands run. The table is its rows and a separate count, as in the code, because
the count is reset by a command while the host task searches. `BLE:DISConnect` has no action: a
link may be lost at any time, and the application hears the same event.

`ConnectStateWord` is the answer to `BLE:CONNect:STATe?`, read at one moment, from the state of the
connection, that of the pairing, and whether the job is one that pairs (`connPair`); `SecFails` and
`SecLevel` are the answer to `BLE:SEC?`, the result of the workflow. `ConnectionIsTrue` says of the
variables, and of these answers, that an attempt, a link, a waiting pairing or an encrypted link
(`secured`) is behind them.

### 2.11 SoftDevice, NrfCentral, NrfPeriph, NrfBle

An event is dispatched to both roles' handlers in one step, since nothing preempts the interrupt; a
command is the steps `pc` (central) or `ppc` (peripheral) goes through. `links` says which
role the SoftDevice gave each handle to, `smp` how far each link's pairing is, `keyBuf` how much of
the keyset it has written. `LostWhileDropped` allows a link to be lost by itself in the few
microseconds between the SoftDevice's acceptance of a disconnect and the command's next
statement; the run excludes that, and says nothing about it: with it a restart may
wait for an event that is gone and a half-written key may be offered.

What the host can ask is an operator over this state, since its answer is what it acts on: the words
of `CONNect`, `CPAIR`, `AUTO` and `PERiph` (`ConnectWord`, `PairWord`, `AutoWord`, `PeriphWord`), the level of
a link (`SecInfo`, `PeriphSecInfo`, which is refused while no peer is known, `havePeer`) and whether there
is a passkey to show. `StatusIsTrue` speaks of these words between two commands, and not of the variables.

### 2.12 HostSession

An invocation is a session with a workflow (`*CLS` and trigger, the check that it was accepted,
polls, prompts, results, errors) or lines a user types. `wire` and `back` are requests and replies
on their way; a reply remembers the invocation and whether anyone still waits for it, which the
properties use. The device executes one message at a time, with an error queue and one
job whose state word it may change at any point. Over TCP a new session is a new connection; over
USBTMC the device cannot tell. Reads time out at any point.

## 3. The runs

| run | asks (its properties) | bounds |
|---|---|---|
| `receive` | buffers never overrun (`BuffersInBounds`), blocks as announced (`BlocksKept`), failures readable (`FailureIsQueued`), `CallReturns`, for any sequence of receive buffers, clears and failing callbacks | line buffer 3, libscpi buffer 6, blocks up to 2 bytes, error queue 1, one logged effect before the last call |
| `server` | commands and uploads over TCP: executed once, in order, none dropped behind a failing one (`ScriptExecuted`), `ErrorsReachTheirSession`, `ScriptServed` | 2 messages, line buffer 8, libscpi buffer 9, receive buffer 2, error queue 2, payload up to 3 against a limit of 2 |
| `ring` | no overrun and no race (`SlotsSafe`), refinement of `Fifo` (`IsFifo`) | 4 bytes, indices modulo 8, requests up to 3 |
| `stream` | the host's records are those captured, in order, with the gaps it reports the ones there were (`RecordsArriveInOrder`), `TornKnownAtDetach`, gone consumers released and present ones served (`ConsumersServed`) | 5 frames of 3 bytes, ring 8, socket 4 |
| `usbtmc` | own reply and the whole of it (`RepliesReachTheirQuery`), `CommandsWhole`, `ReadEnds` | transmit buffer 6, reads of 8 in requests of 3, commands in 2 parts, replies of several pieces with blocks among them, 3 ids |
| `nimble` | no command of two links (`CommandsOfOneLink`), `SecurityOfThisLink`, `RepliesWhole`, `WorkerReturns` | 6 connects and disconnects, queue 3, commands of 3 items, writes of 2, replies of 2 notifications, 1 in flight |
| `can` | `SocketsKept`, STOP within a frame (`AtMostOneAfterStop`), the drop count of one interface (`NeverOvercounts`) | 2 sockets, queue 1, 2 losses each, 1 record the ring refuses, counters modulo 8 |
| `wifi` | result, deadline and phase agree (`JobConsistent`), `StopWins`, stale events (`NoOldConnection`), `FailureToldOnce`, `AttemptsEnd` | 2 networks, 2 events queued ahead by the driver, 2 more by `esp_wifi_stop` |
| `gs` | owners, mailboxes and echoes (`ChannelsKept`), every captured frame delivered or counted (`CaptureAccounted`), no echo before the bus (`EchoesFollowTransmission`) | 2 channels, 1 mailbox each, 2 echo contexts, rings 1, 2 plug-ins, 3 requests |
| `esp` | `TableKept`, `StoppedStreamIsQuiet`, `ConnectionIsTrue` | 2 contexts, 2 handles, 2 addresses, table of 2, 4 commands; contexts, handles and addresses symmetric |
| `nrf` | `StatusIsTrue`, `HandlesOfOneLink`, `OfferedKeyIsWhole`, `CentralJobsEnd` | 2 handles, 1 scan result, 3 commands, 1 event inside each command |
| `host` | `SessionInStep`, `OutcomeIsTrue`, `WorkflowEnds`, over TCP and USBTMC | 4 invocations, error queue 2, 3 errors drained, 3 messages left behind |

**Why the bounds are enough.** In `receive` the line buffer fills after two bytes, the error queue
after one error, and a header needs four buffers, or comes whole with payload shorter than, equal
to and longer than announced; a nine-digit length is included. In the server runs the receive
buffer is smaller than every message, so each message is cut at every place, and several messages
also share a buffer. The messages carry a newline and a semicolon everywhere one must not count.
The ring's index range is twice its size, the least the code allows, so the indices wrap every
other round. In `stream` the ring is not a multiple of the stride and the socket is longer than
one record and shorter than two, so records are torn and sends are partial. Five frames fill the
ring, drop, and survive a change of consumer. In `usbtmc` a reply fills the transmit buffer and
needs two or more requests; commands are numbered modulo 3, so an abandoned reply differs from the one
due. In `nimble` a command fills the queue and a write may find room for a part of it; three links
follow each other. In `can` the second socket takes the first one's number or another. In `wifi`
events of one connection reach the phases of the next but one, and both networks are asked for in
turn. In `gs` one mailbox and rings of one fill at once, so every refusal and loss happens, and the
second plug-in meets what the first left. In `esp` two contexts race each other and the host task; two
addresses fill the table, and two links come and go. In `nrf` both roles draw from two handles, so
one role's handle becomes the other's; three commands are a STARt, a STOP and a
STARt, or one of each role and one more. In `host` one invocation leaves behind what the
third still meets; two errors fill the queue and its overflow is drained.

**Fairness.** `receive`: the thread inside `usbscpi_on_rx` runs on. `server`: the server thread
runs on: `recv` returns when bytes are there, and the call proceeds. `stream`: the server thread
runs on, a consumer whose connection is up reads what arrives, and keepalive probes expire, as
`usbscpi_sock_set_keepalive` arranges. `usbtmc`: transfers both ends are ready for complete and
`tud_task` runs; no timeout has to expire. `nimble`: the worker is scheduled and the controller
transmits what it took; `WorkerReturns` asks for buffers only from some time on. `wifi`: the event loop and the timer
task run and time passes; the access point owes nothing. `nrf`: the main thread runs on, and the timeouts
the application gives the scan and the connection attempt end them. `host`: the tool runs on (its reads
return or time out, its user answers) and its deadline passes; the device owes nothing. No client
has to come, send or leave, and no callback has to succeed. `ring`, `can`, `gs` and `esp` check safety only.

**Deadlock** is checked in every run but `nrf`, `esp` and `host`: there the bounded commands or
invocations run out, and a quiet radio or a finished user has nothing more to do.

### 3.1 Where the code and its documents differ

The properties named here are stated in the modules and belong to no run, because the code does not
hold to them; a configuration that names one gives a trace.

* `CommandOfOneSession` (`ScpiServer`): `usbscpi_clear` leaves libscpi's input buffer alone. A client that dies inside an
  inline arbitrary block leaves bytes there, and the next client's first command is executed
  with them in front. `glue/usbscpi_nimble.h:38` says a new connection cannot be poisoned.
* `PayloadNeverExecuted` (`ScpiServer`): after a refused block (too large, or a callback failed) the parser is in
  text again, and the part of the payload that later calls bring is executed as commands.
  `README.md:17` says binary blocks bypass the text parser.
* `RepliesOfOneLink` (`Nimble`): `usbscpi_nimble_tx` checks the session and then notifies on the handle it read
  before; the host task may replace the link in between. `glue/usbscpi_nimble.c:51` says a reply
  can never reach the next connection.
* `BeginsFilling` (`CanCapture`, under `CanFairSpec`): the producer leaves its loop for good when `recvmsg` fails with anything but EINTR
  or EAGAIN, which a `CLOSe` or `OPEN` between its check and its call provokes;
  `examples/can/main.c:401` says STARt begins filling the ring.
* `TornIsTheOnlyLoss` (`Stream`): `glue/usbscpi_stream.h:59` calls the torn record the only loss
  the transport can cause; records the kernel accepted and a vanished consumer never received are
  lost too.
* `RefusedNeverAnswered` (`Usbtmc`, without `RepliesFit`): `glue/usbscpi_tinyusb.h:51` says a
  block too large for the transmit buffer is never answered; its header and terminator are queued
  on their own and are.
* `KernelLossCounted`, `NotMoreThanLost` (`CanCapture`): the first losses a socket reports only
  set the base of the difference; and the base is forgotten after the new socket is in place, so
  the difference of two sockets' counters may be added, modulo 2^32.
* `LinkCanBeDropped`, `StoppedIsQuiet` (`NrfBle`): a `CONNect:STARt` refused while a link is up
  ends in FAILED with the link still there, and `DISConnect` wants CONNECTED
  (`ble_conn_handler.c:397`); a STOP of the peripheral role that a DISCONNECTED event splits is
  followed by its restart of advertising (`ble_periph_handler.c:379`).
* `RefusedIsUp` (`GsUsb`): unplugging leaves a controller with the Linux driver, and SCPI is refused it
  with no driver there.

Met while modelling, and left out of the properties, which say what does hold:

* ESP32-S3: with two links, the DONE of one the application does not track, or the loss of
  another, changes the state of the one it does; a link that comes up before `s_auto_pair` is armed
  (`ble_conn.c:168`) leaves the workflow RUNNING for good, and so does a scan whose discovery fails
  after `s_done` was cleared; a late end of the old scan marks the new one done; a connection attempt cancels the
  stream's discovery and leaves its flag set; the failure reason told once per attempt
  (`app_main.c:388`) may go to the other context; a `CONNect:STARt` with an index that is not in the table
  has noted already whether to pair (`app_main.c:357`), and the job before it, DONE without pairing, reads
  RUNNING from then on; rows of an earlier scan may survive the reset of
  the count (`ble_scan.c:185` against `283`).
* nRF52840: a STARt while an attempt is pending leaves the workflow RUNNING; `BLE:AUTO`'s reset
  orphans a link; a passkey reply may be stored after the prompt it answers is gone.
* SocketCAN: frames queued before a stop may reach a channel opened again; the scan order of
  `gs_poll` can starve one channel's echoes.
* Host: after a timeout over TCP the REPL reads answers one line behind (`session.rs:126`); a compound
  line that ends in `SYST:ERR?` puts `send_checked` out of step; a prompt is missed when its state is
  left and entered again between two polls; `cmd_stream` leaves the stream running when
  `send_checked` fails (`iotsploit-host.rs:939`); a failed query gives an empty line over USBTMC and nothing
  over TCP.
* Core: `SYSTem:HELP:HEADers? 2` without a count lists nothing, since 2 + (2^32 - 1) wraps
  (`src/usbscpi.c:128`, theorem `OffsetAloneListsNothing`); a page refused for `mtu` looks to the host like the
  last one, and the list it returns is cut there without an error (`headers.rs:50`); when
  `usbscpi_register` overflows, the commands that still fitted stay (`src/usbscpi.c:558`).
* A second `CAN:FILTer:ADD` replaces the first filter
  (`examples/can/main.c:272`), and a `WLAN:SCAN:STARt` the driver refuses after an earlier scan leaves
  `STATe?` at RUNNING (`examples/components/wlan/wifi_scan.c:296`).

## 4. The proofs

All theorems hold for every value of the constants that satisfies the named ASSUMEs of the
modules; TLC evaluates those in the runs.

`UsbScpiProofs`: for all buffer sizes, limits, callbacks and byte streams, `Spec`
implies `TypeOK`, `BuffersInBounds`, `BlocksKept` and `FailureIsQueued`. None
but the first is inductive. The invariant `IInv` is their conjunction with `HeaderInv`, which
relates the header's digit counters to the mode: without it nothing says that a length
field ends, that no bytes count as received while the header is read, or that the payload
state is entered with bytes missing. The proof that a step preserves it has one lemma or step for each
action, and for the two that hand a line to libscpi a lemma about `FeedLine`, which rests
on lemmas about `ErrorAdd` and `Append`.

Of the server: `ErrorsReachTheirSession` and `ScriptExecuted`, for scripts of any length, any number of
sessions, any cut of the stream, and queues and buffers of any size. `SessionInv` adds to `IInv` that what is on the wire
and in the receive buffer is of the present session (`OnItsWay`: the wire is the part of the script from
`Mark`, what `recv` has returned, to `sent`), and that between sessions nothing is left but libscpi's residue (`NothingLeft`).
An iteration does one of four things to the queue and the log (`IterateErrors`), and
`OrderStep` shows that the ranks of failing commands and of answers stay matched under each; `RankGrows` is what one more
effect does to the ranks. The order is promised while only commands have failed (`OnlyCommands`): an
overflow marker stands for errors that were lost, also after it has been read, so it must be absent from queue
and log alike.

For `ScriptExecuted` the invariant is `ServerInv`. `InStep` says that the receive buffer is the script
between `Pos`, what is consumed, and `Mark`, as long as the stream has not failed. `Tracked` says where in the script that is: at its end
with nothing pending, or in one of its pieces (`At`), and then what the core holds of the piece. In a unit (`InUnit`),
libscpi's residue is its complete lines and `line` the rest of its text; in an upload (`InBlock`), the mode and the
counters are those of the offset, and the application has exactly the payload consumed so far. Each iteration that does
not fail stays in its piece (`UnitInside`, `UploadBegins` to `UploadPayload`) or completes it
(`UnitEnds`, `PieceExecuted`), and the next piece begins where it ended (`NextPiece`); one that fails leaves an error that is no
command's, which is `faulted` (`FaultRaised`). The property follows because a server at rest with all of the
script received can only be at its end. The induction is over steps, not over the script, which is why
scripts carry their pieces. `inherited` leaves out sessions that
begin with residue of another (section 3.1): for them neither half holds.

The module also proves of `DataRead` that what `block_fit` lets through fits in one response
(`EncodedBlockFits`), so no byte taken from a source is lost to a refused reply (`NothingReadInVain`), and a
response of 14 bytes or more always carries something (`SomethingRead`). `SecondPassSettles` is
why two passes stand for the loop.

Of `CoreQueries` it proves, for tables, lists and pages of any size, that `usbscpi_init`
(`SeededTableEnds`) and any `usbscpi_register` after it (`TableAlwaysEnds`) leave a table whose first end mark
is at its count, so that no walk passes it, with every earlier command in its place; and that a step of the
host's paging keeps what it has a prefix of that list with the offset at its end
(`PagingKeepsItsPlace`, from `PageIsWindow`), for offsets whose sum with the page size does not wrap. That the
steps together reach the end of the list is an induction over them, checked by TLC (`PagesMakeTheListing`).

`UsbtmcProofs`: `CommandsWhole`, for commands of any number of transfers. `CommandInv` says that while the host
writes, the core holds the parts that have left it and the rest are still offered, and that otherwise, until the
endpoints are cleared, it holds none; it needs that a request for a reply is never offered
along with a part.

Also `RepliesReachTheirQuery`, under `RepliesFit`: no reply is longer than the transmit buffer, which is what
`glue/usbscpi_tinyusb.h:49` asks of `max_block_len`, and one read may take all of the buffer (`session.rs:82`: 8192 against
4096). Both are needed: a piece that does not fit is refused, and a read that stops at its own limit returns
a part. `ReplyInv` says for each state of the class driver how far an exchange has come (`ExchangeInv`): at rest, the
buffer is the reply of the last command, if it asked for one and has been executed (`Answer`), and the host has
its first `txSent` bytes; while a message is on its way it carries the next `txChunk`; and when the host has taken it and the
device has not seen it completed, either all was sent or the host has `txSent + txChunk` bytes. A timeout,
restart or unplugging forgets all of this, so it has to be shown that both clearings together set it right again before the next
command, although the first leaves the last message on the endpoint. `AskInv` adds that the reply is that of the command
last written, and that a request asks for a byte at least.

`DataPlaneProofs`, of the ring: for all ring sizes and all index widths that are a multiple of it,
`RingTypeOK`, `SlotsSafe`, and `RingSpec => IsFifo`: the ring implements `Fifo`. The invariant of the first two is `RingInv == RingTypeOK /\ NoOverrun`.
The heart is the lemma `CountValue`: the unsigned difference of two wrapping indices is what was
written less what was read as long as that stays within the ring; from it follow what moving
either index does to the count (`Grows`, `Shrinks`), and `Apart`: a free slot is none of the queued
ones, which gives `NoRace`. `IndexModAssumption` (the ring's size divides the
index range) is what `is_power_of_two` in `usbscpi_ring_init` guarantees. The refinement adds
`ContentInv`: what a write in progress has stored lies in its slots, and what a read in progress has
copied is what its slots hold. Then `WritePublish` is the queue's `Put` (`Published`), `ReadRelease` its `Take`,
`Advance` its `Discard` (`Released`), and every other step leaves the queue alone, the producer's
stores because they miss every queued slot (`StoredAside`).

`DataPlaneProofs`, of the stream: `RecordsArriveInOrder` and `TornKnownAtDetach`, for records, rings, socket buffers
and reads of any size. Neither is inductive: what a consumer has read follows from what is still
under way. `StreamInv` therefore speaks of the whole line of bytes from the ring to the consumer
(`Line`: what it has buffered, what the network holds, and while the session goes on what the glue has
still to send): it is cut into records at multiples of the stride (`Aligned`), each byte is the next of
its record or the first of a later one whose stamp tells the loss between them (`Ordered`), all of a
record with its head agree (`Headed`), and the first follows on the last record handed over (`FollowsOn`).
`QueueInv` says the same of the ring alone, which need not begin at a boundary but ends at one (`Phased`);
that is what lets `realign` find the next record. `EndInv` ties the last
record to the producer's drop counter, and `TornInv` the glue's torn counter to the record that was
cut, state by state of the server loop. Sends and reads of any length reduce to lemmas about taking a prefix of such a
sequence and appending to it; the arithmetic of record boundaries is `Division` and its corollaries.

`RadioProofs`, of the Wi-Fi job: for all sets of networks and any number of events pending, `WifiTypeOK`,
`JobConsistent`, `StopWins`, `FailureToldOnce` and `NoOldConnection`. The invariant of the first four,
`WifiInv`, is their conjunction with `ToldInv` in the place of the last: an error told is of a job
that is over, so no later failure finds the flag set. `StopWins` needs the deadline's half of `JobConsistent`: a
job that drains has no deadline left to change what STOP asked for. What the helpers do is stated
once (`FinishEnds`, `BeginConnectBegins`, `DisconnectForEnds`), and `HandlerInv` says the four
things a handler may do to the job; every event handler is one of them.
`NoOldConnection` rests on two more: `NetInv`, that the driver is on the network asked for
last while a job wants it there, and `LinkInv`, that what the driver has queued fits the
phase: nothing of the same connection follows its STOP or DISCONNECTED event.

`CanProofs`, of the daemon: `SocketsKept`, `AtMostOneAfterStop` and `NeverOvercounts`, for any number of sockets, losses and queue
lengths. `CanInv` adds that each descriptor in use is held by one of the two threads or by
the shared variable (`FdsInv`), that after STOP at most one frame is between the producer's check and the ring
(`StopInv`), that the loss stamps in a socket's queue grow along it and never pass its
counter (`QueuesInv`), and what the producer's difference of counters may be at each of its steps (`LossInv`).

`RadioProofs`, of the NimBLE glue: all three invariants of the run. `SecurityInv` relates the `secure` flag, and a
check still due, to the link that is up. `QueueInv` says that the queue, after the command the worker is collecting,
is a run of consecutive parts, session by session, ending at the part the peer sends next; from it
follow `CommandsOfOneLink` and, with `ReplyInv` for the fragment being sent, `RepliesWhole`.

`EspProofs`: `TableKept`, `StoppedStreamIsQuiet` and `ConnectionIsTrue`, for any number of contexts,
handles and addresses. `EspInv` adds which callback may be pending with which state of the NimBLE
host, that DONE of a pairing has an encrypted link (`DoneIsSecured`), what `store_device` knows at each of its steps (the rows below the count it read are
distinct and lack the address it stores), and which command is where while the stream is on.

`NrfProofs`: `StatusIsTrue`, `HandlesOfOneLink` and `OfferedKeyIsWhole`, for any number of handles, scan results and
commands. The invariant `NrfInv` has a part for the SoftDevice's table, one for the main thread, and for each
role what its words rest on: an attempt is one the radio makes or the thread is about to make (`AttemptInv`), an
outcome outlives its link but not the next attempt (`OutcomeInv`), a prompt waits for the pairing
of the link that is up (`PromptInv`); a restart waits for a link that is still being dropped (`RestartInv`),
and the peripheral knows how far the pairing of its link is (`LinkInv`, `ReportInv`). The theorems
assume `Paced`: at most one event inside a command, as in the run, and no link lost between two
calls of one (`LostWhileDropped`). The first is not a convenience. An event handler runs to its
end in microseconds and a command's calls are as short, so two within one command are rare; but with two of them
TLC finds a DONE for a pairing that has not secured its link, and with three a handle given
to another link while the command still uses it.

`CanProofs`, of the SocketCAN device: `CaptureAccounted`, `EchoesFollowTransmission` and `ChannelsKept`. `CaptureInv` counts a
capture's frames as delivered, waiting or lost through the steps of STARt, and says that records of an
earlier plug-in are gone before the pump runs; `TxInv` that a slot marked SENT has a mailbox that is still pending or sent.
`ChannelsKept` counts places, which no step preserves as such. `PlaceInv` says instead which places there are
(`OnePlace`): for a channel that is up, a frame is at most once in the FIFO towards the board and in at most one slot,
it is in one of FIFO, slot, `s_gs_out` and the FIFO back only, and in one of them exactly if its context is in use.
Each action moves a frame from one place to the next, or takes all of a channel's away
as its contexts are freed; the counts follow at the end, since a set without two elements has
cardinality 0 or 1. The theorem assumes `CleanReopen`, and `GsAssumption` that no context
of the driver is the number that marks received frames (`GS_ECHO_ID_RX`).

`HostProofs`: `SessionInStep` and `OutcomeIsTrue`, for any number of invocations, queued errors and messages
left behind. A reply that is read in its turn is no invariant by itself: one needs to know, for
each place a session can be in, everything that is on its way. `HostInv` says it place by place
(`LineInv`, `CheckedInv`, ..., `NoInv`, collected in `TalkInv`) while no read has timed out: the first request of a
session waits behind those of earlier invocations, whose replies nobody gets (`First`), and from its first reply on
there is one conversation and nothing else. The same parts carry what the user will be told:
the queue is empty when the trigger is sent, so what the drain finds is the trigger's refusal
(`TriggerSent`, `TriggerRefused`, `TriggerTaken`); the job is the session's own from then on; a poll that is answered
FAILED has queued the reason, and no step of the drain loses it (`WhyInv`), because a queue is shorter than the drain's
limit. That limit is the assumption `MaxErrors < MaxDrain` (libscpi's queue against 64), and it is
needed: a drain that stops early may leave the reason behind. After a timeout in a REPL (`slow`) only the types hold.

**Left to TLC.** The liveness properties (`CallReturns`, `ScriptServed`, `ConsumersServed`,
`ReadEnds`, `WorkerReturns`, `AttemptsEnd`, `CentralJobsEnd`, `WorkflowEnds`), which need
fairness and ENABLED; and everything about the nRF52840 with more than one event inside a command.

## 5. Not modelled, and why

* Vendored and generated code: libscpi's pattern matcher, lexer of parameters, unit conversion and
  formatting, beyond what the receive path meets.
* Pure I/O and start-up: USB descriptors, GPIO and radio bring-up, bit timing, filters of the CAN
  controllers, the radio sniffer (`examples/butterfly-nrf52840`), which drives registers at times
  below any abstraction made here, and the blocking send loop of `usbscpi_socket_tx`.
* Text: the wording of descriptor, help and result formats, credential parsing, the host's parsers and printing.
* `POSIX daemon`, `pico2`, `stm32f4disco/main.c`, `ble-wifi` and `spp-security`: the glue and
  components modelled above with a thin `main`, or test peers of them.
* The records and DONE flag of a Wi-Fi scan, and the ESP32-S3's two stream rings with their pump. The
  rings are `Ring` again; the flag is the hazard listed for `wifi_scan.c:296`.
* Device reset and power loss: nothing is persisted but BLE bonds, which the stacks keep.

What would come next: the stream and upload commands of the host tool on top
of `Stream` and `ScpiServer`, and the bond store under a restart of the device.
