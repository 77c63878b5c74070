------------------------------- MODULE Usbtmc -------------------------------
(***************************************************************************)
(* SCPI over USBTMC: the host transport of host/rust/src/usbtmc_raw.rs,    *)
(* the bulk endpoints, and the device's glue/usbscpi_tinyusb.c, whose      *)
(* callbacks all run on the thread of tud_task().                          *)
(*                                                                         *)
(* The core is what UsbScpi makes of it: it gathers the parts of a         *)
(* command, executes it at its end, and hands the reply to the glue in the *)
(* pieces libscpi writes.                                                  *)
(***************************************************************************)
EXTENDS Integers, Sequences, SequencesExt

CONSTANTS
  Replies,      \* what a query may answer: where its pieces end
  TxCap,        \* USBSCPI_TINYUSB_TX_BUF_SIZE
  ReadSize,     \* read_size of the session
  MaxRequest,   \* most a driver asks for in one bulk-IN request
  MaxParts,     \* most bulk-OUT transfers of one command
  Ids           \* commands are numbered 0..Ids-1, around

ASSUME UsbtmcAssumption ==
  /\ Replies \subseteq Seq(Nat \ {0})
  /\ \A ends \in Replies : \A i \in 1..(Len(ends) - 1) : ends[i] < ends[i + 1]
  /\ {TxCap, ReadSize, MaxRequest, MaxParts} \subseteq Nat \ {0}
  /\ Ids \in Nat /\ Ids > 2

VARIABLES
  hpc,                    \* the host: what it waits for
  cmd, asked, btag,       \* the command last written; is its reply due; bTag
  result,                 \* of read_msg_in so far
  outcome,                \* what the last read returned, and was to return
  out,                    \* bulk-OUT packets the host offers
  bus,                    \* state of TinyUSB's USBTMC class driver
  inMsg,                  \* message on the bulk-IN endpoint
  line,                   \* parts of a command the core holds
  txBuf, txSent, txChunk, \* s_tx_buf[0..s_tx_len), s_tx_sent, s_tx_chunk
  txPending, txInFlight,  \* s_tx_pending, s_tx_in_flight
  executed,               \* the line last executed and its reply (history)
  refused                 \* a piece of a reply has been turned down (history)

hostVars   == <<hpc, cmd, asked, btag, result, outcome>>
txVars     == <<txBuf, txSent, txChunk, txPending, txInFlight>>
coreVars   == <<line, executed, refused>>
usbtmcVars == <<hostVars, out, bus, inMsg, txVars, coreVars>>

Parts(c, n, query) ==
  [i \in 1..n |-> [req |-> FALSE, id |-> c, part |-> i, last |-> i = n,
                   query |-> query]]
Ask(tag, size) == [req |-> TRUE, tag |-> tag, size |-> size]
Bytes(c, len) == [i \in 1..len |-> [id |-> c, i |-> i]]
Dummy == <<[id |-> Ids, i |-> 1]>>
NoMsg == [tag |-> -1, bytes |-> <<>>, eom |-> FALSE]
Smaller(a, b) == IF a < b THEN a ELSE b

TxReset ==
  /\ txBuf' = <<>> /\ txSent' = 0 /\ txChunk' = 0
  /\ txPending' = FALSE /\ txInFlight' = FALSE

UsbtmcInit ==
  /\ hpc = "clearOut" /\ cmd = 0 /\ asked = FALSE /\ btag = 0 /\ result = <<>>
  /\ outcome = [due |-> <<>>, got |-> <<>>]
  /\ out = <<>> /\ bus = "closed" /\ inMsg = NoMsg
  /\ txBuf = <<>> /\ txSent = 0 /\ txChunk = 0
  /\ txPending = FALSE /\ txInFlight = FALSE
  /\ line = <<>> /\ executed = [line |-> <<>>, reply |-> <<>>] /\ refused = FALSE

------------------------------------------------------------------------------
(* The host: ScpiSession over UsbtmcRaw. *)

\* write_msg of a command or a query, which UsbtmcRaw sends in one transfer
\* and other drivers in several.
Write ==
  /\ hpc = "idle" /\ hpc' = "write"
  /\ cmd' = (cmd + 1) % Ids
  /\ \E n \in 1..MaxParts, query \in BOOLEAN :
       out' = Parts(cmd', n, query) /\ asked' = query
  /\ UNCHANGED <<btag, result, outcome, bus, inMsg, txVars, coreVars>>

\* The last bulk-OUT transfer has completed: a query goes on to read_msg.
Written ==
  /\ hpc = "write" /\ out = <<>>
  /\ hpc' = IF asked THEN "request" ELSE "idle"
  /\ UNCHANGED <<cmd, asked, btag, result, outcome, out, bus, inMsg, txVars, coreVars>>

\* A utility that reads without asking.
ReadUnasked ==
  /\ hpc = "idle" /\ hpc' = "request"
  /\ UNCHANGED <<cmd, asked, btag, result, outcome, out, bus, inMsg, txVars, coreVars>>

Wanted == Smaller(ReadSize - Len(result), MaxRequest)

Request ==
  /\ hpc = "request" /\ hpc' = "requesting"
  /\ btag' = (btag + 1) % Ids
  /\ out' = <<Ask(btag', Wanted)>>
  /\ UNCHANGED <<cmd, asked, result, outcome, bus, inMsg, txVars, coreVars>>

Requested ==
  /\ hpc = "requesting" /\ out = <<>> /\ hpc' = "read"
  /\ UNCHANGED <<cmd, asked, btag, result, outcome, out, bus, inMsg, txVars, coreVars>>

\* The reply that a read should return: that of the command just written.
Due == IF asked /\ executed.reply # <<>> THEN Bytes(cmd, Len(executed.reply)) ELSE Dummy

\* The message arrives: its tag is checked, and a message without EOM is
\* followed by another request.
Receive ==
  /\ hpc = "read" /\ inMsg # NoMsg
  /\ inMsg' = NoMsg
  /\ bus' = IF bus = "tx" THEN "sent" ELSE bus
  /\ LET all  == result \o inMsg.bytes
         good == inMsg.tag = btag
         done == inMsg.eom \/ Len(all) >= ReadSize
     IN /\ hpc' = CASE ~good         -> "clearOut"
                    [] good /\ done  -> "idle"
                    [] good /\ ~done -> "request"
        /\ result' = IF good /\ ~done THEN all ELSE <<>>
        /\ asked' = (asked /\ good /\ ~done)
        /\ outcome' = IF good /\ done THEN [due |-> Due, got |-> all] ELSE outcome
  /\ UNCHANGED <<cmd, btag, out, txVars, coreVars>>

\* The timer wins over a transfer, which is cancelled; or the process is
\* replaced by another, which opens the device.  Either way both endpoints are
\* cleared, as clear_failed_exchange and from_device do.
Abandon ==
  /\ hpc' = "clearOut" /\ out' = <<>> /\ result' = <<>> /\ asked' = FALSE
  /\ UNCHANGED <<cmd, btag, outcome, bus, inMsg, txVars, coreVars>>
Timeout     == hpc \in {"write", "requesting", "read"} /\ Abandon
HostRestart == hpc # "clearOut" /\ Abandon

\* clear_halt(ep_out), answered by tud_usbtmc_bulkOut_clearFeature_cb.  Events
\* already queued for tud_task come first.
CoreKept == line' = line  \* fault: the core is not cleared
CoreCleared == line' = <<>>
ClearOut ==
  /\ hpc = "clearOut" /\ bus \notin {"closed", "sent"}
  /\ hpc' = "clearIn" /\ bus' = "idle"
  /\ CoreCleared /\ TxReset
  /\ UNCHANGED <<cmd, asked, btag, result, outcome, out, inMsg, executed, refused>>

\* clear_halt(ep_in), answered by tud_usbtmc_bulkIn_clearFeature_cb.
ClearIn ==
  /\ hpc = "clearIn" /\ bus \notin {"closed", "sent"}
  /\ hpc' = "idle" /\ inMsg' = NoMsg
  /\ TxReset
  /\ UNCHANGED <<cmd, asked, btag, result, outcome, out, bus, coreVars>>

------------------------------------------------------------------------------
(* The device: TinyUSB's callbacks into the glue. *)

\* tud_usbtmc_open_cb arms the bulk-OUT endpoint.
Open ==
  /\ bus = "closed" /\ bus' = "idle"
  /\ UNCHANGED <<hostVars, out, inMsg, txVars, coreVars>>

\* usbscpi_tinyusb_queue_response of one piece.
Refuses(buf, n) == n > 0 /\ (txInFlight \/ Len(buf) + n > TxCap)
Queue(buf, piece) == IF Refuses(buf, Len(piece)) THEN buf ELSE buf \o piece

Pieces(c, ends) ==
  [i \in DOMAIN ends |->
     SubSeq(Bytes(c, ends[i]), (IF i = 1 THEN 0 ELSE ends[i - 1]) + 1, ends[i])]
Total(ends) == IF ends = <<>> THEN 0 ELSE ends[Len(ends)]

\* tud_usbtmc_msg_data_cb: the core executes a command at its EOM, and the
\* endpoint is armed again.  A reply that fits loses no piece; of one that does
\* not, the pieces that fit are queued.
TakePart ==
  /\ bus = "idle" /\ out # <<>> /\ ~Head(out).req
  /\ out' = Tail(out)
  /\ LET p == Head(out)
         all == Append(line, [id |-> p.id, part |-> p.part, last |-> p.last])
     IN \/ ~p.last /\ line' = all /\ UNCHANGED <<executed, refused, txVars>>
        \/ /\ p.last /\ line' = <<>>
           /\ \E ends \in IF p.query THEN Replies \cup {<<>>} ELSE {<<>>} :
                LET refuses == Refuses(txBuf, Total(ends))
                    reply   == Bytes(p.id, Total(ends))
                IN /\ txBuf' = IF refuses THEN FoldLeft(Queue, txBuf, Pieces(p.id, ends))
                               ELSE txBuf \o reply
                   /\ executed' = [line |-> all, reply |-> reply]
                   /\ refused' = (refused \/ refuses)
           /\ txPending' = (txPending \/ txBuf' # txBuf)
           /\ UNCHANGED <<txSent, txChunk, txInFlight>>
  /\ UNCHANGED <<hostVars, bus, inMsg>>

\* tud_usbtmc_msgBulkIn_request_cb: the next chunk of the reply, ...
SendChunk ==
  /\ bus = "idle" /\ out # <<>> /\ Head(out).req
  /\ txPending /\ Len(txBuf) > txSent
  /\ out' = Tail(out) /\ bus' = "tx"
  /\ txChunk' = Smaller(Len(txBuf) - txSent, Head(out).size)
  /\ inMsg' = [tag |-> Head(out).tag,
               bytes |-> SubSeq(txBuf, txSent + 1, txSent + txChunk'),
               eom |-> txSent + txChunk' >= Len(txBuf)]
  /\ txInFlight' = TRUE
  /\ UNCHANGED <<hostVars, txBuf, txSent, txPending, coreVars>>

SendNothing ==  \* fault: a request without a reply is left alone
  /\ bus = "idle" /\ out # <<>> /\ Head(out).req
  /\ ~(txPending /\ Len(txBuf) > txSent)
  /\ out' = Tail(out) /\ bus' = "tx"
  /\ UNCHANGED <<hostVars, inMsg, txVars, coreVars>>
\* ... or the message that keeps the class driver from getting stuck.
SendDummy ==
  /\ bus = "idle" /\ out # <<>> /\ Head(out).req
  /\ ~(txPending /\ Len(txBuf) > txSent)
  /\ out' = Tail(out) /\ bus' = "tx"
  /\ inMsg' = [tag |-> Head(out).tag, bytes |-> Dummy, eom |-> TRUE]
  /\ txChunk' = 0 /\ txInFlight' = TRUE
  /\ UNCHANGED <<hostVars, txBuf, txSent, txPending, coreVars>>

\* tud_usbtmc_msgBulkIn_complete_cb
AllSentAlways == TRUE  \* fault: released after its first chunk
AllSent == txSent + txChunk >= Len(txBuf)
Complete ==
  /\ bus = "sent" /\ bus' = "idle"
  /\ \/ AllSent /\ TxReset
     \/ /\ ~AllSent
        /\ txSent' = txSent + txChunk /\ txChunk' = 0 /\ txInFlight' = FALSE
        /\ UNCHANGED <<txBuf, txPending>>
  /\ UNCHANGED <<hostVars, out, inMsg, coreVars>>

\* The cable is pulled, or the bus reset: nothing tells the glue.  The host's
\* transfers fail and it opens the device anew.
BusReset ==
  /\ bus # "closed" /\ bus' = "closed"
  /\ hpc' = "clearOut" /\ out' = <<>> /\ result' = <<>> /\ asked' = FALSE
  /\ inMsg' = NoMsg
  /\ UNCHANGED <<cmd, btag, outcome, txVars, coreVars>>

------------------------------------------------------------------------------
Host   == Written \/ Request \/ Requested \/ Receive \/ ClearOut \/ ClearIn
Device == TakePart \/ SendChunk \/ SendDummy \/ Complete

UsbtmcNext ==
  \/ Host \/ Device
  \/ Write \/ ReadUnasked \/ Timeout \/ HostRestart \/ Open \/ BusReset

UsbtmcSpec == UsbtmcInit /\ [][UsbtmcNext]_usbtmcVars

\* Transfers that both ends are ready for complete and tud_task runs.  No timer
\* need expire for an exchange to end.
UsbtmcFairSpec == UsbtmcSpec /\ WF_usbtmcVars(Host) /\ WF_usbtmcVars(Device)

------------------------------------------------------------------------------
\* The transmit offsets stay inside what is buffered.
OffsetsInBuffer ==
  /\ Len(txBuf) <= TxCap /\ txSent + txChunk <= Len(txBuf)
  /\ txPending <=> txBuf # <<>>

\* A read that succeeds returns the whole reply of the command just written,
\* and none of an earlier one that was abandoned, whatever timed out, was
\* restarted or unplugged since; without a reply, the one dummy byte.
ReadsOwnReply == outcome.got = outcome.due

\* What the core executes is one command of the host from its first part to
\* its last: a part left by an abandoned write is never put in front of it.
CommandsWhole ==
  LET l == executed.line
  IN \A i \in DOMAIN l : l[i].id = l[1].id /\ l[i].part = i /\ (l[i].last <=> i = Len(l))

\* A host that keeps one query outstanding never has a reply refused.
NeverRefused == ~refused

\* cfg.max_block_len taken from the buffer, and a read that takes all of it.
RepliesFit ==
  /\ \A ends \in Replies : Total(ends) <= TxCap
  /\ TxCap <= ReadSize

\* Replies go where they were asked for: none is refused a buffer that still
\* holds another, none is sent from beyond it, and each is read whole by its
\* own query.
RepliesReachTheirQuery == OffsetsInBuffer /\ ReadsOwnReply /\ NeverRefused

\* A read ends without help from a timer: a reply or the dummy arrives, or
\* the device is unplugged.
ReadEnds == hpc \in {"requesting", "read"} ~> hpc \in {"idle", "clearOut"}

\* What usbscpi_tinyusb.h says of a block larger than the transmit buffer and
\* the code does not do: "the host sees a query that simply never answers".
RefusedNeverAnswered == refused => outcome.got \in {<<>>, Dummy}
=============================================================================
