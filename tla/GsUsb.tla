------------------------------- MODULE GsUsb -------------------------------
(***************************************************************************)
(* The SocketCAN example (stm32f4disco-socketcan/main.c): two CAN          *)
(* controllers, each owned by SCPI or by the host's gs_usb driver, which   *)
(* the board serves over a vendor interface.  The main loop handles a USB  *)
(* event, pumps the capture (CanStream) and polls gs_usb; the receive      *)
(* interrupt of a controller comes between any two of these steps.         *)
(*                                                                         *)
(* Starting and stopping a controller is one step: its interrupt is masked *)
(* while its owner changes.                                                *)
(***************************************************************************)
EXTENDS CanStream, FiniteSets

CONSTANTS
  Chan,         \* the controllers
  Mailbox,      \* transmit mailboxes of a controller
  EchoId,       \* transmit contexts of the host driver, per channel: small
                \* numbers, so none is GS_ECHO_ID_RX
  RingCap,      \* frames the gs_usb ring and the SCPI ring hold
  MaxRequests,  \* bound: control requests and SCPI commands
  CleanReopen   \* the driver reopens a channel once none of its frames is left
                \* in the FIFOs of the vendor interface

ASSUME GsAssumption ==
  /\ {RingCap, MaxRequests} \subseteq Nat \ {0} /\ CleanReopen \in BOOLEAN
  /\ EchoId \cap {"rx", "none"} = {}

VARIABLES
  owner,        \* s_can_owner
  bus, mbox,    \* the hardware: on the bus; each transmit mailbox
  canRing, gsRing, gsLost,   \* s_can_ring, s_gs_ring; s_gs_dropped is not "seen"
  tx, out,      \* s_gs_tx with s_gs_tx_state; s_gs_out when valid
  outFifo, inFifo,           \* the vendor interface's FIFOs
  up, slots,    \* the driver: channels opened, contexts in use
  loop,         \* where the main loop is
  requests      \* requests still to be made

hwVars   == <<bus, mbox>>
rxVars   == <<canRing, gsRing, gsLost>>
txVars   == <<tx, out>>
hostVars == <<up, slots>>
gsVars   == <<plugVars, streamVars, owner, hwVars, rxVars, txVars, outFifo, inFifo,
              hostVars, loop, requests>>

None == [ch |-> "none", id |-> "none"]   \* no frame waits for a mailbox
Free == [state |-> "FREE", id |-> "none"]
Frame(ch, id) == [ch |-> ch, id |-> id]
Received(ch)  == [ch |-> ch, id |-> "rx"]   \* GS_ECHO_ID_RX
EmptyIn == inFifo = <<>>

GsInit ==
  /\ StreamInit
  /\ owner = [ch \in Chan |-> "NONE"] /\ bus = [ch \in Chan |-> FALSE]
  /\ mbox = [ch \in Chan |-> [mb \in Mailbox |-> "empty"]]
  /\ canRing = 0 /\ gsRing = <<>> /\ gsLost = [ch \in Chan |-> FALSE]
  /\ tx = [ch \in Chan |-> [mb \in Mailbox |-> Free]] /\ out = None
  /\ outFifo = <<>> /\ inFifo = <<>>
  /\ up = {} /\ slots = [ch \in Chan |-> {}]
  /\ loop = "usb" /\ requests = MaxRequests

------------------------------------------------------------------------------
(* Hardware *)

Rqcp(ch, mb) == mbox[ch][mb] \in {"sent", "aborted"}
Tme(ch, mb)  == mbox[ch][mb] \in {"empty", "sent", "aborted"}

Transmits(ch, mb) ==
  /\ bus[ch] /\ mbox[ch][mb] = "pending" /\ mbox' = [mbox EXCEPT ![ch][mb] = "sent"]
  /\ UNCHANGED <<plugVars, streamVars, owner, bus, rxVars, txVars, outFifo, inFifo,
                 hostVars, loop, requests>>

\* canX_rx0_isr, as a frame arrives: one turn of can_rx_drain, which queues it
\* for who owns the controller.
QueueForDriver(ch) ==
  /\ owner[ch] = "GS"
  /\ \/ /\ Len(gsRing) < RingCap /\ gsRing' = Append(gsRing, Received(ch))
        /\ UNCHANGED gsLost
     \/ /\ Len(gsRing) = RingCap /\ gsLost' = [gsLost EXCEPT ![ch] = TRUE]
        /\ UNCHANGED gsRing
  /\ UNCHANGED <<canRing, streamVars>>
QueueForScpi(ch) ==
  /\ owner[ch] # "GS" /\ UNCHANGED <<gsRing, gsLost>>
  /\ \/ Push /\ UNCHANGED canRing
     \/ /\ ~streamRunning /\ canRing' = (IF canRing < RingCap THEN canRing + 1 ELSE canRing)
        /\ UNCHANGED streamVars
RxIsr(ch) ==
  /\ bus[ch]
  /\ (QueueForDriver(ch) \/ QueueForScpi(ch))
  /\ UNCHANGED <<plugVars, owner, bus, mbox, txVars, outFifo, inFifo, hostVars, loop, requests>>

------------------------------------------------------------------------------
(* gs_stop and gs_start: what they leave of a channel's transmissions.  A    *)
(* frame on the wire may still go out as it is aborted.                      *)

AbortPending(ch) ==
  \E went \in SUBSET {mb \in Mailbox : mbox[ch][mb] = "pending"} :
    mbox' = [mbox EXCEPT ![ch] = [mb \in Mailbox |->
               CASE mbox[ch][mb] # "pending" -> mbox[ch][mb]
                 [] mb \in went -> "sent" [] OTHER -> "aborted"]]
GsStopKeepsOut(ch) ==   \* fault: the frame that waits for a mailbox stays
  /\ AbortPending(ch) /\ tx' = [tx EXCEPT ![ch] = [mb \in Mailbox |-> Free]] /\ UNCHANGED out
GsStop(ch) ==
  /\ AbortPending(ch)
  /\ tx' = [tx EXCEPT ![ch] = [mb \in Mailbox |-> Free]]
  /\ out' = (IF out.ch = ch THEN None ELSE out)

ModeStart(ch) ==
  /\ GsStop(ch)
  /\ \/ /\ owner' = [owner EXCEPT ![ch] = "GS"] /\ bus' = [bus EXCEPT ![ch] = TRUE]
        /\ gsLost' = [gsLost EXCEPT ![ch] = FALSE] /\ up' = up \cup {ch}
     \/ /\ owner' = [owner EXCEPT ![ch] = "NONE"] /\ bus' = [bus EXCEPT ![ch] = FALSE]
        /\ UNCHANGED <<gsLost, up>>
  /\ UNCHANGED slots
ModeReset(ch) ==
  /\ \/ /\ owner[ch] = "GS" /\ GsStop(ch)
        /\ owner' = [owner EXCEPT ![ch] = "NONE"] /\ bus' = [bus EXCEPT ![ch] = FALSE]
     \/ owner[ch] # "GS" /\ UNCHANGED <<mbox, tx, out, owner, bus>>
  /\ up' = up \ {ch} /\ slots' = [slots EXCEPT ![ch] = {}]
  /\ UNCHANGED gsLost

\* tud_vendor_control_xfer_cb: what the driver asks as `ip link` opens and
\* closes a channel.
LeftInFifos(ch) ==
  {f \in {outFifo[i] : i \in DOMAIN outFifo} \cup {inFifo[i] : i \in DOMAIN inFifo} : f.ch = ch}
ControlRequest ==
  \E ch \in Chan :
    /\ \/ ch \notin up /\ (CleanReopen => LeftInFifos(ch) = {}) /\ ModeStart(ch)
       \/ ch \in up /\ ModeReset(ch)
    /\ UNCHANGED <<plugVars, streamVars, canRing, gsRing, outFifo, inFifo>>

------------------------------------------------------------------------------
(* SCPI commands on the USB event *)

CanOpen(ch) ==
  /\ owner[ch] # "GS"
  /\ \/ owner' = [owner EXCEPT ![ch] = "SCPI"] /\ bus' = [bus EXCEPT ![ch] = TRUE]
     \/ owner' = [owner EXCEPT ![ch] = "NONE"] /\ bus' = [bus EXCEPT ![ch] = FALSE]

CanSend(ch) ==
  /\ owner[ch] = "SCPI"
  /\ \E mb \in Mailbox : Tme(ch, mb) /\ mbox' = [mbox EXCEPT ![ch][mb] = "pending"]

CanRecv == canRing' = (IF canRing > 0 THEN canRing - 1 ELSE canRing)

AnyBusOpen == \E ch \in Chan : owner[ch] = "SCPI"
ScpiCommand ==
  /\ UNCHANGED <<plugVars, gsRing, gsLost, txVars, outFifo, inFifo, hostVars>>
  /\ \/ \E ch \in Chan : CanOpen(ch) /\ UNCHANGED <<mbox, canRing, streamVars>>
     \/ \E ch \in Chan : CanSend(ch) /\ UNCHANGED <<owner, bus, canRing, streamVars>>
     \/ CanRecv /\ UNCHANGED <<owner, bus, mbox, streamVars>>
     \/ /\ (AnyBusOpen /\ StreamStart) \/ StreamStop \/ StreamFraming
        /\ UNCHANGED <<owner, bus, mbox, canRing>>

\* A plug is pulled or the bus is reset: the driver loses its channels.
Unmount ==
  /\ mounted /\ mounted' = FALSE /\ StreamReset
  /\ outFifo' = <<>> /\ inFifo' = <<>> /\ up' = {} /\ slots' = [ch \in Chan |-> {}]
  /\ UNCHANGED <<plugs, owner, hwVars, rxVars, txVars>>
Mount ==
  /\ ~mounted /\ plugs < MaxPlugs /\ mounted' = TRUE /\ plugs' = plugs + 1
  /\ UNCHANGED <<streamVars, owner, hwVars, rxVars, txVars, outFifo, inFifo, hostVars>>

------------------------------------------------------------------------------
(* The main loop: a USB event, the capture's pump, and gs_poll in three *)

Goes(from, to) == loop = from /\ loop' = to

UsbEvent ==
  /\ Goes("usb", "pump") /\ starting = "no"
  /\ \/ /\ mounted /\ requests > 0 /\ requests' = requests - 1
        /\ ControlRequest \/ ScpiCommand
     \/ (Unmount \/ Mount) /\ UNCHANGED requests
NoUsbEvent ==
  /\ Goes("usb", "pump") /\ starting = "no"
  /\ UNCHANGED <<plugVars, streamVars, owner, hwVars, rxVars, txVars, outFifo, inFifo,
                 hostVars, requests>>
StartGoesOn ==
  /\ loop = "pump" /\ (ClearCount \/ ClearLost)
  /\ UNCHANGED <<plugVars, owner, hwVars, rxVars, txVars, outFifo, inFifo, hostVars,
                 loop, requests>>
StreamPump ==
  /\ Goes("pump", "poll") /\ starting = "no" /\ Pump
  /\ UNCHANGED <<plugVars, owner, hwVars, rxVars, txVars, outFifo, inFifo, hostVars, requests>>

\* A slot is done once its mailbox reports the request completed.
Polled(ch, mb) == mounted /\ owner[ch] = "GS" /\ tx[ch][mb].state = "SENT"
Completes(ch, mb) == Polled(ch, mb) /\ Rqcp(ch, mb)
AfterPoll(done) ==
  [ch \in Chan |-> [mb \in Mailbox |->
    IF done[ch][mb] THEN [tx[ch][mb] EXCEPT !.state = "DONE"] ELSE tx[ch][mb]]]
PollIgnoresRqcp ==   \* fault: an empty mailbox is taken for a completed one
  /\ loop = "poll" /\ loop' = (IF mounted THEN "send" ELSE "usb")
  /\ tx' = AfterPoll([ch \in Chan |-> [mb \in Mailbox |-> Polled(ch, mb)]])
  /\ UNCHANGED <<plugVars, streamVars, owner, hwVars, rxVars, out, outFifo, inFifo,
                 hostVars, requests>>
PollCompleted ==
  /\ loop = "poll" /\ loop' = (IF mounted THEN "send" ELSE "usb")
  /\ tx' = AfterPoll([ch \in Chan |-> [mb \in Mailbox |-> Completes(ch, mb)]])
  /\ mbox' = [ch \in Chan |-> [mb \in Mailbox |->
                IF Completes(ch, mb) THEN "empty" ELSE mbox[ch][mb]]]
  /\ UNCHANGED <<plugVars, streamVars, owner, bus, rxVars, out, outFifo, inFifo,
                 hostVars, requests>>

Sent(f, mb) ==
  /\ tx' = [tx EXCEPT ![f.ch][mb] = [state |-> "SENT", id |-> f.id]]
  /\ mbox' = [mbox EXCEPT ![f.ch][mb] = "pending"] /\ out' = None
Sendable(ch) == {mb \in Mailbox : tx[ch][mb].state = "FREE" /\ Tme(ch, mb)}
Waiting(f) ==
  \/ owner[f.ch] # "GS" /\ out' = None /\ UNCHANGED <<tx, mbox>>
  \/ owner[f.ch] = "GS" /\ \E mb \in Sendable(f.ch) : Sent(f, mb)
  \/ owner[f.ch] = "GS" /\ Sendable(f.ch) = {} /\ out' = f /\ UNCHANGED <<tx, mbox>>
\* The driver's next frame goes into the first slot that is free and whose
\* mailbox is empty (gs_transmit), and waits in s_gs_out while there is none.
NextOut ==
  \/ out # None /\ UNCHANGED outFifo /\ Waiting(out)
  \/ out = None /\ outFifo # <<>> /\ outFifo' = Tail(outFifo) /\ Waiting(Head(outFifo))
  \/ out = None /\ outFifo = <<>> /\ UNCHANGED <<outFifo, out, tx, mbox>>
SendOut ==
  /\ Goes("send", "give") /\ NextOut
  /\ UNCHANGED <<plugVars, streamVars, owner, bus, rxVars, inFifo, hostVars, requests>>

\* One frame into an empty FIFO: an echo that is due, or the first received
\* frame whose channel is still the driver's.
Due == {slot \in Chan \X Mailbox : tx[slot[1]][slot[2]].state = "DONE"}
GiveEcho ==
  \E slot \in Due :
    /\ inFifo' = <<Frame(slot[1], tx[slot[1]][slot[2]].id)>>
    /\ tx' = [tx EXCEPT ![slot[1]][slot[2]] = Free]
    /\ UNCHANGED <<gsRing, gsLost>>
Stopped(f) == owner[f.ch] # "GS"
GiveReceived ==
  /\ \E n \in 0..Len(gsRing) :
       /\ \A i \in 1..n : Stopped(gsRing[i])
       /\ \/ /\ n = Len(gsRing) /\ gsRing' = <<>> /\ UNCHANGED <<inFifo, gsLost>>
          \/ /\ n < Len(gsRing) /\ ~Stopped(gsRing[n + 1])
             /\ inFifo' = <<gsRing[n + 1]>>
             /\ gsRing' = SubSeq(gsRing, n + 2, Len(gsRing))
             /\ gsLost' = [gsLost EXCEPT ![gsRing[n + 1].ch] = FALSE]
  /\ UNCHANGED tx
GiveIn ==
  /\ Goes("give", "usb")
  /\ \/ EmptyIn /\ GiveEcho
     \/ EmptyIn /\ Due = {} /\ GiveReceived
     \/ ~EmptyIn /\ UNCHANGED <<inFifo, tx, gsRing, gsLost>>
  /\ UNCHANGED <<plugVars, streamVars, owner, hwVars, canRing, out, outFifo, hostVars, requests>>

MainLoop == NoUsbEvent \/ StartGoesOn \/ StreamPump \/ PollCompleted \/ SendOut \/ GiveIn

------------------------------------------------------------------------------
(* The host: the gs_usb driver (external) and the reader of the capture *)

DriverSends ==
  \E ch \in up : \E id \in EchoId \ slots[ch] :
    /\ mounted /\ outFifo' = Append(outFifo, Frame(ch, id))
    /\ slots' = [slots EXCEPT ![ch] = @ \cup {id}]
    /\ UNCHANGED <<plugVars, streamVars, owner, hwVars, rxVars, txVars, inFifo, up, loop, requests>>
DriverReads ==
  /\ mounted /\ ~EmptyIn /\ inFifo' = Tail(inFifo)
  /\ LET f == Head(inFifo) IN slots' = [slots EXCEPT ![f.ch] = @ \ {f.id}]
  /\ UNCHANGED <<plugVars, streamVars, owner, hwVars, rxVars, txVars, outFifo, up, loop, requests>>
ReaderReads ==
  /\ ReadPipe
  /\ UNCHANGED <<plugVars, owner, hwVars, rxVars, txVars, outFifo, inFifo, hostVars, loop, requests>>

GsNext ==
  \/ UsbEvent \/ MainLoop \/ DriverSends \/ DriverReads \/ ReaderReads
  \/ \E ch \in Chan : RxIsr(ch) \/ \E mb \in Mailbox : Transmits(ch, mb)

GsSpec == GsInit /\ [][GsNext]_gsVars

------------------------------------------------------------------------------
\* Every variable keeps its type.
GsTypeOK ==
  /\ owner \in [Chan -> {"NONE", "SCPI", "GS"}] /\ bus \in [Chan -> BOOLEAN]
  /\ canRing \in 0..RingCap /\ Len(gsRing) <= RingCap
  /\ mbox \in [Chan -> [Mailbox -> {"empty", "pending", "sent", "aborted"}]]
  /\ tx \in [Chan -> [Mailbox -> [state : {"FREE", "SENT", "DONE"}, id : EchoId \cup {"none"}]]]
  /\ out \in [ch : Chan, id : EchoId] \cup {None}
  /\ up \subseteq Chan /\ slots \in [Chan -> SUBSET EchoId]

\* A context the driver has in use is that of exactly one frame on its way: to
\* the board, in it, or back.  A lost echo leaks the context for good, and one
\* sent twice frees the context of another frame.
Travelling(ch, id) ==
  LET f == Frame(ch, id)
  IN Cardinality({i \in DOMAIN outFifo : outFifo[i] = f})
     + Cardinality({i \in DOMAIN inFifo : inFifo[i] = f})
     + Cardinality({mb \in Mailbox : tx[ch][mb].id = id})
     + (IF out = f THEN 1 ELSE 0)
EchoesConserved ==
  \A ch \in up : \A id \in EchoId : Travelling(ch, id) = (IF id \in slots[ch] THEN 1 ELSE 0)

\* A frame is echoed once it has left the controller: its slot is done only after
\* its mailbox sent it, never as what an abort or another's frame left behind.
EchoesFollowTransmission ==
  [][\A ch \in Chan, mb \in Mailbox :
       tx[ch][mb].state = "SENT" /\ tx'[ch][mb].state = "DONE" => mbox[ch][mb] = "sent"]_gsVars

\* A controller nobody owns is off the bus: it neither answers nor receives.
ClosedIsSilent == \A ch \in Chan : bus[ch] <=> owner[ch] # "NONE"

\* A channel, its controller and the frames the driver gave it stay together,
\* whichever of SCPI and SocketCAN opens, closes, starts or stops it.
ChannelsKept == GsTypeOK /\ ClosedIsSilent /\ EchoesConserved

\* A controller that SCPI is refused for SocketCAN is up in the host's driver:
\* "`ip link set canN down` releases it" (main.c, CAN:OPEN).
RefusedIsUp == \A ch \in Chan : owner[ch] = "GS" => ch \in up
=============================================================================
