------------------------------- MODULE Nimble -------------------------------
(***************************************************************************)
(* SCPI over BLE (glue/usbscpi_nimble.c).  NimBLE's host task runs the     *)
(* callbacks: links come and go, are secured, and their writes are queued. *)
(* A worker task runs the core on what is queued and notifies its replies. *)
(* The two share the queue and a few volatile variables, and no lock.      *)
(*                                                                         *)
(* A command is a run of numbered parts, one for each queue item, which    *)
(* the peer may spread over writes; the core is what UsbScpi makes of it.  *)
(* Links reuse one connection handle, as controllers do.                   *)
(***************************************************************************)
EXTENDS Integers, Sequences

CONSTANTS
  Depth,        \* RX_DEPTH
  CmdParts,     \* items of a command
  MaxWrite,     \* most items of one attribute write
  Fragments,    \* notifications a reply takes
  MaxInFlight,  \* notifications the controller buffers
  MaxSession    \* bound of the exploration: s_session stops there

ASSUME NimbleAssumption ==
  /\ {Depth, CmdParts, MaxWrite, Fragments, MaxInFlight} \subseteq Nat \ {0}
  /\ MaxSession \in Nat

VARIABLES
  link,                      \* "none", "up", or "closing" once terminated
  peerSc, encrypted, bonded, \* the peer can do LE Secure Connections, ...
  sent,                      \* parts of a command the peer has written
  conn, session,             \* s_conn, s_session
  subscribed, secure,        \* s_subscribed, s_secure
  check,                     \* s_security_event: queued, and of which session
  rx,                        \* s_rx
  rxSession, line,           \* worker: s_rx_session and what the core holds
  wpc, txConn, frag,         \* worker: inside usbscpi_nimble_tx
  inFlight, short, room,     \* notifications; mbufs are short; s_tx_room
  executed,                  \* the last command executed (history)
  got                        \* the last two fragments this link received
                             \* (history)

peerVars  == <<link, peerSc, encrypted, bonded, sent>>
hostVars  == <<conn, session, subscribed, secure, check>>
workVars  == <<rxSession, line, wpc, txConn, frag, executed>>
airVars   == <<inFlight, short, room, got>>
nimbleVars == <<peerVars, hostVars, rx, workVars, airVars>>

NoConn == 0  \* BLE_HS_CONN_HANDLE_NONE
Handle == 1

NimbleInit ==
  /\ link = "none" /\ peerSc = FALSE /\ encrypted = FALSE /\ bonded = FALSE
  /\ sent = 0
  /\ conn = NoConn /\ session = 0 /\ subscribed = FALSE /\ secure = FALSE
  /\ check = [queued |-> FALSE, session |-> 0]
  /\ rx = <<>>
  /\ rxSession = 0 /\ line = <<>> /\ wpc = "idle" /\ txConn = NoConn /\ frag = 0
  /\ inFlight = 0 /\ short = FALSE /\ room = FALSE
  /\ executed = <<>> /\ got = <<>>

------------------------------------------------------------------------------
(* The host task: gap_event, check_security and rx_access. *)

Connect ==
  /\ link = "none" /\ session < MaxSession
  /\ link' = "up" /\ peerSc' \in BOOLEAN /\ encrypted' = FALSE /\ bonded' = FALSE
  /\ sent' = 0 /\ got' = <<>>
  /\ subscribed' = FALSE /\ secure' = FALSE
  /\ conn' = Handle /\ session' = session + 1
  /\ UNCHANGED <<check, rx, workVars, inFlight, short, room>>

DisconnectStaysSecure ==  \* fault: s_secure is not reset
  /\ link # "none" /\ link' = "none" /\ inFlight' = 0
  /\ peerSc' = FALSE /\ encrypted' = FALSE /\ bonded' = FALSE /\ sent' = 0 /\ got' = <<>>
  /\ conn' = NoConn /\ subscribed' = FALSE /\ session' = session + 1
  /\ room' = TRUE
  /\ UNCHANGED <<secure, check, rx, workVars, short>>
Disconnect ==
  /\ link # "none" /\ link' = "none" /\ inFlight' = 0
  /\ peerSc' = FALSE /\ encrypted' = FALSE /\ bonded' = FALSE /\ sent' = 0 /\ got' = <<>>
  /\ conn' = NoConn /\ subscribed' = FALSE /\ secure' = FALSE
  /\ session' = session + 1
  /\ room' = TRUE
  /\ UNCHANGED <<check, rx, workVars, short>>

Terminate == link' = "closing"

\* ENC_CHANGE: the bond NimBLE stores on its return is examined by an event
\* of its own.  Putting a queued event again does nothing.
EncChange ==
  /\ link = "up" /\ ~encrypted
  /\ encrypted' = TRUE /\ bonded' = peerSc
  /\ check' = [queued |-> TRUE, session |-> session]
  /\ UNCHANGED <<link, peerSc, sent, conn, session, subscribed, secure, rx,
                 workVars, airVars>>

EncFails ==
  /\ link = "up" /\ ~encrypted /\ ~peerSc /\ Terminate
  /\ UNCHANGED <<peerSc, encrypted, bonded, sent, hostVars, rx, workVars, airVars>>

Stale == check.session # session \/ conn = NoConn

CheckSecurity ==
  /\ check.queued /\ check' = [check EXCEPT !.queued = FALSE]
  /\ \/ Stale /\ UNCHANGED <<link, secure>>
     \/ ~Stale /\ encrypted /\ bonded /\ secure' = TRUE /\ UNCHANGED link
     \/ ~Stale /\ ~(encrypted /\ bonded) /\ link = "up" /\ Terminate
        /\ UNCHANGED secure
     \/ ~Stale /\ ~(encrypted /\ bonded) /\ link # "up" /\ UNCHANGED <<link, secure>>
  /\ UNCHANGED <<peerSc, encrypted, bonded, sent, conn, session, subscribed, rx,
                 workVars, airVars>>

Subscribe ==
  /\ link = "up" /\ ~subscribed /\ subscribed' = TRUE
  /\ UNCHANGED <<peerVars, conn, session, secure, check, rx, workVars, airVars>>

\* rx_access: a write of n items is refused unless all of them fit.
RoomForSome(n) == n - 1 <= Depth - Len(rx)  \* fault: length rounded down
RoomFor(n) == n <= Depth - Len(rx)

\* xQueueSend drops what a full queue cannot take.
QueueSend(items) == LET all == rx \o items
                    IN SubSeq(all, 1, IF Len(all) < Depth THEN Len(all) ELSE Depth)

\* A peer subscribes before it sends, and stays so (host/rust/src/ble.rs does).
RxAccess ==
  /\ link # "none" /\ subscribed /\ secure
  /\ \E n \in 1..MaxWrite :
       /\ sent + n <= CmdParts
       /\ RoomFor(n)
       /\ rx' = QueueSend([i \in 1..n |-> [session |-> session, part |-> sent + i]])
       /\ sent' = (sent + n) % CmdParts
  /\ UNCHANGED <<link, peerSc, encrypted, bonded, hostVars, workVars, airVars>>

HostTask == Connect \/ Disconnect \/ EncChange \/ EncFails \/ CheckSecurity
            \/ Subscribe \/ RxAccess

------------------------------------------------------------------------------
(* The worker task: worker_task and, in it, usbscpi_nimble_tx. *)

\* The context is cleared when the session changes; the last part of a command
\* executes it, and its reply is transmitted.
Held(item) == IF item.session = rxSession THEN line ELSE <<>>
WorkerReceive ==
  /\ wpc = "idle" /\ rx # <<>> /\ rx' = Tail(rx)
  /\ LET item == Head(rx)
         all  == Append(Held(item), item)
     IN /\ rxSession' = item.session
        /\ \/ /\ item.part # CmdParts /\ line' = all
              /\ UNCHANGED <<wpc, frag, executed>>
           \/ /\ item.part = CmdParts /\ line' = <<>>
              /\ executed' = all /\ wpc' = "tx" /\ frag' = 1
  /\ UNCHANGED <<peerVars, hostVars, txConn, airVars>>

TxReadConn ==
  /\ wpc = "tx" /\ wpc' = "check" /\ txConn' = conn
  /\ UNCHANGED <<peerVars, hostVars, rx, rxSession, line, frag, executed, airVars>>

\* The core makes a reply in several calls.  Those after one that failed fail
\* as well, for the session stays changed: the rest of the reply is not sent.
TxCheck ==
  /\ wpc = "check"
  /\ wpc' = IF rxSession = session /\ subscribed THEN "notify" ELSE "idle"
  /\ UNCHANGED <<peerVars, hostVars, rx, rxSession, line, txConn, frag, executed,
                 airVars>>

\* ble_att_mtu and ble_gatts_notify_custom know the link by its handle alone.
LinkThere == link # "none" /\ txConn = Handle
NoMemory  == short \/ inFlight = MaxInFlight

LastTwo(s) == IF Len(s) > 2 THEN Tail(s) ELSE s

TxNotify ==
  /\ wpc = "notify" /\ LinkThere /\ ~NoMemory
  /\ got' = LastTwo(Append(got, [session |-> rxSession, frag |-> frag]))
  /\ inFlight' = inFlight + 1
  /\ frag' = (frag + 1) % (Fragments + 1)
  /\ wpc' = IF frag = Fragments THEN "idle" ELSE "tx"
  /\ UNCHANGED <<peerVars, hostVars, rx, rxSession, line, txConn, executed,
                 short, room>>

TxNoMemorySkips ==  \* fault: the fragment is given up
  /\ wpc = "notify" /\ LinkThere /\ NoMemory
  /\ frag' = (frag + 1) % (Fragments + 1)
  /\ wpc' = IF frag = Fragments THEN "idle" ELSE "wait"
  /\ UNCHANGED <<peerVars, hostVars, rx, rxSession, line, txConn, executed, airVars>>
TxNoMemory ==
  /\ wpc = "notify" /\ LinkThere /\ NoMemory /\ wpc' = "wait"
  /\ UNCHANGED <<peerVars, hostVars, rx, rxSession, line, txConn, frag, executed,
                 airVars>>

TxLinkGone ==
  /\ wpc = "notify" /\ ~LinkThere /\ wpc' = "idle"
  /\ UNCHANGED <<peerVars, hostVars, rx, rxSession, line, txConn, frag, executed,
                 airVars>>

\* s_tx_room is given, or TX_RETRY_MS pass.
TxWaitForever ==  \* fault: no timeout
  /\ wpc = "wait" /\ room /\ wpc' = "tx" /\ room' = FALSE
  /\ UNCHANGED <<peerVars, hostVars, rx, rxSession, line, txConn, frag, executed,
                 inFlight, short, got>>
TxWait ==
  /\ wpc = "wait" /\ wpc' = "tx" /\ room' = FALSE
  /\ UNCHANGED <<peerVars, hostVars, rx, rxSession, line, txConn, frag, executed,
                 inFlight, short, got>>

Worker == WorkerReceive \/ TxReadConn \/ TxCheck \/ TxNotify \/ TxNoMemory
          \/ TxLinkGone \/ TxWait

------------------------------------------------------------------------------
(* The controller and the mbuf pool, which others use too (external). *)

\* NOTIFY_TX
NotifyTx ==
  /\ inFlight > 0 /\ inFlight' = inFlight - 1 /\ room' = TRUE
  /\ UNCHANGED <<peerVars, hostVars, rx, workVars, short, got>>

PoolChanges ==
  /\ short' = ~short
  /\ UNCHANGED <<peerVars, hostVars, rx, workVars, inFlight, room, got>>

NimbleNext == HostTask \/ Worker \/ NotifyTx \/ PoolChanges

NimbleSpec == NimbleInit /\ [][NimbleNext]_nimbleVars

\* The worker task is scheduled and the controller sends what it holds.
NimbleFairSpec == NimbleSpec /\ WF_nimbleVars(Worker) /\ WF_nimbleVars(NotifyTx)

------------------------------------------------------------------------------
\* Every command executed is one command of one link, whole and in order: no
\* part of it is lost to a full queue, and none is left from a link that
\* dropped in the middle of a command.
CommandsOfOneLink ==
  \A i \in DOMAIN executed :
    executed[i].part = i /\ executed[i].session = executed[1].session

\* Writes are accepted only from a peer encrypted with a Secure Connections
\* bond, never on the strength of an earlier link's.
SecureMeansBonded == secure => encrypted /\ bonded

\* A security check left over from an earlier link never drops the bond of a
\* peer that would have secured its own.
GoodPeerNotRefused == link = "closing" => ~peerSc

\* A link is judged by its own security and by no earlier link's.
SecurityOfThisLink == SecureMeansBonded /\ GoodPeerNotRefused

\* The fragments of a reply reach its own link without a gap or a repeat,
\* however often the stack ran out of buffers.
RepliesWhole ==
  \A i \in DOMAIN got : got[i].session = session /\ got[i].frag # 1 =>
    (i = 1 => Len(got) = 2) /\ (i = 2 => got[1].frag = got[2].frag - 1)

\* Once buffers stay available, the worker comes back from every reply, also
\* from one whose link went away while it waited.
WorkerReturns == <>[]~short => (wpc # "idle" ~> wpc = "idle")

\* What usbscpi_nimble.c says and the code does not do: "bytes and replies from
\* one connection can never reach the next".
RepliesOfOneLink ==
  \A i \in DOMAIN got : got[i].session = session
=============================================================================
