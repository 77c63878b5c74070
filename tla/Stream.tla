------------------------------- MODULE Stream -------------------------------
(***************************************************************************)
(* The data plane (glue/usbscpi_stream.c): a producer thread pushes whole  *)
(* records into a ring, a server thread drains the ring to one TCP         *)
(* consumer at a time, and consumers come, stop reading, leave or vanish.  *)
(* A consumer is the host's: it cuts the byte stream into records and      *)
(* reports gaps (DataPlane and GapTracker of host/rust/src/dataplane.rs).  *)
(*                                                                         *)
(* The ring is the Fifo that Ring implements: count and peek read it, a    *)
(* write and an advance change it, each at one instant.  The producer is   *)
(* the capture loop of examples/can/main.c.                                *)
(***************************************************************************)
EXTENDS Integers, Sequences, SequencesExt

CONSTANTS
  Stride,      \* bytes of a record
  RingSize,    \* bytes of the ring
  SockCap,     \* bytes the network holds between send() and the consumer
  MaxFrames    \* bound: frames captured

ASSUME StreamAssumption ==
  Stride \in Nat \ {0} /\ RingSize \in Nat /\ SockCap \in Nat \ {0} /\ MaxFrames \in Nat

VARIABLES
  ring,                \* bytes in the ring
  frames, dropped,     \* producer: frames captured, and those not buffered
  stamp, pstate,       \* the record at hand
  sstate,              \* where serve_consumer stands
  torn, attached,      \* s_torn, s_attached
  wantWrite, chunk,    \* drain(): POLLOUT wanted; bytes send() just took
  peer,                \* the consumer's end of the accepted connection
  queued,              \* a consumer waits in the backlog
  pipe,                \* bytes sent and not received
  inbox,               \* DataPlane.buf: received and not yet a record
  last, total,         \* GapTracker.last, GapTracker.total
  taken,               \* frames of the records handed over (history)
  cut,                 \* sessions that ended inside a record (history)
  received             \* whole records consumers received (history)

producerVars == <<frames, dropped, stamp, pstate>>
glueVars     == <<sstate, torn, attached, wantWrite, chunk>>
clientVars   == <<inbox, last, total, taken>>
netVars      == <<peer, queued, pipe, clientVars>>
streamVars   == <<ring, producerVars, glueVars, netVars, cut, received>>

None == -1   \* GapTracker.last of a tracker that has seen no record

\* Byte part p of the record of frame r, stamped with the drops before it.
Bytes(r, d) == [p \in 1..Stride |-> [r |-> r, p |-> p, d |-> d]]

Behind(s, n) == SubSeq(s, n + 1, Len(s))

\* DataPlane::connect and GapTracker::new
NewClient == inbox' = <<>> /\ last' = None /\ total' = 0 /\ taken' = <<>>

StreamInit ==
  /\ ring = <<>>
  /\ frames = 0 /\ dropped = 0 /\ stamp = 0 /\ pstate = "idle"
  /\ sstate = "accept" /\ torn = 0 /\ attached = FALSE
  /\ wantWrite = FALSE /\ chunk = 0
  /\ peer = "none" /\ queued = FALSE /\ pipe = <<>>
  /\ inbox = <<>> /\ last = None /\ total = 0 /\ taken = <<>>
  /\ cut = 0 /\ received = 0

------------------------------------------------------------------------------
(* The producer: push_record and its caller. *)

\* A frame arrives and is stamped with the drop count as it stands.
Capture ==
  /\ pstate = "idle" /\ frames < MaxFrames
  /\ frames' = frames + 1 /\ stamp' = dropped /\ pstate' = "check"
  /\ UNCHANGED <<ring, dropped, glueVars, netVars, cut, received>>

RecordFits == RingSize - Len(ring) >= Stride

CheckFree ==
  /\ pstate = "check"
  /\ pstate' = IF RecordFits THEN "write" ELSE "drop"
  /\ UNCHANGED <<ring, frames, dropped, stamp, glueVars, netVars, cut, received>>

\* usbscpi_ring_write takes what fits, which CheckFree found to be all.
PushRecord ==
  /\ pstate = "write" /\ pstate' = "idle"
  /\ LET n == IF RecordFits THEN Stride ELSE RingSize - Len(ring)
     IN ring' = ring \o SubSeq(Bytes(frames, stamp), 1, n)
  /\ UNCHANGED <<frames, dropped, stamp, glueVars, netVars, cut, received>>

DropRecord ==
  /\ pstate = "drop" /\ pstate' = "idle"
  /\ dropped' = dropped + 1
  /\ UNCHANGED <<ring, frames, stamp, glueVars, netVars, cut, received>>

Produce == Capture \/ CheckFree \/ PushRecord \/ DropRecord

------------------------------------------------------------------------------
(* The server thread: usbscpi_stream_serve and serve_consumer. *)

Accept ==
  /\ sstate = "accept" /\ queued
  /\ queued' = FALSE /\ sstate' = "setup"
  /\ peer' = "open" /\ pipe' = <<>> /\ NewClient
  /\ UNCHANGED <<ring, producerVars, torn, attached, wantWrite, chunk, cut, received>>

\* The socket cannot be made nonblocking: closed without a session.
SetupFails ==
  /\ sstate = "setup" /\ sstate' = "accept"
  /\ peer' = "none" /\ NewClient
  /\ UNCHANGED <<ring, producerVars, torn, attached, wantWrite, chunk, queued, pipe,
                 cut, received>>

Attach ==
  /\ sstate = "setup" /\ sstate' = "poll"
  /\ attached' = TRUE /\ wantWrite' = FALSE
  /\ UNCHANGED <<ring, producerVars, torn, chunk, netVars, cut, received>>

Leave ==
  /\ sstate' = "realign"
  /\ cut' = IF ring # <<>> /\ ring[1].p # 1 THEN cut + 1 ELSE cut
  /\ UNCHANGED <<ring, producerVars, torn, attached, wantWrite, chunk, netVars, received>>

\* poll() reports an error, or end of file, which POLLIN is always armed for;
\* an error of poll itself may end the session too.
SeesEndLate == peer \in {"fin", "reset"} /\ ring # <<>>  \* fault: not while idle
SeesEnd   == peer \in {"fin", "reset"}
PollGone  == sstate = "poll" /\ SeesEnd /\ Leave
PollFails == sstate = "poll" /\ Leave

\* A timeout, stray input that is discarded, or POLLOUT.
PollReady ==
  /\ sstate = "poll" /\ ~SeesEnd /\ sstate' = "drain"
  /\ UNCHANGED <<ring, producerVars, torn, attached, wantWrite, chunk, netVars,
                 cut, received>>

\* drain(): the ring is empty, or the socket is full.
DrainPauses ==
  /\ sstate = "drain" /\ (ring = <<>> \/ (peer # "reset" /\ Len(pipe) = SockCap))
  /\ wantWrite' = (ring # <<>>) /\ sstate' = "poll"
  /\ UNCHANGED <<ring, producerVars, torn, attached, chunk, netVars, cut, received>>

\* send() takes some of the contiguous chunk that peek_linear returned.
Send ==
  /\ sstate = "drain" /\ peer # "reset"
  /\ \E n \in 1..Len(ring) :
       /\ Len(pipe) + n <= SockCap
       /\ pipe' = pipe \o SubSeq(ring, 1, n)
       /\ chunk' = n
  /\ sstate' = "advance"
  /\ UNCHANGED <<ring, producerVars, torn, attached, wantWrite, peer, queued,
                 clientVars, cut, received>>

SendFails == sstate = "drain" /\ ring # <<>> /\ peer = "reset" /\ Leave

AdvanceSent ==
  /\ sstate = "advance" /\ sstate' = "drain"
  /\ ring' = Behind(ring, chunk) /\ chunk' = 0
  /\ UNCHANGED <<producerVars, torn, attached, wantWrite, netVars, cut, received>>

\* realign(): the tail is off a boundary by what the count is off a multiple.
RemainderWanting == Stride - (Len(ring) % Stride)  \* fault: the wrong side
Remainder == Len(ring) % Stride

RealignDetached ==  \* fault: the detach is published first
  /\ sstate = "realign"
  /\ ring' = Behind(ring, Remainder) /\ attached' = FALSE
  /\ sstate' = IF Remainder = 0 THEN "detach" ELSE "torn"
  /\ UNCHANGED <<producerVars, torn, wantWrite, chunk, netVars, cut, received>>
Realign ==
  /\ sstate = "realign"
  /\ ring' = Behind(ring, Remainder)
  /\ sstate' = IF Remainder = 0 THEN "detach" ELSE "torn"
  /\ UNCHANGED <<producerVars, torn, attached, wantWrite, chunk, netVars, cut, received>>

CountTorn ==
  /\ sstate = "torn" /\ sstate' = "detach"
  /\ torn' = torn + 1
  /\ UNCHANGED <<ring, producerVars, attached, wantWrite, chunk, netVars, cut, received>>

Detach ==
  /\ sstate = "detach" /\ sstate' = "close"
  /\ attached' = FALSE
  /\ UNCHANGED <<ring, producerVars, torn, wantWrite, chunk, netVars, cut, received>>

\* closesocket(): what the network still holds reaches a consumer that is
\* there, and is lost with one that is not.
Close ==
  /\ sstate = "close" /\ sstate' = "accept"
  /\ peer' = "none" /\ pipe' = <<>> /\ NewClient
  /\ received' = IF peer = "open"
                 THEN received + Len(SelectSeq(pipe, LAMBDA b : b.p = Stride))
                 ELSE received
  /\ UNCHANGED <<ring, producerVars, torn, attached, wantWrite, chunk, queued, cut>>

\* What the server thread does of itself, and failures it cannot help.
Serve == \/ Accept \/ Attach \/ PollGone \/ PollReady \/ DrainPauses \/ Send
         \/ SendFails \/ AdvanceSent \/ Realign \/ CountTorn \/ Detach \/ Close
Failures == SetupFails \/ PollFails

------------------------------------------------------------------------------
(* Consumers and the network (external). *)

Connect ==
  /\ ~queued /\ queued' = TRUE
  /\ UNCHANGED <<ring, producerVars, glueVars, peer, pipe, clientVars, cut, received>>

\* next_record reads while it has less than a record, and then hands one over;
\* GapTracker::observe compares its drop count with that of the one before.
Receive ==
  /\ peer = "open" /\ Len(inbox) < Stride
  /\ \E n \in 1..Len(pipe) :
       /\ inbox' = inbox \o SubSeq(pipe, 1, n) /\ pipe' = Behind(pipe, n)
       /\ received' = received + Len(SelectSeq(SubSeq(pipe, 1, n), LAMBDA b : b.p = Stride))
  /\ UNCHANGED <<ring, producerVars, glueVars, peer, queued, last, total, taken, cut>>

Gap(now) == IF last = None \/ now < last THEN 0 ELSE now - last
NextRecord ==
  /\ peer = "open" /\ Len(inbox) >= Stride
  /\ inbox' = Behind(inbox, Stride) /\ taken' = Append(taken, Head(inbox).r)
  /\ last' = Head(inbox).d /\ total' = total + Gap(Head(inbox).d)
  /\ UNCHANGED <<ring, producerVars, glueVars, peer, queued, pipe, cut, received>>

\* The consumer closes its end, loses the network, or has its connection reset;
\* one that vanished is found out by TCP's keepalive.
PeerBecomes(from, to) ==
  /\ peer = from /\ peer' = to
  /\ UNCHANGED <<ring, producerVars, glueVars, queued, pipe, clientVars, cut, received>>
Finish    == PeerBecomes("open", "fin")
Vanish    == PeerBecomes("open", "gone")
Reset     == PeerBecomes("open", "reset")
Keepalive == PeerBecomes("gone", "reset")

Outside == Connect \/ Receive \/ NextRecord \/ Finish \/ Vanish \/ Reset \/ Keepalive

StreamNext == Produce \/ Serve \/ Failures \/ Outside

StreamSpec == StreamInit /\ [][StreamNext]_streamVars

\* The server thread runs on, a consumer that is there reads, and keepalive
\* probes expire.  Capturing, connecting and leaving are nobody's duty.
StreamFairSpec ==
  StreamSpec /\ WF_streamVars(Serve) /\ WF_streamVars(Receive \/ NextRecord) /\ WF_streamVars(Keepalive)

------------------------------------------------------------------------------
\* Wherever the previous session ended, what a consumer has received and not yet
\* cut up begins at a record boundary and is whole records in the order captured,
\* and the drop counts stamped in them say exactly how many frames are missing
\* between two of them.
WholeRecords ==
  LET session == inbox \o pipe IN
  \A i \in 1..Len(session) :
    LET b == session[i] IN
    \/ b.p = 1 /\ i = 1
       /\ \/ taken = <<>>
          \/ b.r > Last(taken) /\ b.r - Last(taken) - 1 = b.d - last
    \/ b.p = 1 /\ i > 1
       /\ LET a == session[i - 1]
          IN a.p = Stride /\ b.r > a.r /\ b.r - a.r - 1 = b.d - a.d
    \/ b.p > 1 /\ i > 1 /\ b = [session[i - 1] EXCEPT !.p = @ + 1]

\* The losses the host reports to its user are the losses: every frame from the
\* first record it handed over to the last is one of its records or is counted
\* ("gaps are reported, not inferred", dataplane.rs).
GapsReported ==
  taken # <<>> => total + Len(taken) = Last(taken) - Head(taken) + 1

RecordsArriveInOrder == WholeRecords /\ GapsReported

\* Whoever sees that no consumer is attached can read how many records the
\* sessions until then cut off.
TornKnownAtDetach == ~attached => torn = cut

\* A consumer that closed or vanished does not keep the next one out, also
\* while the stream is idle.
GoneConsumerReleased == peer \in {"fin", "gone", "reset"} ~> peer = "none"

\* A consumer that stays and reads gets the ring emptied to it, however full
\* its socket was.
RingDrains ==
  attached /\ ring # <<>> ~> (ring = <<>> \/ peer # "open" \/ sstate = "realign")

\* Every consumer gets its turn, and the ring emptied to it.
ConsumersServed == GoneConsumerReleased /\ RingDrains

\* What usbscpi_stream.h says and the code does not do: "This is the only loss
\* the transport can cause".
TornIsTheOnlyLoss ==
  sstate = "accept" /\ pstate = "idle" =>
    frames = dropped + torn + received + Len(ring) \div Stride
=============================================================================
