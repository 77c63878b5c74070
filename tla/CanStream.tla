----------------------------- MODULE CanStream -----------------------------
(***************************************************************************)
(* The CAN data plane of the STM32 boards (stm32f4disco/can_stream.h): the *)
(* receive interrupts push a record per frame while a capture runs, the    *)
(* main loop pumps records to the host while it listens, and SCPI commands *)
(* start, stop and frame the capture.                                      *)
(*                                                                         *)
(* An interrupt runs to its end between two steps of the main loop, so a   *)
(* push is one step, and a command is as many as an interrupt can tell     *)
(* apart.  A record is the plug-in it was captured in.                     *)
(***************************************************************************)
EXTENDS Integers, Sequences

CONSTANTS
  StreamCap,    \* records the ring holds
  PipeCap,      \* frames of a record the endpoint's FIFO holds
  MaxOffered,   \* bound: frames received during one capture
  MaxPlugs      \* bound: times the board is plugged in

ASSUME StreamBounds == {StreamCap, PipeCap, MaxOffered, MaxPlugs} \subseteq Nat \ {0}

VARIABLES
  mounted, plugs,     \* the host has configured the device; how often it has
  streamRunning, framing,   \* s_stream_running, s_stream_framing
  records, pipe,      \* s_stream_ring; the stream interface's IN FIFO
  count, lost,        \* s_stream_count, s_stream_dropped
  starting,           \* where cmd_stream_start is
  offered             \* frames received while running, since STARt (history)

plugVars   == <<mounted, plugs>>
streamVars == <<streamRunning, framing, records, pipe, count, lost, starting, offered>>

StreamInit ==
  /\ mounted = TRUE /\ plugs = 1
  /\ streamRunning = FALSE /\ framing = FALSE /\ records = <<>> /\ pipe = <<>>
  /\ count = 0 /\ lost = 0 /\ starting = "no" /\ offered = 0

\* can_stream_push, in the interrupt: a whole record or none.
RecordFits == Len(records) < StreamCap
Push ==
  /\ streamRunning /\ offered < MaxOffered /\ offered' = offered + 1
  /\ \/ /\ RecordFits /\ records' = Append(records, plugs) /\ count' = count + 1
        /\ UNCHANGED lost
     \/ ~RecordFits /\ lost' = lost + 1 /\ UNCHANGED <<records, count>>
  /\ UNCHANGED <<streamRunning, framing, pipe, starting>>

\* can_stream_pump: nobody listens, or what the FIFO takes goes to the host.
Listening == mounted /\ framing
ToHost ==
  \E n \in 0..Len(records) :
    /\ n = Len(records) \/ Len(pipe) + n = PipeCap
    /\ Len(pipe) + n <= PipeCap
    /\ pipe' = pipe \o SubSeq(records, 1, n)
    /\ records' = SubSeq(records, n + 1, Len(records))
Pump ==
  /\ (~Listening /\ records' = <<>> /\ UNCHANGED pipe) \/ (Listening /\ ToHost)
  /\ UNCHANGED <<streamRunning, framing, count, lost, starting, offered>>

------------------------------------------------------------------------------
(* Commands.  STARt stops the interrupts' counting before it clears the two  *)
(* counters, one after the other.                                            *)

StartRunning ==    \* fault: the capture goes on while the counters are cleared
  /\ starting = "no" /\ starting' = "count" /\ offered' = 0
  /\ UNCHANGED <<streamRunning, framing, records, pipe, count, lost>>
StreamStart ==
  /\ starting = "no" /\ starting' = "count" /\ streamRunning' = FALSE /\ offered' = 0
  /\ UNCHANGED <<framing, records, pipe, count, lost>>
ClearCount ==
  /\ starting = "count" /\ starting' = "lost" /\ count' = 0
  /\ UNCHANGED <<streamRunning, framing, records, pipe, lost, offered>>
ClearLost ==
  /\ starting = "lost" /\ starting' = "no" /\ lost' = 0 /\ streamRunning' = TRUE
  /\ UNCHANGED <<framing, records, pipe, count, offered>>

StreamStop ==
  /\ starting = "no" /\ streamRunning' = FALSE
  /\ UNCHANGED <<framing, records, pipe, count, lost, starting, offered>>
StreamFraming ==
  /\ starting = "no" /\ framing' \in BOOLEAN
  /\ UNCHANGED <<streamRunning, records, pipe, count, lost, starting, offered>>

\* tud_umount_cb.  TinyUSB empties the FIFOs of an interface that goes away.
StreamReset ==
  /\ starting = "no" /\ streamRunning' = FALSE /\ framing' = FALSE /\ pipe' = <<>>
  /\ UNCHANGED <<records, count, lost, starting, offered>>

\* The host takes what the FIFO holds.
ReadPipe ==
  /\ mounted /\ pipe # <<>> /\ pipe' = Tail(pipe)
  /\ UNCHANGED <<streamRunning, framing, records, count, lost, starting, offered>>

------------------------------------------------------------------------------
\* SYSTem:STReam:COUNt? and :DROPped? account for every frame the bus delivered
\* since STARt, whatever interrupt came between the two clears.
EveryFrameAccounted == starting = "no" => offered = count + lost

\* A host never reads a record captured for the host before it.
RecordsOfThisHost == \A i \in 1..Len(pipe) : pipe[i] = plugs

\* What a host reads and what the counters say is its own capture's.
CaptureAccounted == EveryFrameAccounted /\ RecordsOfThisHost
=============================================================================
