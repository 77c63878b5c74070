-------------------------------- MODULE Ring --------------------------------
(***************************************************************************)
(* helpers/ring_buffer.c between its producer and its consumer thread, one *)
(* shared-memory access at a time.                                         *)
(*                                                                         *)
(* head and tail are free-running size_t indices, here modulo IndexMod,    *)
(* masked only to address buf.  The payload accesses of one call may take  *)
(* effect in any order; the release store that ends it waits for all of    *)
(* them (include/usbscpi/atomic.h), and the acquire load that begins it    *)
(* comes before any.                                                       *)
(***************************************************************************)
EXTENDS Integers, Sequences

CONSTANTS
  Value,
  Garbage,   \* what storage holds before the first write
  Size,      \* the ring's capacity in bytes
  IndexMod,  \* 2^width of size_t
  MaxLen     \* longest request of a caller

ASSUME SizeAssumption == Size \in Nat \ {0} /\ MaxLen \in Nat
\* Size is a power of two (is_power_of_two) smaller than the index range.
ASSUME IndexModAssumption ==
  IndexMod \in Nat /\ IndexMod > Size /\ IndexMod % Size = 0
ASSUME GarbageAssumption == Garbage \notin Value

VARIABLES
  buf, head, tail,
  wstate,    \* the producer: "idle", or "store" while its payload lands
  wdata,     \* the bytes it writes, clamped to what was free
  wpending,  \* positions of wdata not yet in buf
  rstate,    \* the consumer: "idle", "peek" between the two counts of
             \* usbscpi_ring_peek_linear, "copy" while it reads slots
  advancing, \* it releases through usbscpi_ring_advance, not _read
  copied,    \* the bytes it has read, as far as it has
  rpending,  \* positions of copied it has yet to read
  out        \* what the last read took

producer == <<wstate, wdata, wpending>>
consumer == <<rstate, advancing, copied, rpending>>
ringVars == <<buf, head, tail, producer, consumer, out>>

Slot(index) == index % Size
Least(a, b) == IF a < b THEN a ELSE b

RingInit ==
  /\ buf = [s \in 0..(Size - 1) |-> Garbage] /\ head = 0 /\ tail = 0
  /\ wstate = "idle" /\ wdata = <<>> /\ wpending = {}
  /\ rstate = "idle" /\ advancing = FALSE /\ copied = <<>> /\ rpending = {}
  /\ out = <<>>

\* usbscpi_ring_count and usbscpi_ring_free: unsigned subtraction of the two
\* indices, one of which the caller owns.
Count == (head - tail + IndexMod) % IndexMod
FreeMasked == Size - Slot(Count)  \* fault: a full ring looks empty
Free  == Size - Count

------------------------------------------------------------------------------
(* Producer: usbscpi_ring_write. *)

WriteBegin ==
  /\ wstate = "idle" /\ wstate' = "store"
  /\ \E len \in 1..MaxLen : \E data \in [1..Least(len, Free) -> Value] :
       wdata' = data
  /\ wpending' = DOMAIN wdata'
  /\ UNCHANGED <<buf, head, tail, consumer, out>>

WriteStore ==
  /\ \E i \in wpending :
       /\ buf' = [buf EXCEPT ![Slot(head + i - 1)] = wdata[i]]
       /\ wpending' = wpending \ {i}
  /\ UNCHANGED <<head, tail, wstate, wdata, consumer, out>>

WritePublish ==
  /\ wstate = "store" /\ wpending = {}
  /\ head' = (head + Len(wdata)) % IndexMod
  /\ wstate' = "idle" /\ wdata' = <<>>
  /\ UNCHANGED <<buf, tail, wpending, consumer, out>>

------------------------------------------------------------------------------
(* Consumer: usbscpi_ring_read, or peek_linear followed by advance. *)

Copy(n) ==
  /\ rstate' = "copy" /\ copied' = [i \in 1..n |-> Garbage] /\ rpending' = 1..n
  /\ UNCHANGED <<buf, head, tail, producer, out>>

ReadBegin ==
  /\ rstate = "idle" /\ advancing' = FALSE
  /\ \E len \in 1..MaxLen : Copy(Least(len, Count))

\* peek_linear counts once to see whether there is anything ...
PeekBegin ==
  /\ rstate = "idle" /\ Count # 0
  /\ rstate' = "peek"
  /\ UNCHANGED <<buf, head, tail, producer, advancing, copied, rpending, out>>

\* ... and again for how much of it is contiguous; its caller uses the first n
\* bytes of that chunk (drain() sends them) before it advances by n.
PeekLinear ==
  /\ rstate = "peek" /\ advancing' = TRUE
  /\ \E n \in 1..Least(Size - Slot(tail), Count) : Copy(n)

ReadSlot ==
  /\ \E i \in rpending :
       /\ copied' = [copied EXCEPT ![i] = buf[Slot(tail + i - 1)]]
       /\ rpending' = rpending \ {i}
  /\ UNCHANGED <<buf, head, tail, producer, rstate, advancing, out>>

\* usbscpi_ring_advance counts anew and never passes head.
ReadReleaseEarly ==  \* fault: the tail store is not ordered behind the loads
  /\ rstate = "copy"
  /\ tail' = (tail + Len(copied)) % IndexMod
  /\ out' = copied
  /\ rstate' = "idle" /\ advancing' = FALSE /\ copied' = <<>> /\ rpending' = {}
  /\ UNCHANGED <<buf, head, producer>>
ReadRelease ==
  /\ rstate = "copy" /\ rpending = {}
  /\ LET n == IF advancing THEN Least(Len(copied), Count) ELSE Len(copied)
     IN tail' = (tail + n) % IndexMod
  /\ out' = copied
  /\ rstate' = "idle" /\ advancing' = FALSE /\ copied' = <<>>
  /\ UNCHANGED <<buf, head, producer, rpending>>

Advance ==
  /\ rstate = "idle"
  /\ \E len \in 1..MaxLen : tail' = (tail + Least(len, Count)) % IndexMod
  /\ UNCHANGED <<buf, head, producer, consumer, out>>

RingNext ==
  \/ WriteBegin \/ WriteStore \/ WritePublish
  \/ ReadBegin \/ PeekBegin \/ PeekLinear \/ ReadSlot \/ ReadRelease \/ Advance

RingSpec == RingInit /\ [][RingNext]_ringVars

------------------------------------------------------------------------------
Stored == Value \cup {Garbage}

\* The type invariant.
RingTypeOK ==
  /\ buf \in [0..(Size - 1) -> Stored]
  /\ head \in 0..(IndexMod - 1) /\ tail \in 0..(IndexMod - 1)
  /\ wstate \in {"idle", "store"} /\ rstate \in {"idle", "peek", "copy"}
  /\ wdata \in Seq(Value) /\ wpending \subseteq DOMAIN wdata
  /\ advancing \in BOOLEAN
  /\ copied \in Seq(Stored) /\ rpending \subseteq DOMAIN copied
  /\ out \in Seq(Stored)

\* The producer's payload and what is already queued fit in the ring together,
\* and the consumer works on published bytes only, however far the other
\* thread has moved on since each of them counted.
NoOverrun ==
  /\ Count + Len(wdata) <= Size
  /\ rstate = "copy" => Len(copied) <= Count

\* The two threads never touch one slot at a time: what the producer is
\* storing and what the consumer is reading, or has been handed a pointer to,
\* are disjoint, also where the indices wrap.
NoRace ==
  wstate = "store" /\ rstate = "copy" =>
    \A i \in DOMAIN wdata, j \in DOMAIN copied :
      Slot(head + i - 1) # Slot(tail + j - 1)

\* Neither thread ever reaches into what is the other's, on however stale a
\* count it acts.
SlotsSafe == NoOverrun /\ NoRace

\* The ring is a FIFO of bytes: a reader gets exactly the bytes written, in
\* order, and none before its write is complete.
Queued == [i \in 1..Count |-> buf[Slot(tail + i - 1)]]
Queue == INSTANCE Fifo WITH q <- Queued, out <- out
IsFifo == Queue!FifoSpec
=============================================================================
