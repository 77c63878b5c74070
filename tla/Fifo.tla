-------------------------------- MODULE Fifo --------------------------------
(***************************************************************************)
(* What helpers/ring_buffer.c promises its two threads: a bounded queue of *)
(* bytes.  A write appends all it is given or as much as fits, a read      *)
(* takes from the front, each at one instant.                              *)
(***************************************************************************)
EXTENDS Naturals, Sequences

CONSTANTS Value, Size

VARIABLES
  q,    \* bytes written and not yet consumed
  out   \* what the last read or peek-and-advance took

fifoVars == <<q, out>>

FifoInit == q = <<>> /\ out = <<>>

Put == \E n \in 1..(Size - Len(q)) : \E b \in [1..n -> Value] :
         q' = q \o b /\ UNCHANGED out

Rest(n) == SubSeq(q, n + 1, Len(q))

Take == \E n \in 0..Len(q) : out' = SubSeq(q, 1, n) /\ q' = Rest(n)

\* usbscpi_ring_advance on its own, as realign() in the stream glue uses it.
Discard == \E n \in 0..Len(q) : q' = Rest(n) /\ UNCHANGED out

FifoSpec == FifoInit /\ [][Put \/ Take \/ Discard]_fifoVars
=============================================================================
