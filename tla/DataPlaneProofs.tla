--------------------------- MODULE DataPlaneProofs ---------------------------
(***************************************************************************)
(* The data plane, for every size: the ring's two threads never race and   *)
(* it is a FIFO (proofs about Ring); the records drained from it reach each *)
(* consumer whole and in order, and what was torn or dropped is known      *)
(* (proofs about Stream).                                                  *)
(***************************************************************************)
EXTENDS Ring, Stream, SequenceTheorems, TLAPS

------------------------------------------------------------------------------
(* Remainders. *)

\* What division with remainder is.
LEMMA Division ==
  ASSUME NEW m \in Nat \ {0}, NEW a \in Int
  PROVE  /\ a % m \in 0..(m - 1)
         /\ a \div m \in Int
         /\ a = m * (a \div m) + (a % m)
OBVIOUS

\* An index within range is its own remainder.
LEMMA ModWithin ==
  ASSUME NEW m \in Nat \ {0}, NEW a \in 0..(m - 1)
  PROVE  a % m = a
OBVIOUS

\* An index that ran over once loses one modulus.
LEMMA ModOver ==
  ASSUME NEW m \in Nat \ {0}, NEW a \in m..(2 * m - 1)
  PROVE  a % m = a - m
OBVIOUS

\* A positive multiple is no smaller than what it is a multiple of.
LEMMA Multiple ==
  ASSUME NEW s \in Nat \ {0}, NEW k \in Int, k >= 1
  PROVE  s * k >= s
OBVIOUS

\* A multiple nearer to zero than its factor is zero.
LEMMA SmallMultiple ==
  ASSUME NEW s \in Nat \ {0}, NEW k \in Int, s * k < s, -s < s * k
  PROVE  k = 0
<1>1. CASE k >= 1
  BY <1>1, Multiple
<1>2. CASE k <= -1
  <2>1. -k \in Int /\ -k >= 1
    BY <1>2
  <2>2. s * (-k) >= s
    BY <2>1, Multiple
  <2>3. QED
    BY <2>2
<1>3. QED
  BY <1>1, <1>2

\* Indices less than a ring apart fall on different slots.
LEMMA SlotsDiffer ==
  ASSUME NEW s \in Nat \ {0}, NEW x \in Int, NEW y \in Int, x < y, y - x < s
  PROVE  x % s # y % s
<1>1. SUFFICES ASSUME x % s = y % s PROVE FALSE
  OBVIOUS
<1>2. x = s * (x \div s) + (x % s) /\ x \div s \in Int
  BY Division
<1>3. y = s * (y \div s) + (y % s) /\ y \div s \in Int
  BY Division
<1> DEFINE k == (y \div s) - (x \div s)
<1>4. k \in Int /\ y - x = s * k
  BY <1>1, <1>2, <1>3
<1>5. k = 0
  BY <1>4, SmallMultiple
<1>6. QED
  BY <1>4, <1>5

\* Adding the index range, a multiple of the ring's size, keeps the slot.
LEMMA WrapKeepsSlot ==
  ASSUME NEW s \in Nat \ {0}, NEW m \in Nat, m % s = 0, NEW x \in Int
  PROVE  (x + m) % s = x % s
<1>1. m = s * (m \div s) /\ m \div s \in Int
  BY Division
<1>2. x = s * (x \div s) + (x % s) /\ x \div s \in Int /\ x % s \in 0..(s - 1)
  BY Division
<1> DEFINE y == x + m
<1>3. y \in Int
  OBVIOUS
<1> HIDE DEF y
<1>4. y = s * (y \div s) + (y % s) /\ y \div s \in Int /\ y % s \in 0..(s - 1)
  BY <1>3, Division
<1> DEFINE k == (x \div s) + (m \div s) - (y \div s)
<1>5. k \in Int /\ s * k = (y % s) - (x % s)
  BY <1>1, <1>2, <1>4 DEF y
<1> HIDE DEF k
<1>6. s * k < s /\ -s < s * k
  <2>1. x % s \in 0..(s - 1) /\ y % s \in 0..(s - 1)
    BY <1>2, <1>4
  <2>2. (y % s) - (x % s) < s /\ -s < (y % s) - (x % s)
    BY <2>1
  <2>3. QED
    BY <1>5, <2>2
<1>7. k = 0
  BY <1>5, <1>6, SmallMultiple
<1>8. y % s = x % s
  BY <1>2, <1>4, <1>5, <1>7
<1>9. QED
  BY <1>8 DEF y

------------------------------------------------------------------------------
(* The count of the indices. *)

CountOf(h, t) == (h - t + IndexMod) % IndexMod
Index == 0..(IndexMod - 1)

\* The unsigned difference of two indices, without the remainder.
LEMMA CountValue ==
  ASSUME NEW h \in Index, NEW t \in Index
  PROVE  /\ CountOf(h, t) = IF h >= t THEN h - t ELSE h - t + IndexMod
         /\ CountOf(h, t) \in Index
<1> USE SizeAssumption, IndexModAssumption
<1>1. CASE h >= t
  <2>1. h - t + IndexMod \in IndexMod..(2 * IndexMod - 1)
    BY <1>1 DEF Index
  <2>2. CountOf(h, t) = h - t
    BY <2>1, ModOver DEF CountOf, Index
  <2>3. QED
    BY <1>1, <2>2 DEF Index
<1>2. CASE h < t
  <2>1. h - t + IndexMod \in 0..(IndexMod - 1)
    BY <1>2 DEF Index
  <2>2. CountOf(h, t) = h - t + IndexMod
    BY <2>1, ModWithin DEF CountOf, Index
  <2>3. QED
    BY <1>2, <2>1, <2>2 DEF Index
<1>3. QED
  BY <1>1, <1>2 DEF Index

\* An index moved on by less than the index range.
LEMMA Moved ==
  ASSUME NEW a \in Index, NEW n \in Nat, n < IndexMod
  PROVE  /\ (a + n) % IndexMod = IF a + n < IndexMod THEN a + n ELSE a + n - IndexMod
         /\ (a + n) % IndexMod \in Index
<1>0. IndexMod \in Nat \ {0}
  BY SizeAssumption, IndexModAssumption
<1>1. CASE a + n < IndexMod
  BY <1>0, <1>1, ModWithin DEF Index
<1>2. CASE a + n >= IndexMod
  <2>1. a + n \in IndexMod..(2 * IndexMod - 1)
    BY <1>0, <1>2 DEF Index
  <2>2. (a + n) % IndexMod = a + n - IndexMod
    BY <1>0, <2>1, ModOver DEF Index
  <2>3. QED
    BY <1>0, <1>2, <2>1, <2>2 DEF Index
<1>3. QED
  BY <1>0, <1>1, <1>2 DEF Index

\* Publishing n bytes adds n to the count as long as the ring is smaller than
\* the index range.
LEMMA Grows ==
  ASSUME NEW h \in Index, NEW t \in Index, NEW n \in Nat,
         CountOf(h, t) + n < IndexMod
  PROVE  CountOf((h + n) % IndexMod, t) = CountOf(h, t) + n
<1> DEFINE h2 == (h + n) % IndexMod
<1>0. IndexMod \in Nat
  BY IndexModAssumption
<1>1. CountOf(h, t) \in Index /\ n < IndexMod
  BY <1>0, CountValue DEF Index
<1>2. /\ h2 = IF h + n < IndexMod THEN h + n ELSE h + n - IndexMod
      /\ h2 \in Index
  BY <1>1, Moved
<1> HIDE DEF h2
<1>3. CountOf(h2, t) = IF h2 >= t THEN h2 - t ELSE h2 - t + IndexMod
  BY <1>2, CountValue
<1>4. CountOf(h, t) = IF h >= t THEN h - t ELSE h - t + IndexMod
  BY CountValue
<1>5. CountOf(h2, t) = CountOf(h, t) + n
  BY <1>0, <1>1, <1>2, <1>3, <1>4 DEF Index
<1>6. QED
  BY <1>5 DEF h2

\* Releasing n counted bytes takes n off the count.
LEMMA Shrinks ==
  ASSUME NEW h \in Index, NEW t \in Index, NEW n \in Nat, n <= CountOf(h, t)
  PROVE  CountOf(h, (t + n) % IndexMod) = CountOf(h, t) - n
<1> DEFINE t2 == (t + n) % IndexMod
<1>0. IndexMod \in Nat
  BY IndexModAssumption
<1>1. CountOf(h, t) \in Index /\ n < IndexMod
  BY <1>0, CountValue DEF Index
<1>2. /\ t2 = IF t + n < IndexMod THEN t + n ELSE t + n - IndexMod
      /\ t2 \in Index
  BY <1>1, Moved
<1> HIDE DEF t2
<1>3. CountOf(h, t2) = IF h >= t2 THEN h - t2 ELSE h - t2 + IndexMod
  BY <1>2, CountValue
<1>4. CountOf(h, t) = IF h >= t THEN h - t ELSE h - t + IndexMod
  BY CountValue
<1>5. CountOf(h, t2) = CountOf(h, t) - n
  BY <1>0, <1>1, <1>2, <1>3, <1>4 DEF Index
<1>6. QED
  BY <1>5 DEF t2

------------------------------------------------------------------------------
(* The invariant. *)

RingInv == RingTypeOK /\ NoOverrun

\* The count is a natural number, and the lemmas above speak of it.
LEMMA CountType ==
  ASSUME RingTypeOK
  PROVE  Count = CountOf(head, tail) /\ Count \in Nat
<1>1. head \in Index /\ tail \in Index
  BY DEF RingTypeOK, Index
<1>2. CountOf(head, tail) \in Index
  BY <1>1, CountValue
<1>3. QED
  BY <1>2, IndexModAssumption DEF Count, CountOf, Index

LEMMA RingInitInv == RingInit => RingInv
<1>1. SUFFICES ASSUME RingInit PROVE RingInv
  OBVIOUS
<1>2. IndexMod \in Nat \ {0} /\ Size \in Nat
  BY SizeAssumption, IndexModAssumption
<1>3. <<>> \in Seq(Value) /\ <<>> \in Seq(Stored) /\ Len(<<>>) = 0
  OBVIOUS
<1>4. RingTypeOK
  <2>1. buf \in [0..(Size - 1) -> Stored]
    BY <1>1 DEF RingInit, Stored
  <2>2. head \in 0..(IndexMod - 1) /\ tail \in 0..(IndexMod - 1)
    BY <1>1, <1>2 DEF RingInit
  <2>3. wstate \in {"idle", "store"} /\ rstate \in {"idle", "peek", "copy"}
    BY <1>1 DEF RingInit
  <2>4. wdata \in Seq(Value) /\ wpending \subseteq DOMAIN wdata
    BY <1>1, <1>3 DEF RingInit
  <2>5. copied \in Seq(Stored) /\ rpending \subseteq DOMAIN copied /\ out \in Seq(Stored)
    BY <1>1, <1>3 DEF RingInit
  <2>6. advancing \in BOOLEAN
    BY <1>1 DEF RingInit
  <2>7. QED
    BY <2>1, <2>2, <2>3, <2>4, <2>5, <2>6 DEF RingTypeOK
<1>5. Count = 0
  <2>1. 0 \in Index /\ head = 0 /\ tail = 0
    BY <1>1, <1>2 DEF Index, RingInit
  <2>2. CountOf(0, 0) = 0
    BY <2>1, CountValue
  <2>3. QED
    BY <2>1, <2>2 DEF Count, CountOf
<1>6. NoOverrun
  BY <1>1, <1>2, <1>3, <1>5 DEF RingInit, NoOverrun
<1>7. QED
  BY <1>4, <1>6 DEF RingInv

\* Copy starts a read of n bytes, which do not exceed the count.
LEMMA CopyInv ==
  ASSUME RingInv, NEW n \in Nat, n <= Count, Copy(n), advancing' \in BOOLEAN
  PROVE  RingInv'
<1>1. copied' = [i \in 1..n |-> Garbage] /\ rpending' = 1..n
  BY DEF Copy
<1>2. copied' \in Seq(Stored) /\ Len(copied') = n /\ DOMAIN copied' = 1..n
  BY <1>1 DEF Stored
<1>3. RingTypeOK'
  BY <1>1, <1>2 DEF RingInv, RingTypeOK, Copy, producer
<1>4. Count' = Count /\ wdata' = wdata
  BY DEF Copy, Count, producer
<1>5. NoOverrun'
  BY <1>2, <1>4 DEF RingInv, NoOverrun
<1>6. QED
  BY <1>3, <1>5 DEF RingInv

LEMMA RingStepInv == RingInv /\ [RingNext]_ringVars => RingInv'
<1> SUFFICES ASSUME RingInv, [RingNext]_ringVars PROVE RingInv'
  OBVIOUS
<1> USE DEF producer, consumer
<1>ring. /\ RingTypeOK /\ NoOverrun /\ Count = CountOf(head, tail) /\ Count \in Nat
         /\ head \in Index /\ tail \in Index /\ Len(wdata) \in Nat
         /\ Len(copied) \in Nat /\ Count + Len(wdata) <= Size
  BY CountType DEF RingInv, NoOverrun, RingTypeOK, Index
<1>sizes. Size \in Nat \ {0} /\ MaxLen \in Nat /\ IndexMod \in Nat /\ Size < IndexMod
  BY SizeAssumption, IndexModAssumption
<1>empty. <<>> \in Seq(Value) /\ <<>> \in Seq(Stored) /\ Len(<<>>) = 0
  OBVIOUS
<1>1. CASE WriteBegin
  <2>1. PICK len \in 1..MaxLen : \E data \in [1..Least(len, Free) -> Value] :
                                    wdata' = data
    BY <1>1 DEF WriteBegin
  <2>2. Free \in Nat
    BY <1>ring, <1>sizes DEF Free
  <2>3. Least(len, Free) \in Nat /\ Least(len, Free) <= Free
    BY <2>2, <1>sizes DEF Least
  <2>4. wdata' \in Seq(Value) /\ Len(wdata') = Least(len, Free)
    BY <2>1, <2>3
  <2>5. RingTypeOK'
    BY <1>1, <1>ring, <2>4 DEF WriteBegin, RingTypeOK
  <2>6. Count' = Count
    BY <1>1 DEF WriteBegin, Count
  <2>7. Count' + Len(wdata') <= Size
    BY <1>ring, <1>sizes, <2>3, <2>4, <2>6 DEF Free
  <2>8. QED
    BY <1>1, <1>ring, <2>5, <2>6, <2>7 DEF WriteBegin, RingInv, NoOverrun
<1>2. CASE WriteStore
  <2>1. PICK i \in wpending :
          /\ buf' = [buf EXCEPT ![Slot(head + i - 1)] = wdata[i]]
          /\ wpending' = wpending \ {i}
    BY <1>2 DEF WriteStore
  <2>2. wdata[i] \in Stored
    BY <1>ring DEF RingTypeOK, Stored
  <2>3. buf' \in [0..(Size - 1) -> Stored]
    BY <1>ring, <2>1, <2>2 DEF RingTypeOK
  <2>4. RingTypeOK'
    BY <1>2, <1>ring, <2>1, <2>3 DEF WriteStore, RingTypeOK
  <2>5. QED
    BY <1>2, <1>ring, <2>4 DEF WriteStore, RingInv, NoOverrun, Count
<1>3. CASE WritePublish
  <2>1. head' = (head + Len(wdata)) % IndexMod /\ tail' = tail /\ wdata' = <<>>
    BY <1>3 DEF WritePublish
  <2>2. Count + Len(wdata) < IndexMod /\ Len(wdata) < IndexMod
    BY <1>ring, <1>sizes
  <2>3. head' \in Index
    BY <1>ring, <2>1, <2>2, Moved
  <2>4. Count' = Count + Len(wdata)
    BY <1>ring, <2>1, <2>2, Grows DEF Count, CountOf
  <2>5. RingTypeOK'
    BY <1>3, <1>ring, <1>empty, <2>1, <2>3 DEF WritePublish, RingTypeOK, Index
  <2>6. NoOverrun'
    BY <1>3, <1>ring, <1>sizes, <1>empty, <2>1, <2>4 DEF WritePublish, NoOverrun
  <2>7. QED
    BY <2>5, <2>6 DEF RingInv
<1>4. CASE ReadBegin
  <2>1. PICK len \in 1..MaxLen : Copy(Least(len, Count)) /\ advancing' = FALSE
    BY <1>4 DEF ReadBegin
  <2>2. Least(len, Count) \in Nat /\ Least(len, Count) <= Count
    BY <1>ring, <1>sizes DEF Least
  <2>3. QED
    BY <2>1, <2>2, CopyInv
<1>5. CASE PeekBegin
  <2>1. RingTypeOK'
    BY <1>5, <1>ring DEF PeekBegin, RingTypeOK
  <2>2. QED
    BY <1>5, <1>ring, <2>1 DEF PeekBegin, RingInv, NoOverrun, Count
<1>6. CASE PeekLinear
  <2>1. PICK n \in 1..Least(Size - Slot(tail), Count) : Copy(n) /\ advancing' = TRUE
    BY <1>6 DEF PeekLinear
  <2>2. Size - Slot(tail) \in Nat
    BY <1>ring, <1>sizes, Division DEF Slot, Index
  <2>3. n \in Nat /\ n <= Count
    BY <1>ring, <2>1, <2>2 DEF Least
  <2>4. QED
    BY <2>1, <2>3, CopyInv
<1>7. CASE ReadSlot
  <2>1. PICK i \in rpending :
          /\ copied' = [copied EXCEPT ![i] = buf[Slot(tail + i - 1)]]
          /\ rpending' = rpending \ {i}
    BY <1>7 DEF ReadSlot
  <2>2. i \in Int /\ tail + i - 1 \in Int
    BY <1>ring DEF RingTypeOK, Index
  <2>3. Slot(tail + i - 1) \in 0..(Size - 1)
    BY <1>sizes, <2>2, Division DEF Slot
  <2>4. buf[Slot(tail + i - 1)] \in Stored
    BY <1>ring, <2>3 DEF RingTypeOK
  <2>5. copied' \in Seq(Stored) /\ Len(copied') = Len(copied)
        /\ DOMAIN copied' = DOMAIN copied
    BY <1>ring, <2>1, <2>4 DEF RingTypeOK
  <2>6. RingTypeOK'
    BY <1>7, <1>ring, <2>1, <2>5 DEF ReadSlot, RingTypeOK
  <2>7. QED
    BY <1>7, <1>ring, <2>5, <2>6 DEF ReadSlot, RingInv, NoOverrun, Count
<1>8. CASE ReadRelease
  <2>1. Len(copied) <= Count
    BY <1>8, <1>ring DEF ReadRelease, NoOverrun
  <2>2. Least(Len(copied), Count) = Len(copied)
    BY <1>ring, <2>1 DEF Least
  <2>3. tail' = (tail + Len(copied)) % IndexMod /\ head' = head
    BY <1>8, <2>2 DEF ReadRelease
  <2>4. tail' \in Index
    BY <1>ring, <1>sizes, <2>1, <2>3, Moved
  <2>5. Count' = Count - Len(copied)
    BY <1>ring, <2>1, <2>3, Shrinks DEF Count, CountOf
  <2>6. RingTypeOK'
    BY <1>8, <1>ring, <1>empty, <2>3, <2>4 DEF ReadRelease, RingTypeOK, Index
  <2>7. NoOverrun'
    BY <1>8, <1>ring, <1>sizes, <2>5 DEF ReadRelease, NoOverrun
  <2>8. QED
    BY <2>6, <2>7 DEF RingInv
<1>9. CASE Advance
  <2>1. PICK len \in 1..MaxLen : tail' = (tail + Least(len, Count)) % IndexMod
    BY <1>9 DEF Advance
  <2> DEFINE n == Least(len, Count)
  <2>2. n \in Nat /\ n <= Count
    BY <1>ring, <1>sizes DEF Least
  <2>3. tail' = (tail + n) % IndexMod /\ head' = head
    BY <1>9, <2>1 DEF Advance
  <2> HIDE DEF n
  <2>4. tail' \in Index
    BY <1>ring, <1>sizes, <2>2, <2>3, Moved
  <2>5. Count' = Count - n
    BY <1>ring, <2>2, <2>3, Shrinks DEF Count, CountOf
  <2>6. RingTypeOK'
    BY <1>9, <1>ring, <2>3, <2>4 DEF Advance, RingTypeOK, Index
  <2>7. NoOverrun'
    BY <1>9, <1>ring, <1>sizes, <2>2, <2>5 DEF Advance, NoOverrun
  <2>8. QED
    BY <2>6, <2>7 DEF RingInv
<1>10. CASE UNCHANGED ringVars
  BY <1>10, <1>ring DEF ringVars, RingInv, RingTypeOK, NoOverrun, Count
<1>11. QED
  BY <1>1, <1>2, <1>3, <1>4, <1>5, <1>6, <1>7, <1>8, <1>9, <1>10 DEF RingNext

\* The invariant holds in every state the two threads can reach.
THEOREM RingInvariance == RingSpec => []RingInv
BY RingInitInv, RingStepInv, PTL DEF RingSpec

\* Every variable of the ring keeps its type: the indices stay in their width.
THEOREM RingTypeCorrect == RingSpec => []RingTypeOK
<1>1. RingInv => RingTypeOK
  BY DEF RingInv
<1>2. QED
  BY <1>1, RingInvariance, PTL

\* No write of usbscpi_ring_write reaches bytes not yet consumed, and no read
\* reaches bytes not yet published, for every size and every index width.
THEOREM NoOverrunEver == RingSpec => []NoOverrun
<1>1. RingInv => NoOverrun
  BY DEF RingInv
<1>2. QED
  BY <1>1, RingInvariance, PTL

\* The slots a write goes to follow on those that are queued.
LEMMA HeadFollows ==
  ASSUME RingTypeOK, NEW i \in Nat
  PROVE  Slot(tail + Count + i - 1) = Slot(head + i - 1)
<1>sizes. Size \in Nat \ {0} /\ IndexMod \in Nat /\ IndexMod % Size = 0
  BY SizeAssumption, IndexModAssumption
<1>1. head \in Index /\ tail \in Index /\ Count = CountOf(head, tail) /\ Count \in Nat
  BY CountType DEF RingTypeOK, Index
<1>2. Count = IF head >= tail THEN head - tail ELSE head - tail + IndexMod
  BY <1>1, CountValue
<1>3. head \in Int /\ tail \in Int
  BY <1>1, <1>sizes DEF Index
<1>4. CASE head >= tail
  <2>1. tail + Count + i - 1 = head + i - 1
    BY <1>2, <1>3, <1>4
  <2>2. QED
    BY <2>1
<1>5. CASE ~(head >= tail)
  <2>1. tail + Count + i - 1 = (head + i - 1) + IndexMod /\ head + i - 1 \in Int
    BY <1>2, <1>3, <1>5, <1>sizes
  <2>2. ((head + i - 1) + IndexMod) % Size = (head + i - 1) % Size
    BY <1>sizes, <2>1, WrapKeepsSlot
  <2>3. QED
    BY <2>1, <2>2 DEF Slot
<1>6. QED
  BY <1>4, <1>5

\* A free slot is none of those that are queued.
LEMMA Apart ==
  ASSUME RingTypeOK, NEW i \in Nat \ {0}, NEW j \in Nat \ {0}, Count + i <= Size, j <= Count
  PROVE  Slot(head + i - 1) # Slot(tail + j - 1)
<1>sizes. Size \in Nat \ {0}
  BY SizeAssumption
<1>1. tail \in Nat /\ Count \in Nat
  BY CountType, IndexModAssumption DEF RingTypeOK
<1> DEFINE y == tail + Count + i - 1
           x == tail + j - 1
<1>2. x \in Int /\ y \in Int /\ x < y /\ y - x < Size
  BY <1>1, <1>sizes
<1>3. y % Size # x % Size
  BY <1>2, <1>sizes, SlotsDiffer
<1>4. QED
  BY <1>3, HeadFollows DEF Slot

\* The slots of a write and of a read in progress are disjoint.
LEMMA Disjoint == RingInv => NoRace
<1> SUFFICES ASSUME RingInv, wstate = "store", rstate = "copy",
                    NEW i \in DOMAIN wdata, NEW j \in DOMAIN copied
             PROVE  Slot(head + i - 1) # Slot(tail + j - 1)
  BY DEF NoRace
<1>1. /\ i \in Nat \ {0} /\ i <= Len(wdata) /\ j \in Nat \ {0} /\ j <= Len(copied)
      /\ Len(wdata) \in Nat /\ Len(copied) \in Nat /\ Count \in Nat
  BY CountType DEF RingInv, RingTypeOK
<1>2. Count + i <= Size /\ j <= Count
  BY <1>1, SizeAssumption DEF RingInv, NoOverrun
<1>3. QED
  BY <1>1, <1>2, Apart DEF RingInv

\* The producer and the consumer never touch the same slot at the same time,
\* for every size and index width and wherever the indices wrap.
THEOREM RaceFree == RingSpec => []NoRace
BY Disjoint, RingInvariance, PTL

\* The two together: the slots the producer writes hold nothing that is still
\* to be read, and nothing that is being read.
THEOREM SlotsAlwaysSafe == RingSpec => []SlotsSafe
<1>1. NoOverrun /\ NoRace => SlotsSafe
  BY DEF SlotsSafe
<1>2. QED BY NoOverrunEver, RaceFree, <1>1, PTL

------------------------------------------------------------------------------
(* The ring is a FIFO. *)

\* What a write in progress has stored is in its slots, and what a read in
\* progress has copied is what those hold.
Landed == \A i \in DOMAIN wdata \ wpending : buf[Slot(head + i - 1)] = wdata[i]
Taken  == rstate = "copy" =>
            \A i \in DOMAIN copied \ rpending : copied[i] = buf[Slot(tail + i - 1)]
ContentInv == RingInv /\ Landed /\ Taken

\* Queued as a sequence.
LEMMA QueuedSeq ==
  ASSUME RingTypeOK
  PROVE  /\ Queued \in Seq(Stored) /\ Len(Queued) = Count /\ Count \in Nat
         /\ \A i \in 1..Count : Queued[i] = buf[Slot(tail + i - 1)]
<1>1. Count \in Nat /\ Size \in Nat \ {0} /\ tail \in Nat
  BY CountType, SizeAssumption, IndexModAssumption DEF RingTypeOK
<1>2. ASSUME NEW i \in 1..Count PROVE buf[Slot(tail + i - 1)] \in Stored
  <2>1. Slot(tail + i - 1) \in 0..(Size - 1)
    BY <1>1, Division DEF Slot
  <2>2. QED BY <2>1 DEF RingTypeOK
<1>3. QED BY <1>1, <1>2 DEF Queued

\* Releasing n bytes leaves the rest of the queue as it was.
LEMMA Released ==
  ASSUME RingTypeOK, NEW n \in Nat, n <= Count,
         tail' = (tail + n) % IndexMod, head' = head, buf' = buf, RingTypeOK'
  PROVE  Queued' = SubSeq(Queued, n + 1, Len(Queued))
<1>sizes. Size \in Nat \ {0} /\ IndexMod \in Nat /\ IndexMod % Size = 0
  BY SizeAssumption, IndexModAssumption
<1>1. head \in Index /\ tail \in Index /\ Count = CountOf(head, tail) /\ Count \in Nat
  BY CountType DEF RingTypeOK, Index
<1>2. Count' = Count - n
  BY <1>1, Shrinks DEF Count, CountOf
<1>3. /\ Queued \in Seq(Stored) /\ Len(Queued) = Count
      /\ \A i \in 1..Count : Queued[i] = buf[Slot(tail + i - 1)]
  BY QueuedSeq
<1> DEFINE rest == SubSeq(Queued, n + 1, Count)
<1>4. \A i \in (n + 1)..Count : Queued[i] \in Stored
  BY <1>1, <1>3
<1>5. /\ rest \in Seq(Stored)
      /\ Len(rest) = IF n + 1 <= Count THEN Count - (n + 1) + 1 ELSE 0
      /\ \A i \in 1..(Count - (n + 1) + 1) : rest[i] = Queued[(n + 1) + i - 1]
  <2>1. n + 1 \in Int /\ Count \in Int
    BY <1>1
  <2>2. QED
    BY <1>4, <2>1, SubSeqProperties
<1>6. /\ Queued' \in Seq(Stored) /\ Len(Queued') = Count'
      /\ \A i \in 1..Count' : Queued'[i] = buf[Slot(tail' + i - 1)]
  <2>1. /\ (Queued \in Seq(Stored) /\ Len(Queued) = Count)'
        /\ (\A i \in 1..Count : Queued[i] = buf[Slot(tail + i - 1)])'
    BY QueuedSeq, PTL
  <2>2. QED BY <2>1
<1> HIDE DEF rest
<1>7. Len(Queued') = Len(rest)
  BY <1>1, <1>2, <1>5, <1>6
<1>8. ASSUME NEW i \in 1..Len(Queued') PROVE Queued'[i] = rest[i]
  <2>1. i \in 1..(Count - n) /\ i \in Nat /\ n + i \in 1..Count
    BY <1>1, <1>2, <1>6
  <2>2. rest[i] = buf[Slot(tail + (n + i) - 1)]
    <3>1. (n + 1) + i - 1 = n + i /\ Count - (n + 1) + 1 = Count - n
      BY <1>1, <2>1
    <3>2. rest[i] = Queued[n + i]
      BY <1>5, <2>1, <3>1
    <3>3. QED BY <1>3, <2>1, <3>2
  <2>3. Slot(tail' + i - 1) = Slot(tail + (n + i) - 1)
    <3>1. n < IndexMod
      BY <1>1, <1>sizes, CountValue DEF Index
    <3>2. tail' = IF tail + n < IndexMod THEN tail + n ELSE tail + n - IndexMod
      BY <1>1, <3>1, Moved
    <3>3. tail \in Nat /\ tail' \in Int /\ tail' + i - 1 \in Int
      BY <1>1, <1>sizes, <2>1, <3>2 DEF Index
    <3>4. (tail' + i - 1) + IndexMod = tail + (n + i) - 1 \/ tail' + i - 1 = tail + (n + i) - 1
      BY SMTT(30), <1>sizes, <2>1, <3>2, <3>3
    <3>5. ((tail' + i - 1) + IndexMod) % Size = (tail' + i - 1) % Size
      BY <1>sizes, <3>3, WrapKeepsSlot
    <3>6. QED BY <3>4, <3>5 DEF Slot
  <2>4. QED BY <1>2, <1>6, <2>1, <2>2, <2>3
<1>9. Queued' = rest
  BY <1>5, <1>6, <1>7, <1>8, SeqEqual
<1>10. QED BY <1>3, <1>9 DEF rest

\* Publishing a write whose bytes have all landed appends them.
LEMMA Published ==
  ASSUME RingInv, Landed, WritePublish, RingTypeOK'
  PROVE  Queued' = Queued \o wdata
<1>1. /\ head \in Index /\ tail \in Index /\ Count = CountOf(head, tail) /\ Count \in Nat
      /\ RingTypeOK /\ Len(wdata) \in Nat /\ wdata \in Seq(Stored)
  BY CountType DEF RingInv, RingTypeOK, Index, Stored
<1>2. Count' = Count + Len(wdata)
  <2>1. Count + Len(wdata) < IndexMod
    BY <1>1, SizeAssumption, IndexModAssumption DEF RingInv, NoOverrun
  <2>2. QED BY <1>1, <2>1, Grows DEF WritePublish, Count, CountOf
<1>3. /\ Queued \in Seq(Stored) /\ Len(Queued) = Count
      /\ \A i \in 1..Count : Queued[i] = buf[Slot(tail + i - 1)]
  BY <1>1, QueuedSeq
<1>4. /\ Queued' \in Seq(Stored) /\ Len(Queued') = Count'
      /\ \A i \in 1..Count' : Queued'[i] = buf[Slot(tail + i - 1)]
  <2>1. /\ (Queued \in Seq(Stored) /\ Len(Queued) = Count)'
        /\ (\A i \in 1..Count : Queued[i] = buf[Slot(tail + i - 1)])'
    BY QueuedSeq, PTL
  <2>2. buf' = buf /\ tail' = tail
    BY DEF WritePublish
  <2>3. QED BY <2>1, <2>2
<1> DEFINE longer == Queued \o wdata
<1>5. /\ longer \in Seq(Stored) /\ Len(longer) = Count + Len(wdata)
      /\ \A i \in 1..(Count + Len(wdata)) :
           longer[i] = IF i <= Count THEN Queued[i] ELSE wdata[i - Count]
  <2>1. /\ longer \in Seq(Stored) /\ Len(longer) = Len(Queued) + Len(wdata)
        /\ \A i \in 1..(Len(Queued) + Len(wdata)) :
             longer[i] = IF i <= Len(Queued) THEN Queued[i] ELSE wdata[i - Len(Queued)]
    BY <1>1, <1>3, ConcatProperties
  <2>2. QED BY <1>3, <2>1
<1> HIDE DEF longer
<1>6. ASSUME NEW i \in 1..Len(Queued') PROVE Queued'[i] = longer[i]
  <2>1. i \in 1..(Count + Len(wdata)) /\ Queued'[i] = buf[Slot(tail + i - 1)]
    BY <1>2, <1>4
  <2>2. CASE i <= Count
    BY <1>1, <1>3, <1>5, <2>1, <2>2
  <2>3. CASE i > Count
    <3> DEFINE k == i - Count
    <3>1. k \in 1..Len(wdata) /\ k \in Nat /\ tail + Count + k - 1 = tail + i - 1
      BY SMTT(30), <1>1, <2>1, <2>3, IndexModAssumption DEF Index
    <3>2. longer[i] = wdata[k]
      BY <1>1, <1>5, <2>1, <2>3
    <3> HIDE DEF k
    <3>3. wdata[k] = buf[Slot(head + k - 1)]
      BY <1>1, <3>1 DEF Landed, WritePublish
    <3>4. Slot(tail + i - 1) = Slot(head + k - 1)
      BY <1>1, <3>1, HeadFollows
    <3>5. QED BY <2>1, <3>2, <3>3, <3>4
  <2>4. QED BY <1>1, <2>1, <2>2, <2>3
<1>7. Queued' = longer
  BY <1>2, <1>4, <1>5, <1>6, SeqEqual
<1>8. QED BY <1>7 DEF longer

\* A store of the producer leaves the queued slots alone.
LEMMA StoredAside ==
  ASSUME RingInv, WriteStore
  PROVE  /\ head' = head /\ tail' = tail /\ Count' = Count
         /\ \A j \in 1..Count : buf'[Slot(tail + j - 1)] = buf[Slot(tail + j - 1)]
<1>1. PICK i \in wpending : buf' = [buf EXCEPT ![Slot(head + i - 1)] = wdata[i]]
  BY DEF WriteStore
<1>2. /\ RingTypeOK /\ Count \in Nat /\ i \in Nat \ {0} /\ Len(wdata) \in Nat /\ i <= Len(wdata)
  BY CountType DEF RingInv, RingTypeOK
<1>3. Count + i <= Size
  BY <1>2, SizeAssumption DEF RingInv, NoOverrun
<1>4. ASSUME NEW j \in 1..Count
      PROVE  buf'[Slot(tail + j - 1)] = buf[Slot(tail + j - 1)]
  <2>1. Slot(head + i - 1) # Slot(tail + j - 1)
    BY <1>2, <1>3, Apart
  <2>2. QED BY <1>1, <1>2, <2>1 DEF RingTypeOK
<1>5. head' = head /\ tail' = tail /\ Count' = Count
  BY DEF WriteStore, Count
<1>6. QED BY <1>4, <1>5

LEMMA ContentInit == RingInit => ContentInv
<1>1. SUFFICES ASSUME RingInit PROVE Landed /\ Taken
  BY RingInitInv DEF ContentInv
<1>2. QED BY <1>1 DEF RingInit, Landed, Taken

\* Every step keeps what has landed and what was taken.
LEMMA ContentStep == ContentInv /\ [RingNext]_ringVars => ContentInv'
<1> SUFFICES ASSUME ContentInv, [RingNext]_ringVars PROVE ContentInv'
  OBVIOUS
<1> USE DEF producer, consumer
<1>inv. RingInv /\ RingInv' /\ Landed /\ Taken /\ RingTypeOK /\ RingTypeOK'
  BY RingStepInv DEF ContentInv, RingInv
<1>types. /\ wdata \in Seq(Value) /\ copied \in Seq(Stored) /\ rpending \subseteq DOMAIN copied
          /\ wpending \subseteq DOMAIN wdata /\ head \in Nat /\ tail \in Nat /\ Count \in Nat
          /\ buf \in [0..(Size - 1) -> Stored] /\ Size \in Nat \ {0}
  BY SMTT(30), <1>inv, CountType, IndexModAssumption, SizeAssumption DEF RingTypeOK
<1>1. CASE WriteBegin
  BY <1>1, <1>inv DEF WriteBegin, Landed, Taken, ContentInv
<1>2. CASE WriteStore
  <2>1. PICK i \in wpending :
          /\ buf' = [buf EXCEPT ![Slot(head + i - 1)] = wdata[i]]
          /\ wpending' = wpending \ {i}
    BY <1>2 DEF WriteStore
  <2>2. wdata' = wdata /\ head' = head /\ tail' = tail /\ i \in Nat \ {0} /\ i \in DOMAIN wdata
    BY <1>2, <1>types, <2>1 DEF WriteStore
  <2>3. ASSUME NEW k \in DOMAIN wdata \ wpending' PROVE buf'[Slot(head + k - 1)] = wdata[k]
    <3>1. k \in Nat \ {0} /\ k <= Len(wdata) /\ i <= Len(wdata) /\ Len(wdata) \in Nat
      BY <1>types, <2>2
    <3>2. /\ Slot(head + k - 1) \in 0..(Size - 1) /\ Slot(head + i - 1) \in 0..(Size - 1)
      <4>1. head + k - 1 \in Int /\ head + i - 1 \in Int
        BY <1>types, <2>2, <3>1
      <4>2. QED BY <1>types, <4>1, Division DEF Slot
    <3>3. CASE k = i
      BY <1>types, <2>1, <3>2, <3>3
    <3>4. CASE k # i
      <4>1. Len(wdata) <= Size
        BY <1>inv, <1>types, <3>1 DEF RingInv, NoOverrun
      <4> DEFINE x == head + k - 1
                 y == head + i - 1
      <4>2. x \in Int /\ y \in Int /\ (x < y \/ y < x) /\ y - x < Size /\ x - y < Size
        BY <1>types, <2>2, <3>1, <3>4, <4>1
      <4>3. x % Size # y % Size
        BY <1>types, <4>2, SlotsDiffer
      <4>4. Slot(head + k - 1) # Slot(head + i - 1)
        BY <4>3 DEF Slot
      <4>5. k \in DOMAIN wdata \ wpending
        BY <2>1, <3>4
      <4>6. QED BY <1>inv, <1>types, <2>1, <3>2, <4>4, <4>5 DEF Landed
    <3>5. QED BY <3>3, <3>4
  <2>4. Landed'
    BY <2>2, <2>3 DEF Landed
  <2>5. Taken'
    <3>1. rstate' = rstate /\ copied' = copied /\ rpending' = rpending
      BY <1>2 DEF WriteStore
    <3>2. SUFFICES ASSUME rstate = "copy", NEW k \in DOMAIN copied \ rpending
                   PROVE  copied[k] = buf'[Slot(tail + k - 1)]
      BY <2>2, <3>1 DEF Taken
    <3>3. k \in 1..Count
      BY <1>inv, <1>types, <3>2 DEF RingInv, NoOverrun
    <3>4. QED BY <1>2, <1>inv, <3>2, <3>3, StoredAside DEF Taken
  <2>6. QED BY <1>inv, <2>4, <2>5 DEF ContentInv
<1>3. CASE WritePublish
  BY <1>3, <1>inv DEF WritePublish, Landed, Taken, ContentInv
<1>4. ASSUME NEW n, Copy(n) PROVE ContentInv'
  BY <1>4, <1>inv DEF Copy, Landed, Taken, ContentInv
<1>5. CASE ReadBegin
  BY <1>4, <1>5 DEF ReadBegin
<1>6. CASE PeekBegin
  BY <1>6, <1>inv DEF PeekBegin, Landed, Taken, ContentInv
<1>7. CASE PeekLinear
  BY <1>4, <1>7 DEF PeekLinear
<1>8. CASE ReadSlot
  <2>1. PICK i \in rpending :
          /\ copied' = [copied EXCEPT ![i] = buf[Slot(tail + i - 1)]]
          /\ rpending' = rpending \ {i}
    BY <1>8 DEF ReadSlot
  <2>2. Landed'
    BY <1>8, <1>inv DEF ReadSlot, Landed
  <2>3. Taken'
    BY <1>8, <1>inv, <1>types, <2>1 DEF ReadSlot, Taken
  <2>4. QED BY <1>inv, <2>2, <2>3 DEF ContentInv
<1>9. CASE ReadRelease
  BY <1>9, <1>inv DEF ReadRelease, Landed, Taken, ContentInv
<1>10. CASE Advance
  <2>1. rstate' = rstate /\ rstate = "idle" /\ UNCHANGED <<buf, head, wdata, wpending>>
    BY <1>10 DEF Advance
  <2>2. QED BY <1>inv, <2>1 DEF Landed, Taken, ContentInv
<1>11. CASE UNCHANGED ringVars
  BY <1>11, <1>inv DEF ringVars, Landed, Taken, ContentInv
<1>12. QED
  BY <1>1, <1>2, <1>3, <1>5, <1>6, <1>7, <1>8, <1>9, <1>10, <1>11 DEF RingNext

\* A step that leaves slots, indices and results alone is none of the queue's.
LEMMA Stutters ==
  ASSUME UNCHANGED <<buf, head, tail, out>>
  PROVE  UNCHANGED Queue!fifoVars
BY DEF Queue!fifoVars, Queued, Count

\* Every step of the two threads is a step of the queue or none.
LEMMA StepMaps ==
  ContentInv /\ RingInv' /\ [RingNext]_ringVars
    => [Queue!Put \/ Queue!Take \/ Queue!Discard]_(Queue!fifoVars)
<1> SUFFICES ASSUME ContentInv, RingInv', [RingNext]_ringVars
             PROVE  \/ Queue!Put \/ Queue!Take \/ Queue!Discard
                    \/ UNCHANGED Queue!fifoVars
  OBVIOUS
<1> USE DEF producer, consumer
<1>inv. RingInv /\ Landed /\ Taken /\ RingTypeOK /\ RingTypeOK'
  BY DEF ContentInv, RingInv
<1>queue. /\ Queued \in Seq(Stored) /\ Len(Queued) = Count /\ Count \in Nat
          /\ \A i \in 1..Count : Queued[i] = buf[Slot(tail + i - 1)]
  BY <1>inv, QueuedSeq
<1>1. CASE WriteStore
  <2>1. /\ head' = head /\ tail' = tail /\ Count' = Count /\ out' = out
        /\ \A j \in 1..Count : buf'[Slot(tail + j - 1)] = buf[Slot(tail + j - 1)]
    BY <1>1, <1>inv, StoredAside DEF WriteStore
  <2>2. Queued' = Queued
    BY <2>1 DEF Queued
  <2>3. QED BY <2>1, <2>2 DEF Queue!fifoVars
<1>2. CASE WritePublish
  <2>1. Queued' = Queued \o wdata /\ out' = out
    BY <1>2, <1>inv, Published DEF WritePublish
  <2>2. wdata \in Seq(Value) /\ Len(wdata) \in 0..(Size - Count)
    BY <1>inv, <1>queue, SizeAssumption DEF RingInv, NoOverrun, RingTypeOK
  <2>3. CASE Len(wdata) = 0
    <3>1. wdata = <<>>
      BY <2>2, <2>3
    <3>2. Queued' = Queued
      BY <1>queue, <2>1, <3>1, ConcatEmptySeq
    <3>3. QED BY <2>1, <3>2 DEF Queue!fifoVars
  <2>4. CASE Len(wdata) # 0
    <3>1. Len(wdata) \in 1..(Size - Len(Queued)) /\ wdata \in [1..Len(wdata) -> Value]
      BY <1>queue, <2>2, <2>4, SizeAssumption
    <3>2. QED BY <2>1, <3>1 DEF Queue!Put
  <2>5. QED BY <2>3, <2>4
<1>3. CASE ReadRelease
  <2> DEFINE n == Len(copied)
  <2>1. /\ copied \in Seq(Stored) /\ n \in Nat /\ n <= Count
        /\ \A i \in 1..n : copied[i] = buf[Slot(tail + i - 1)]
    <3>1. rstate = "copy" /\ rpending = {} /\ copied \in Seq(Stored)
      BY <1>3, <1>inv DEF ReadRelease, RingTypeOK
    <3>2. Len(copied) \in Nat /\ DOMAIN copied = 1..Len(copied) /\ Len(copied) <= Count
      BY <1>inv, <3>1 DEF RingInv, NoOverrun
    <3>3. \A i \in DOMAIN copied : copied[i] = buf[Slot(tail + i - 1)]
      BY <1>inv, <3>1 DEF Taken
    <3>4. QED BY <3>1, <3>2, <3>3
  <2>2. Least(n, Count) = n
    BY <1>queue, <2>1 DEF Least
  <2>3. tail' = (tail + n) % IndexMod /\ head' = head /\ buf' = buf /\ out' = copied
    BY <1>3, <2>2 DEF ReadRelease
  <2> HIDE DEF n
  <2>4. Queued' = SubSeq(Queued, n + 1, Len(Queued))
    BY <1>inv, <2>1, <2>3, Released
  <2>5. copied = SubSeq(Queued, 1, n)
    <3> DEFINE front == SubSeq(Queued, 1, n)
    <3>1. ASSUME NEW i \in 1..n PROVE Queued[i] \in Stored /\ Queued[i] = copied[i]
      <4>1. i \in 1..Count
        BY <1>queue, <2>1
      <4>2. Queued[i] \in Stored
        BY <1>queue, <4>1, ElementOfSeq
      <4>3. QED BY <1>queue, <2>1, <4>1, <4>2
    <3>2. /\ front \in Seq(Stored) /\ Len(front) = IF 1 <= n THEN n - 1 + 1 ELSE 0
          /\ \A i \in 1..(n - 1 + 1) : front[i] = Queued[1 + i - 1]
      <4>1. 1 \in Int /\ n \in Int
        BY <2>1
      <4>2. QED BY <3>1, <4>1, SubSeqProperties
    <3> HIDE DEF front
    <3>3. Len(front) = n /\ \A i \in 1..n : front[i] = Queued[i]
      BY <2>1, <3>2
    <3>4. Len(copied) = Len(front) /\ \A i \in 1..Len(copied) : copied[i] = front[i]
      BY <3>1, <3>3 DEF n
    <3>5. copied = front
      BY <2>1, <3>2, <3>4, SeqEqual
    <3>6. QED BY <3>5 DEF front
  <2>6. n \in 0..Len(Queued)
    BY <1>queue, <2>1
  <2>7. QED BY <2>3, <2>4, <2>5, <2>6 DEF Queue!Take, Queue!Rest
<1>4. CASE Advance
  <2>1. PICK len \in 1..MaxLen : tail' = (tail + Least(len, Count)) % IndexMod
    BY <1>4 DEF Advance
  <2> DEFINE n == Least(len, Count)
  <2>2. n \in Nat /\ n <= Count
    BY <1>queue, SizeAssumption DEF Least
  <2>3. tail' = (tail + n) % IndexMod /\ head' = head /\ buf' = buf /\ out' = out
    BY <1>4, <2>1 DEF Advance
  <2> HIDE DEF n
  <2>4. Queued' = SubSeq(Queued, n + 1, Len(Queued))
    BY <1>inv, <2>2, <2>3, Released
  <2>5. n \in 0..Len(Queued)
    BY <1>queue, <2>2
  <2>6. QED BY <2>3, <2>4, <2>5 DEF Queue!Discard, Queue!Rest
<1>5. CASE WriteBegin \/ PeekBegin \/ ReadSlot \/ ReadBegin \/ PeekLinear
  BY <1>5, Stutters DEF WriteBegin, PeekBegin, ReadSlot, ReadBegin, PeekLinear, Copy
<1>6. CASE UNCHANGED ringVars
  BY <1>6, Stutters DEF ringVars
<1>7. QED
  BY <1>1, <1>2, <1>3, <1>4, <1>5, <1>6 DEF RingNext

\* The queue begins empty.
LEMMA InitMaps == RingInit => Queue!FifoInit
<1>1. SUFFICES ASSUME RingInit PROVE Queued = <<>> /\ out = <<>>
  BY DEF Queue!FifoInit
<1>2. head = 0 /\ tail = 0 /\ out = <<>> /\ IndexMod \in Nat \ {0}
  BY <1>1, SizeAssumption, IndexModAssumption DEF RingInit
<1>3. Count = 0
  <2>1. 0 \in Index
    BY <1>2 DEF Index
  <2>2. CountOf(0, 0) = 0
    BY <2>1, CountValue
  <2>3. QED BY <1>2, <2>2 DEF Count, CountOf
<1>4. QED BY <1>2, <1>3 DEF Queued

\* The ring implements the queue: whatever the two threads do, in whatever
\* order their accesses land, a reader gets the bytes written, all of them, in
\* order and complete, for every size and index width.
THEOREM RingIsFifo == RingSpec => IsFifo
<1>1. RingInv /\ Landed /\ Taken <=> ContentInv
  BY DEF ContentInv
<1>2. RingSpec => []ContentInv
  BY ContentInit, ContentStep, PTL DEF RingSpec
<1>3. QED
  BY <1>2, RingInvariance, InitMaps, StepMaps, PTL DEF RingSpec, IsFifo, Queue!FifoSpec

------------------------------------------------------------------------------
(* Stream.  More on remainders. *)

\* A remainder is known by any quotient it is left over from.
LEMMA RemainderIs ==
  ASSUME NEW s \in Nat \ {0}, NEW q \in Int, NEW r \in 0..(s - 1), NEW x \in Int,
         x = s * q + r
  PROVE  x % s = r
<1>1. x = s * (x \div s) + (x % s) /\ x \div s \in Int /\ x % s \in 0..(s - 1)
  BY Division
<1> DEFINE k == q - (x \div s)
<1>2. k \in Int /\ s * k = (x % s) - r
  BY <1>1
<1> HIDE DEF k
<1>3. s * k < s /\ -s < s * k
  BY <1>1, <1>2
<1>4. k = 0
  BY <1>2, <1>3, SmallMultiple
<1>5. QED BY <1>1, <1>2, <1>4

\* What lies one or more strides further has the same remainder.
LEMMA StrideFurther ==
  ASSUME NEW s \in Nat \ {0}, NEW x \in Int
  PROVE  (x + s) % s = x % s
<1>1. PICK q \in Int : x = s * q + (x % s)
  BY Division
<1>2. x % s \in 0..(s - 1)
  BY Division
<1>3. x + s = s * (q + 1) + (x % s)
  BY <1>1, <1>2
<1>4. q + 1 \in Int /\ x + s \in Int
  OBVIOUS
<1> DEFINE k == q + 1
           y == x + s
           r == x % s
<1>5. k \in Int /\ y \in Int /\ r \in 0..(s - 1) /\ y = s * k + r
  BY <1>2, <1>3, <1>4
<1> HIDE DEF k, y, r
<1>6. y % s = r
  BY <1>5, RemainderIs
<1>7. QED BY <1>6 DEF y, r

\* From a boundary on, remainders count up; down to it, they count down.
LEMMA FromBoundary ==
  ASSUME NEW s \in Nat \ {0}, NEW x \in Int, x % s = 0, NEW r \in 0..(s - 1)
  PROVE  (x + r) % s = r
<1>1. PICK q \in Int : x = s * q + (x % s)
  BY Division
<1>2. x + r = s * q + r
  BY <1>1
<1>3. x + r \in Int
  OBVIOUS
<1>4. QED BY <1>2, <1>3, RemainderIs

LEMMA ToBoundary ==
  ASSUME NEW s \in Nat \ {0}, NEW x \in Int, x % s = 0, NEW y \in Int
  PROVE  (x - y - 1) % s = s - 1 - (y % s)
<1>1. PICK q \in Int : x = s * q + (x % s)
  BY Division
<1>2. PICK k \in Int : y = s * k + (y % s)
  BY Division
<1>3. y % s \in 0..(s - 1)
  BY Division
<1> DEFINE r == y % s
<1> HIDE DEF r
<1>0. s * (q - k - 1) = s * q - s * k - s
  OBVIOUS
<1>4. x - y - 1 = s * (q - k - 1) + (s - 1 - r)
  <2>1. x = s * q /\ y = s * k + r /\ r \in Int /\ s * q \in Int /\ s * k \in Int
    BY <1>1, <1>2, <1>3 DEF r
  <2> QED BY <1>0, <2>1
<1> DEFINE quotient == q - k - 1
           rest == s - 1 - r
           less == x - y - 1
<1>5. quotient \in Int /\ rest \in 0..(s - 1) /\ less \in Int /\ less = s * quotient + rest
  BY <1>3, <1>4 DEF r
<1> HIDE DEF quotient, rest, less
<1>8. less % s = rest
  BY <1>5, RemainderIs
<1>6. (x - y - 1) % s = s - 1 - r
  BY <1>8 DEF less, rest
<1>7. QED BY <1>6 DEF r

\* Less the remainder is a boundary.
LEMMA DownToBoundary ==
  ASSUME NEW s \in Nat \ {0}, NEW x \in Nat
  PROVE  /\ (x - (x % s)) % s = 0
         /\ x - (x % s) \in Nat
         /\ x - (x % s) >= 1 => (x - (x % s) - 1) % s = s - 1
<1>0. x \in Int
  OBVIOUS
<1>1. PICK q \in Int : x = s * q + (x % s)
  BY <1>0, Division
<1>2. x % s \in 0..(s - 1)
  BY <1>0, Division
<1>9. x % s <= x
  OBVIOUS
<1> DEFINE b == x - (x % s)
<1>3. b \in Nat /\ b \in Int /\ b = s * q + 0 /\ 0 \in 0..(s - 1) /\ 0 \in Int
  <2> DEFINE r == x % s
  <2>1. r \in Int /\ r <= x /\ x = s * q + r /\ s * q \in Int
    BY <1>1, <1>2, <1>9
  <2> HIDE DEF r
  <2>2. x - r \in Nat /\ x - r = s * q
    BY <2>1
  <2>3. QED BY <2>2 DEF r
<1> HIDE DEF b
<1>4. b % s = 0
  BY <1>3, RemainderIs
<1>5. (b - 0 - 1) % s = s - 1 - (0 % s)
  BY <1>3, <1>4, ToBoundary
<1>6. 0 % s = 0
  OBVIOUS
<1>7. (b - 1) % s = s - 1
  BY <1>3, <1>5, <1>6
<1>8. QED BY <1>3, <1>4, <1>7 DEF b

------------------------------------------------------------------------------
(* Bytes in a line. *)

Byte == [r : Nat, p : 1..Stride, d : Nat]

Aligned(s) == \A i \in 1..Len(s) : s[i].p = ((i - 1) % Stride) + 1
Phased(s)  == \A i \in 1..Len(s) : s[i].p = Stride - ((Len(s) - i) % Stride)
Joins(a, b) ==
  IF b.p = 1
  THEN a.p = Stride /\ b.r > a.r /\ b.r - a.r - 1 = b.d - a.d
  ELSE b = [a EXCEPT !.p = @ + 1]
Ordered(s) == \A i \in 2..Len(s) : Joins(s[i - 1], s[i])
Same(a, b) == a.r = b.r /\ a.d = b.d
Headed(s)  == \A i \in 1..Len(s) : i >= s[i].p => Same(s[i - s[i].p + 1], s[i])

LEMMA ByteFields ==
  ASSUME NEW b \in Byte
  PROVE  b.r \in Nat /\ b.d \in Nat /\ b.p \in 1..Stride
BY DEF Byte

LEMMA BehindIs ==
  ASSUME NEW s \in Seq(Byte), NEW n \in 0..Len(s)
  PROVE  /\ Behind(s, n) \in Seq(Byte) /\ Len(Behind(s, n)) = Len(s) - n
         /\ \A i \in 1..(Len(s) - n) : Behind(s, n)[i] = s[i + n]
<1>0. Len(s) \in Nat
  BY LenProperties
<1>1. \A i \in (n + 1)..Len(s) : s[i] \in Byte
  BY <1>0, ElementOfSeq
<1> DEFINE t == SubSeq(s, n + 1, Len(s))
<1>2. /\ t \in Seq(Byte) /\ Len(t) = IF n + 1 <= Len(s) THEN Len(s) - (n + 1) + 1 ELSE 0
      /\ \A i \in 1..(Len(s) - (n + 1) + 1) : t[i] = s[(n + 1) + i - 1]
  <2>1. n + 1 \in Int /\ Len(s) \in Int
    BY <1>0
  <2>2. QED BY <1>1, <2>1, SubSeqProperties
<1> HIDE DEF t
<1>3. /\ Len(t) = Len(s) - n
      /\ \A i \in 1..(Len(s) - n) : t[i] = s[i + n]
  BY <1>0, <1>2
<1>4. QED BY <1>2, <1>3 DEF Behind, t

LEMMA FrontIs ==
  ASSUME NEW s \in Seq(Byte), NEW n \in 0..Len(s)
  PROVE  /\ SubSeq(s, 1, n) \in Seq(Byte) /\ Len(SubSeq(s, 1, n)) = n
         /\ \A i \in 1..n : SubSeq(s, 1, n)[i] = s[i]
<1>0. Len(s) \in Nat
  BY LenProperties
<1>1. \A i \in 1..n : s[i] \in Byte
  BY <1>0, ElementOfSeq
<1> DEFINE t == SubSeq(s, 1, n)
<1>2. /\ t \in Seq(Byte) /\ Len(t) = IF 1 <= n THEN n - 1 + 1 ELSE 0
      /\ \A i \in 1..(n - 1 + 1) : t[i] = s[1 + i - 1]
  <2>1. 1 \in Int /\ n \in Int
    BY <1>0
  <2>2. QED BY <1>1, <2>1, SubSeqProperties
<1> HIDE DEF t
<1>3. Len(t) = n /\ \A i \in 1..n : t[i] = s[i]
  BY <1>0, <1>2
<1>4. QED BY <1>2, <1>3 DEF t

\* What is cut in two and put together again is what it was.
LEMMA Rejoined ==
  ASSUME NEW s \in Seq(Byte), NEW n \in 0..Len(s)
  PROVE  SubSeq(s, 1, n) \o Behind(s, n) = s
<1>0. Len(s) \in Nat
  BY LenProperties
<1> DEFINE a == SubSeq(s, 1, n)
           b == Behind(s, n)
<1>1. /\ a \in Seq(Byte) /\ Len(a) = n
      /\ \A i \in 1..n : a[i] = s[i]
  BY FrontIs
<1>2. /\ b \in Seq(Byte) /\ Len(b) = Len(s) - n
      /\ \A i \in 1..(Len(s) - n) : b[i] = s[i + n]
  BY BehindIs
<1> HIDE DEF a, b
<1>3. /\ a \o b \in Seq(Byte) /\ Len(a \o b) = Len(a) + Len(b)
      /\ \A i \in 1..(Len(a) + Len(b)) : (a \o b)[i] = IF i <= Len(a) THEN a[i] ELSE b[i - Len(a)]
  <2>1. a \in Seq(Byte) /\ b \in Seq(Byte)
    BY <1>1, <1>2
  <2>2. QED BY <2>1, ConcatProperties
<1> DEFINE c == a \o b
<1> HIDE DEF c
<1>4. Len(c) = Len(s) /\ c \in Seq(Byte)
  BY <1>0, <1>1, <1>2, <1>3 DEF c
<1>5. ASSUME NEW i \in 1..Len(c) PROVE c[i] = s[i]
  <2>1. i \in Int /\ i >= 1 /\ i <= Len(s)
    BY <1>0, <1>4
  <2>2. CASE i <= n
    BY <1>0, <1>1, <1>2, <1>3, <2>1, <2>2 DEF c
  <2>3. CASE i > n
    <3>1. i - n \in 1..(Len(s) - n)
      BY <1>0, <2>1, <2>3
    <3>2. c[i] = b[i - n]
      BY <1>0, <1>1, <1>2, <1>3, <2>1, <2>3 DEF c
    <3>3. b[i - n] = s[(i - n) + n] /\ (i - n) + n = i
      BY <1>2, <2>1, <3>1
    <3>4. QED BY <3>2, <3>3
  <2>4. QED BY <2>1, <2>2, <2>3
<1>6. c = s
  BY <1>4, <1>5, SeqEqual
<1>7. QED BY <1>6 DEF a, b, c

\* Taking from the front of a line leaves alone what is joined on behind it.
LEMMA BehindJoined ==
  ASSUME NEW s \in Seq(Byte), NEW t \in Seq(Byte), NEW n \in 0..Len(s)
  PROVE  Behind(s \o t, n) = Behind(s, n) \o t
<1>0. Len(s) \in Nat /\ Len(t) \in Nat
  BY LenProperties
<1> DEFINE j == s \o t
           b == Behind(s, n)
           x == Behind(j, n)
           y == b \o t
<1>1. /\ j \in Seq(Byte) /\ Len(j) = Len(s) + Len(t)
      /\ \A i \in 1..(Len(s) + Len(t)) : j[i] = IF i <= Len(s) THEN s[i] ELSE t[i - Len(s)]
  BY ConcatProperties
<1>2. /\ b \in Seq(Byte) /\ Len(b) = Len(s) - n
      /\ \A i \in 1..(Len(s) - n) : b[i] = s[i + n]
  BY BehindIs
<1> HIDE DEF j, b
<1>3. /\ x \in Seq(Byte) /\ Len(x) = Len(j) - n
      /\ \A i \in 1..(Len(j) - n) : x[i] = j[i + n]
  <2>1. n \in 0..Len(j)
    BY <1>0, <1>1
  <2>2. QED BY <1>1, <2>1, BehindIs
<1>4. /\ y \in Seq(Byte) /\ Len(y) = Len(b) + Len(t)
      /\ \A i \in 1..(Len(b) + Len(t)) : y[i] = IF i <= Len(b) THEN b[i] ELSE t[i - Len(b)]
  BY <1>2, ConcatProperties
<1> HIDE DEF x, y
<1>5. Len(x) = Len(y)
  BY <1>0, <1>1, <1>2, <1>3, <1>4
<1>6. ASSUME NEW i \in 1..Len(x) PROVE x[i] = y[i]
  <2>1. i \in Int /\ i >= 1 /\ i <= Len(s) + Len(t) - n /\ n \in Int /\ n >= 0
    BY <1>0, <1>1, <1>3
  <2>2. x[i] = j[i + n]
    BY <1>0, <1>1, <1>3
  <2>3. CASE i <= Len(s) - n
    <3>1. j[i + n] = s[i + n]
      BY <1>0, <1>1, <2>1, <2>3
    <3>2. y[i] = b[i] /\ b[i] = s[i + n]
      BY <1>0, <1>2, <1>4, <2>1, <2>3
    <3>3. QED BY <2>2, <3>1, <3>2
  <2>4. CASE i > Len(s) - n
    <3>1. j[i + n] = t[i + n - Len(s)]
      BY <1>0, <1>1, <2>1, <2>4
    <3>2. y[i] = t[i - (Len(s) - n)] /\ i - (Len(s) - n) = i + n - Len(s)
      BY <1>0, <1>2, <1>4, <2>1, <2>4
    <3>3. QED BY <2>2, <3>1, <3>2
  <2>5. QED BY <1>0, <2>1, <2>3, <2>4
<1>7. x = y
  BY <1>3, <1>4, <1>5, <1>6, SeqEqual
<1>8. QED BY <1>7 DEF j, b, x, y

------------------------------------------------------------------------------
(* What cutting a line does to the records in it. *)

LEMMA OrderedBehind ==
  ASSUME NEW s \in Seq(Byte), NEW n \in 0..Len(s), Ordered(s), Headed(s)
  PROVE  Ordered(Behind(s, n)) /\ Headed(Behind(s, n))
<1>0. Len(s) \in Nat
  BY LenProperties
<1> DEFINE t == Behind(s, n)
<1>1. /\ t \in Seq(Byte) /\ Len(t) = Len(s) - n
      /\ \A i \in 1..(Len(s) - n) : t[i] = s[i + n]
  BY BehindIs
<1> HIDE DEF t
<1>2. ASSUME NEW i \in 2..Len(t) PROVE Joins(t[i - 1], t[i])
  <2>1. i + n \in 2..Len(s) /\ i - 1 \in 1..(Len(s) - n) /\ i \in 1..(Len(s) - n)
    BY <1>0, <1>1
  <2>2. Joins(s[i + n - 1], s[i + n])
    BY <2>1 DEF Ordered
  <2> DEFINE k == i - 1
  <2>3. k \in 1..(Len(s) - n) /\ k + n = i + n - 1
    BY <2>1
  <2> HIDE DEF k
  <2>4. t[i] = s[i + n] /\ t[k] = s[k + n]
    BY <1>1, <2>1, <2>3
  <2>5. t[k] = s[i + n - 1]
    BY <2>3, <2>4
  <2>6. QED BY <2>2, <2>4, <2>5 DEF k
<1>3. ASSUME NEW i \in 1..Len(t), i >= t[i].p PROVE Same(t[i - t[i].p + 1], t[i])
  <2>1. i \in 1..(Len(s) - n) /\ i + n \in 1..Len(s) /\ t[i] = s[i + n]
    BY <1>0, <1>1
  <2>2. t[i] \in Byte
    BY <1>1, ElementOfSeq
  <2>3. t[i].p \in 1..Stride
    BY <2>2, ByteFields
  <2> DEFINE p == t[i].p
  <2> HIDE DEF p
  <2>4. p \in Nat /\ p >= 1 /\ i >= p /\ i + n >= p
    BY <1>0, <1>3, <2>1, <2>3, StreamAssumption DEF p
  <2>5. Same(s[(i + n) - p + 1], s[i + n])
    BY <2>1, <2>4 DEF Headed, p
  <2> DEFINE k == i - p + 1
  <2>6. k \in 1..(Len(s) - n) /\ k + n = (i + n) - p + 1
    BY <1>0, <2>1, <2>4
  <2> HIDE DEF k
  <2>7. t[k] = s[k + n]
    BY <1>1, <2>6
  <2>8. t[k] = s[(i + n) - p + 1]
    BY <2>6, <2>7
  <2>9. QED BY <2>1, <2>5, <2>8 DEF p, k
<1>4. QED BY <1>2, <1>3 DEF Ordered, Headed, t

LEMMA PhasedBehind ==
  ASSUME NEW s \in Seq(Byte), NEW n \in 0..Len(s), Phased(s)
  PROVE  Phased(Behind(s, n))
<1>0. Len(s) \in Nat
  BY LenProperties
<1> DEFINE t == Behind(s, n)
<1>1. /\ t \in Seq(Byte) /\ Len(t) = Len(s) - n
      /\ \A i \in 1..(Len(s) - n) : t[i] = s[i + n]
  BY BehindIs
<1> HIDE DEF t
<1>2. ASSUME NEW i \in 1..Len(t) PROVE t[i].p = Stride - ((Len(t) - i) % Stride)
  <2>1. i + n \in 1..Len(s) /\ t[i] = s[i + n] /\ Len(t) - i = Len(s) - (i + n)
    BY <1>0, <1>1
  <2>2. s[i + n].p = Stride - ((Len(s) - (i + n)) % Stride)
    BY <2>1 DEF Phased
  <2>3. QED BY <2>1, <2>2
<1>3. QED BY <1>2 DEF Phased, t

LEMMA AlignedBehind ==
  ASSUME NEW s \in Seq(Byte), Stride <= Len(s), Aligned(s)
  PROVE  Aligned(Behind(s, Stride))
<1>0. Len(s) \in Nat /\ Stride \in 0..Len(s) /\ Stride \in Nat \ {0}
  BY LenProperties, StreamAssumption
<1> DEFINE t == Behind(s, Stride)
<1>1. /\ t \in Seq(Byte) /\ Len(t) = Len(s) - Stride
      /\ \A i \in 1..(Len(s) - Stride) : t[i] = s[i + Stride]
  BY <1>0, BehindIs
<1> HIDE DEF t
<1>2. ASSUME NEW i \in 1..Len(t) PROVE t[i].p = ((i - 1) % Stride) + 1
  <2>1. i + Stride \in 1..Len(s) /\ t[i] = s[i + Stride] /\ i - 1 \in Int
        /\ (i + Stride) - 1 = (i - 1) + Stride
    BY <1>0, <1>1
  <2>2. s[i + Stride].p = (((i + Stride) - 1) % Stride) + 1
    BY <2>1 DEF Aligned
  <2>3. ((i - 1) + Stride) % Stride = (i - 1) % Stride
    BY <1>0, <2>1, StrideFurther
  <2>4. QED BY <2>1, <2>2, <2>3
<1>3. QED BY <1>2 DEF Aligned, t

\* What opens a line keeps its records.
LEMMA Opening ==
  ASSUME NEW s \in Seq(Byte), NEW t \in Seq(Byte),
         Aligned(s \o t), Ordered(s \o t), Headed(s \o t)
  PROVE  Aligned(s) /\ Ordered(s) /\ Headed(s)
<1>0. Len(s) \in Nat /\ Len(t) \in Nat
  BY LenProperties
<1> DEFINE j == s \o t
<1>1. /\ Len(j) = Len(s) + Len(t)
      /\ \A i \in 1..(Len(s) + Len(t)) : j[i] = IF i <= Len(s) THEN s[i] ELSE t[i - Len(s)]
  BY ConcatProperties
<1>2. Aligned(j) /\ Ordered(j) /\ Headed(j)
  OBVIOUS
<1> HIDE DEF j
<1>3. ASSUME NEW i \in 1..Len(s) PROVE i \in 1..Len(j) /\ j[i] = s[i]
  BY <1>0, <1>1
<1>4. Aligned(s)
  BY <1>2, <1>3 DEF Aligned
<1>5. ASSUME NEW i \in 2..Len(s) PROVE Joins(s[i - 1], s[i])
  <2>1. i \in 2..Len(j) /\ i - 1 \in 1..Len(s) /\ i \in 1..Len(s)
    BY <1>0, <1>1
  <2>2. QED BY <1>2, <1>3, <2>1 DEF Ordered
<1>6. ASSUME NEW i \in 1..Len(s), i >= s[i].p PROVE Same(s[i - s[i].p + 1], s[i])
  <2>1. s[i] \in Byte
    BY ElementOfSeq
  <2>2. s[i].p \in 1..Stride
    BY <2>1, ByteFields
  <2>3. i - s[i].p + 1 \in 1..Len(s)
    BY <1>0, <1>6, <2>2, StreamAssumption
  <2>4. Same(j[i - s[i].p + 1], j[i])
    BY <1>2, <1>3, <1>6 DEF Headed
  <2>5. QED BY <1>3, <2>3, <2>4
<1>7. QED BY <1>4, <1>5, <1>6 DEF Ordered, Headed

\* A record joined on behind whole records.
LEMMA BytesAre ==
  ASSUME NEW r \in Nat, NEW d \in Nat
  PROVE  /\ Bytes(r, d) \in Seq(Byte) /\ Len(Bytes(r, d)) = Stride
         /\ \A p \in 1..Stride : /\ Bytes(r, d)[p].r = r /\ Bytes(r, d)[p].d = d
                                 /\ Bytes(r, d)[p].p = p
BY StreamAssumption DEF Bytes, Byte

LEMMA NextPart ==
  ASSUME NEW r \in Nat, NEW d \in Nat, NEW p \in 2..Stride
  PROVE  Joins(Bytes(r, d)[p - 1], Bytes(r, d)[p])
<1>1. p - 1 \in 1..Stride /\ p \in 1..Stride /\ p # 1
  BY StreamAssumption
<1>2. /\ Bytes(r, d)[p - 1] = [r |-> r, p |-> p - 1, d |-> d]
      /\ Bytes(r, d)[p] = [r |-> r, p |-> p, d |-> d]
  BY <1>1 DEF Bytes
<1>3. [[r |-> r, p |-> p - 1, d |-> d] EXCEPT !.p = @ + 1] = [r |-> r, p |-> p, d |-> d]
  BY <1>1
<1>4. QED BY <1>1, <1>2, <1>3 DEF Joins

LEMMA Grown ==
  ASSUME NEW s \in Seq(Byte), NEW r \in Nat, NEW d \in Nat, Ordered(s), Headed(s),
         s # <<>> => /\ s[Len(s)].p = Stride /\ r > s[Len(s)].r
                     /\ r - s[Len(s)].r - 1 = d - s[Len(s)].d
  PROVE  Ordered(s \o Bytes(r, d)) /\ Headed(s \o Bytes(r, d))
<1>0. Len(s) \in Nat /\ Stride \in Nat \ {0}
  BY LenProperties, StreamAssumption
<1> DEFINE b == Bytes(r, d)
           j == s \o b
<1>1. /\ b \in Seq(Byte) /\ Len(b) = Stride
      /\ \A p \in 1..Stride : b[p].r = r /\ b[p].d = d /\ b[p].p = p
  BY BytesAre
<1>9. \A p \in 2..Stride : Joins(b[p - 1], b[p])
  BY NextPart
<1> HIDE DEF b
<1>2. /\ j \in Seq(Byte) /\ Len(j) = Len(s) + Len(b)
      /\ \A i \in 1..(Len(s) + Len(b)) : j[i] = IF i <= Len(s) THEN s[i] ELSE b[i - Len(s)]
  <2>1. b \in Seq(Byte)
    BY <1>1
  <2>2. QED BY <2>1, ConcatProperties
<1> HIDE DEF j
<1>3. ASSUME NEW i \in 1..Len(s) PROVE j[i] = s[i] /\ i \in 1..Len(j)
  BY <1>0, <1>1, <1>2
<1>4. ASSUME NEW p \in 1..Stride PROVE j[Len(s) + p] = b[p]
  <2>1. Len(s) + p \in 1..(Len(s) + Len(b)) /\ ~(Len(s) + p <= Len(s)) /\ Len(s) + p - Len(s) = p
    BY <1>0, <1>1
  <2> DEFINE k == Len(s) + p
  <2> HIDE DEF k
  <2>2. j[k] = b[k - Len(s)]
    BY <1>2, <2>1 DEF k
  <2>3. QED BY <2>1, <2>2 DEF k
<1>5. ASSUME NEW i \in 2..Len(j) PROVE Joins(j[i - 1], j[i])
  <2>1. CASE i <= Len(s)
    <3>1. i \in 2..Len(s) /\ i \in 1..Len(s) /\ i - 1 \in 1..Len(s)
      BY <1>0, <2>1
    <3>2. Joins(s[i - 1], s[i])
      BY <3>1 DEF Ordered
    <3>3. j[i] = s[i] /\ j[i - 1] = s[i - 1]
      BY <1>3, <3>1
    <3>4. QED BY <3>2, <3>3
  <2>2. CASE i = Len(s) + 1
    <3>1. i - 1 = Len(s) /\ Len(s) \in 1..Len(s) /\ s # <<>> /\ 1 \in 1..Stride
      BY <1>0, <2>2, EmptySeq
    <3>2. j[i - 1] = s[Len(s)] /\ j[i] = b[1]
      BY <1>3, <1>4, <2>2, <3>1
    <3>3. b[1].p = 1 /\ b[1].r = r /\ b[1].d = d
      BY <1>1, <3>1
    <3>4. QED BY <3>1, <3>2, <3>3 DEF Joins
  <2>3. CASE i > Len(s) + 1
    <3> DEFINE p == i - Len(s)
    <3>1. p \in 2..Stride /\ p \in 1..Stride /\ p - 1 \in 1..Stride
          /\ i = Len(s) + p /\ i - 1 = Len(s) + (p - 1)
      BY <1>0, <1>1, <1>2, <2>3
    <3> HIDE DEF p
    <3>2. j[Len(s) + p] = b[p] /\ j[Len(s) + (p - 1)] = b[p - 1]
      BY <1>4, <3>1
    <3>3. j[i] = b[p] /\ j[i - 1] = b[p - 1]
      BY <3>1, <3>2
    <3>4. QED BY <1>9, <3>1, <3>3
  <2>4. QED BY <1>0, <1>2, <2>1, <2>2, <2>3
<1>6. ASSUME NEW i \in 1..Len(j), i >= j[i].p PROVE Same(j[i - j[i].p + 1], j[i])
  <2>1. CASE i <= Len(s)
    <3>1. i \in 1..Len(s) /\ j[i] = s[i]
      BY <1>0, <1>3, <2>1
    <3>2. s[i] \in Byte
      BY <3>1, ElementOfSeq
    <3>3. s[i].p \in 1..Stride
      BY <3>2, ByteFields
    <3>4. Same(s[i - s[i].p + 1], s[i])
      BY <1>6, <3>1 DEF Headed
    <3>5. i - s[i].p + 1 \in 1..Len(s)
      BY <1>0, <1>6, <3>1, <3>3
    <3>6. j[i - s[i].p + 1] = s[i - s[i].p + 1]
      BY <1>3, <3>5
    <3>7. QED BY <3>1, <3>4, <3>6
  <2>2. CASE i > Len(s)
    <3> DEFINE p == i - Len(s)
    <3>1. p \in 1..Stride /\ i = Len(s) + p /\ 1 \in 1..Stride
      BY <1>0, <1>1, <1>2, <2>2
    <3> HIDE DEF p
    <3>2. j[i] = b[p] /\ j[Len(s) + 1] = b[1]
      BY <1>4, <3>1
    <3>3. j[i].p = p /\ i - p + 1 = Len(s) + 1
      BY <1>0, <1>1, <3>1, <3>2
    <3>4. Same(b[1], b[p])
      BY <1>1, <3>1 DEF Same
    <3>5. QED BY <3>2, <3>3, <3>4
  <2>3. QED BY <1>0, <1>2, <2>1, <2>2
<1>7. QED BY <1>5, <1>6 DEF Ordered, Headed, j, b

LEMMA GrownLength ==
  ASSUME NEW s \in Seq(Byte), NEW r \in Nat, NEW d \in Nat
  PROVE  /\ s \o Bytes(r, d) \in Seq(Byte) /\ s \o Bytes(r, d) # <<>>
         /\ Len(s \o Bytes(r, d)) = Len(s) + Stride
         /\ Len(s \o Bytes(r, d)) % Stride = Len(s) % Stride
         /\ \A i \in 1..Len(s) : (s \o Bytes(r, d))[i] = s[i]
         /\ \A p \in 1..Stride : (s \o Bytes(r, d))[Len(s) + p] = Bytes(r, d)[p]
<1>0. Len(s) \in Nat /\ Stride \in Nat \ {0}
  BY LenProperties, StreamAssumption
<1> DEFINE b == Bytes(r, d)
           j == s \o b
<1>1. b \in Seq(Byte) /\ Len(b) = Stride
  BY BytesAre
<1> HIDE DEF b
<1>2. /\ j \in Seq(Byte) /\ Len(j) = Len(s) + Len(b)
      /\ \A i \in 1..(Len(s) + Len(b)) : j[i] = IF i <= Len(s) THEN s[i] ELSE b[i - Len(s)]
  BY <1>1, ConcatProperties
<1> HIDE DEF j
<1>3. \A i \in 1..Len(s) : j[i] = s[i]
  BY <1>0, <1>1, <1>2
<1>4. ASSUME NEW p \in 1..Stride PROVE j[Len(s) + p] = b[p]
  <2>1. Len(s) + p \in 1..(Len(s) + Len(b)) /\ ~(Len(s) + p <= Len(s)) /\ Len(s) + p - Len(s) = p
    BY <1>0, <1>1
  <2> DEFINE k == Len(s) + p
  <2> HIDE DEF k
  <2>2. j[k] = b[k - Len(s)]
    BY <1>2, <2>1 DEF k
  <2>3. QED BY <2>1, <2>2 DEF k
<1>5. j # <<>>
  BY <1>0, <1>1, <1>2, EmptySeq
<1>6. (Len(s) + Stride) % Stride = Len(s) % Stride
  <2>1. Len(s) \in Int
    BY <1>0
  <2>2. QED BY <1>0, <2>1, StrideFurther
<1>7. QED BY <1>1, <1>2, <1>3, <1>4, <1>5, <1>6 DEF j, b

LEMMA GrownAligned ==
  ASSUME NEW s \in Seq(Byte), NEW r \in Nat, NEW d \in Nat,
         Aligned(s), Len(s) % Stride = 0
  PROVE  Aligned(s \o Bytes(r, d))
<1>0. Len(s) \in Nat /\ Stride \in Nat \ {0}
  BY LenProperties, StreamAssumption
<1> DEFINE j == s \o Bytes(r, d)
<1>1. /\ Len(j) = Len(s) + Stride
      /\ \A i \in 1..Len(s) : j[i] = s[i]
      /\ \A p \in 1..Stride : j[Len(s) + p] = Bytes(r, d)[p]
  BY GrownLength
<1> HIDE DEF j
<1>2. ASSUME NEW i \in 1..Len(j) PROVE j[i].p = ((i - 1) % Stride) + 1
  <2>1. CASE i <= Len(s)
    <3>1. i \in 1..Len(s)
      BY <1>0, <2>1
    <3>2. j[i] = s[i] /\ s[i].p = ((i - 1) % Stride) + 1
      BY <1>1, <3>1 DEF Aligned
    <3>3. QED BY <3>2
  <2>2. CASE i > Len(s)
    <3> DEFINE p == i - Len(s)
    <3>1. p \in 1..Stride /\ i = Len(s) + p /\ p - 1 \in 0..(Stride - 1)
          /\ i - 1 = Len(s) + (p - 1)
      BY <1>0, <1>1, <2>2
    <3> HIDE DEF p
    <3>2. j[i].p = p
      <4>1. j[Len(s) + p] = Bytes(r, d)[p]
        BY <1>1, <3>1
      <4>2. \A k \in 1..Stride : Bytes(r, d)[k].p = k
        BY DEF Bytes
      <4>3. QED BY <3>1, <4>1, <4>2
    <3>3. (Len(s) + (p - 1)) % Stride = p - 1
      <4> DEFINE q == p - 1
      <4>1. q \in 0..(Stride - 1) /\ Len(s) \in Int
        BY <1>0, <3>1
      <4> HIDE DEF q
      <4>2. (Len(s) + q) % Stride = q
        BY <1>0, <4>1, FromBoundary
      <4>3. QED BY <4>2 DEF q
    <3>4. QED BY <3>1, <3>2, <3>3
  <2>3. QED BY <1>0, <1>1, <2>1, <2>2
<1>3. QED BY <1>2 DEF Aligned, j

LEMMA GrownPhased ==
  ASSUME NEW s \in Seq(Byte), NEW r \in Nat, NEW d \in Nat, Phased(s)
  PROVE  Phased(s \o Bytes(r, d))
<1>0. Len(s) \in Nat /\ Stride \in Nat \ {0}
  BY LenProperties, StreamAssumption
<1> DEFINE j == s \o Bytes(r, d)
<1>1. /\ Len(j) = Len(s) + Stride
      /\ \A i \in 1..Len(s) : j[i] = s[i]
      /\ \A p \in 1..Stride : j[Len(s) + p] = Bytes(r, d)[p]
  BY GrownLength
<1> HIDE DEF j
<1>2. ASSUME NEW i \in 1..Len(j) PROVE j[i].p = Stride - ((Len(j) - i) % Stride)
  <2>1. CASE i <= Len(s)
    <3> DEFINE x == Len(s) - i
    <3>1. x \in Int /\ Len(j) - i = x + Stride /\ i \in 1..Len(s)
      BY <1>0, <1>1, <2>1
    <3>2. (x + Stride) % Stride = x % Stride
      <4> HIDE DEF x
      <4>1. QED BY <1>0, <3>1, StrideFurther
    <3>3. s[i].p = Stride - (x % Stride) /\ j[i] = s[i]
      BY <1>1, <3>1 DEF Phased
    <3> HIDE DEF x
    <3>4. QED BY <3>1, <3>2, <3>3
  <2>2. CASE i > Len(s)
    <3> DEFINE p == i - Len(s)
    <3>1. p \in 1..Stride /\ i = Len(s) + p /\ Stride - p \in 0..(Stride - 1)
          /\ Len(j) - i = Stride - p
      BY <1>0, <1>1, <2>2
    <3> HIDE DEF p
    <3>2. j[i].p = p
      <4>1. j[Len(s) + p] = Bytes(r, d)[p]
        BY <1>1, <3>1
      <4>2. \A k \in 1..Stride : Bytes(r, d)[k].p = k
        BY DEF Bytes
      <4>3. QED BY <3>1, <4>1, <4>2
    <3>3. (Stride - p) % Stride = Stride - p
      <4> DEFINE q == Stride - p
      <4>1. q \in 0..(Stride - 1)
        BY <3>1
      <4> HIDE DEF q
      <4>2. q % Stride = q
        BY <1>0, <4>1, ModWithin
      <4>3. QED BY <4>2 DEF q
    <3>4. QED BY <1>0, <3>1, <3>2, <3>3
  <2>3. QED BY <1>0, <1>1, <2>1, <2>2
<1>3. QED BY <1>2 DEF Phased, j

\* Where a line stands in its records: at its end, and at its front.
LEMMA LineEnds ==
  ASSUME NEW s \in Seq(Byte), s # <<>>
  PROVE  /\ Phased(s) => s[Len(s)].p = Stride
         /\ Phased(s) => (s[1].p = 1 <=> Len(s) % Stride = 0)
         /\ Aligned(s) /\ Len(s) % Stride = 0 => s[Len(s)].p = Stride
<1>0. Len(s) \in Nat \ {0} /\ Stride \in Nat \ {0}
  BY EmptySeq, StreamAssumption
<1>1. Len(s) \in 1..Len(s) /\ 1 \in 1..Len(s) /\ 0 % Stride = 0 /\ Len(s) - Len(s) = 0
  BY <1>0
<1>2. Len(s) % Stride = 0 => (Len(s) - 1) % Stride = Stride - 1
  <2>1. SUFFICES ASSUME Len(s) % Stride = 0 PROVE (Len(s) - 1) % Stride = Stride - 1
    OBVIOUS
  <2>2. (Len(s) - 0 - 1) % Stride = Stride - 1 - (0 % Stride)
    <3>1. Len(s) \in Int /\ 0 \in Int
      BY <1>0
    <3>2. QED BY <1>0, <2>1, <3>1, ToBoundary
  <2>3. Len(s) - 0 - 1 = Len(s) - 1 /\ Stride - 1 - 0 = Stride - 1
    BY <1>0
  <2>4. QED BY <1>1, <2>2, <2>3
<1>3. (Len(s) - 1) % Stride = Stride - 1 => Len(s) % Stride = 0
  <2>1. SUFFICES ASSUME (Len(s) - 1) % Stride = Stride - 1 PROVE Len(s) % Stride = 0
    OBVIOUS
  <2> DEFINE x == Len(s) - 1
  <2>2. x \in Int /\ x % Stride = Stride - 1 /\ Len(s) = x + 1
    BY <1>0, <2>1
  <2> HIDE DEF x
  <2>3. PICK q \in Int : x = Stride * q + (x % Stride)
    BY <1>0, <2>2, Division
  <2>4. Len(s) = Stride * (q + 1) + 0 /\ q + 1 \in Int /\ 0 \in 0..(Stride - 1) /\ Len(s) \in Int
    BY <1>0, <2>2, <2>3
  <2>5. QED BY <1>0, <2>4, RemainderIs
<1>4. (Len(s) - 1) % Stride \in 0..(Stride - 1)
  <2>1. Len(s) - 1 \in Int
    BY <1>0
  <2>2. QED BY <1>0, <2>1, Division
<1>5. Phased(s) => s[Len(s)].p = Stride
  <2>1. Phased(s) => s[Len(s)].p = Stride - ((Len(s) - Len(s)) % Stride)
    BY <1>1 DEF Phased
  <2>2. QED BY <1>0, <1>1, <2>1
<1>6. Phased(s) => (s[1].p = 1 <=> Len(s) % Stride = 0)
  <2>1. SUFFICES ASSUME Phased(s) PROVE s[1].p = 1 <=> Len(s) % Stride = 0
    OBVIOUS
  <2>2. s[1].p = Stride - ((Len(s) - 1) % Stride)
    BY <1>1, <2>1 DEF Phased
  <2>3. s[1].p = 1 <=> (Len(s) - 1) % Stride = Stride - 1
    BY <1>0, <1>4, <2>2
  <2>4. QED BY <1>2, <1>3, <2>3
<1>7. Aligned(s) /\ Len(s) % Stride = 0 => s[Len(s)].p = Stride
  BY <1>0, <1>1, <1>2 DEF Aligned
<1>8. QED BY <1>5, <1>6, <1>7

\* A line of whole records that ends at a boundary begins at one.
LEMMA WholeIsAligned ==
  ASSUME NEW s \in Seq(Byte), Phased(s), Len(s) % Stride = 0
  PROVE  Aligned(s)
<1>0. Len(s) \in Nat /\ Stride \in Nat \ {0}
  BY LenProperties, StreamAssumption
<1>1. ASSUME NEW i \in 1..Len(s) PROVE s[i].p = ((i - 1) % Stride) + 1
  <2> DEFINE y == i - 1
             n == Len(s)
  <2>1. y \in Int /\ n \in Int /\ n % Stride = 0 /\ n - i = n - y - 1
    BY <1>0
  <2>2. s[i].p = Stride - ((n - i) % Stride)
    BY DEF Phased
  <2> HIDE DEF y, n
  <2>3. (n - y - 1) % Stride = Stride - 1 - (y % Stride)
    BY <1>0, <2>1, ToBoundary
  <2>4. y % Stride \in 0..(Stride - 1)
    BY <1>0, <2>1, Division
  <2>5. s[i].p = (y % Stride) + 1
    BY SMTT(30), <1>0, <2>1, <2>2, <2>3, <2>4
  <2>6. QED BY <2>5 DEF y
<1>2. QED BY <1>1 DEF Aligned

------------------------------------------------------------------------------
(* The invariant. *)

\* The bytes on their way from the ring to the consumer's cutter, in order.
Session == inbox \o pipe
Active  == sstate \in {"setup", "poll", "drain", "advance"}
Unsent  == IF sstate = "advance" THEN Behind(ring, chunk) ELSE ring
Line    == IF Active THEN Session \o Unsent ELSE Session

\* The first record of a line follows on the last one handed over.
FollowsOn(s, t, l) ==
  s # <<>> /\ t # <<>> => s[1].r > Last(t) /\ s[1].r - Last(t) - 1 = s[1].d - l

\* A record of frame r stamped d is the newest that was buffered.
Pending == IF pstate = "idle" THEN 0 ELSE 1
Counted(r, d) == r + Pending <= frames /\ frames - r - Pending = dropped - d

StreamTypeOK ==
  /\ ring \in Seq(Byte) /\ inbox \in Seq(Byte) /\ pipe \in Seq(Byte)
  /\ frames \in Nat /\ dropped \in Nat /\ stamp \in Nat
  /\ pstate \in {"idle", "check", "write", "drop"}
  /\ sstate \in {"accept", "setup", "poll", "drain", "advance", "realign", "torn",
                 "detach", "close"}
  /\ torn \in Nat /\ attached \in BOOLEAN /\ wantWrite \in BOOLEAN /\ chunk \in Nat
  /\ peer \in {"none", "open", "fin", "gone", "reset"} /\ queued \in BOOLEAN
  /\ last \in Nat \cup {None} /\ total \in Nat /\ taken \in Seq(Nat)
  /\ cut \in Nat /\ received \in Nat

ProducerInv ==
  /\ pstate # "idle" => stamp = dropped /\ frames >= 1
  /\ pstate = "write" => RecordFits

QueueInv ==
  /\ Phased(ring) /\ Ordered(ring) /\ Headed(ring)
  /\ ring # <<>> => Counted(ring[Len(ring)].r, ring[Len(ring)].d)
  /\ sstate \in {"torn", "detach", "close", "accept", "setup"} => Len(ring) % Stride = 0
  /\ sstate = "advance" => chunk <= Len(ring)

LineInv ==
  Aligned(Line) /\ Ordered(Line) /\ Headed(Line) /\ FollowsOn(Line, taken, last)

EndInv ==
  Active =>
    /\ Len(Line) % Stride = 0
    /\ Line # <<>> => Counted(Line[Len(Line)].r, Line[Len(Line)].d)
    /\ Line = <<>> /\ taken # <<>> => Counted(Last(taken), last)

ClientInv ==
  /\ last = None <=> taken = <<>>
  /\ taken = <<>> => total = 0
  /\ sstate \in {"accept", "setup"} => pipe = <<>> /\ inbox = <<>> /\ taken = <<>>
  /\ GapsReported

TornInv ==
  /\ sstate \in {"accept", "setup", "close"} => ~attached
  /\ sstate \in {"poll", "drain", "advance", "realign", "torn", "detach"} => attached
  /\ sstate \notin {"realign", "torn"} => torn = cut
  /\ sstate = "torn" => cut = torn + 1
  /\ sstate = "realign" => cut = torn + IF ring # <<>> /\ ring[1].p # 1 THEN 1 ELSE 0

StreamInv ==
  /\ StreamTypeOK /\ ProducerInv /\ QueueInv /\ LineInv /\ EndInv /\ ClientInv /\ TornInv

LEMMA StreamInitInv == StreamInit => StreamInv
<1> SUFFICES ASSUME StreamInit PROVE StreamInv
  OBVIOUS
<1> USE DEF StreamInit
<1>0. Stride \in Nat \ {0}
  BY StreamAssumption
<1>1. <<>> \in Seq(Byte) /\ <<>> \in Seq(Nat) /\ Len(<<>>) = 0
  BY EmptySeq
<1>2. StreamTypeOK
  BY <1>1 DEF StreamTypeOK
<1>3. Line = <<>>
  <2>1. Session = <<>>
    <3>1. <<>> \o <<>> = <<>>
      BY <1>1, ConcatEmptySeq
    <3>2. QED BY <3>1 DEF Session
  <2>2. QED BY <2>1 DEF Line, Active
<1>4. /\ Phased(<<>>) /\ Ordered(<<>>) /\ Headed(<<>>) /\ Aligned(<<>>)
  BY <1>1 DEF Phased, Ordered, Headed, Aligned
<1>5. 0 % Stride = 0
  BY <1>0
<1>6. QueueInv
  BY <1>1, <1>4, <1>5 DEF QueueInv
<1>7. LineInv
  BY <1>1, <1>3, <1>4 DEF LineInv, FollowsOn
<1>8. EndInv /\ ProducerInv /\ ClientInv /\ TornInv
  BY DEF EndInv, Active, ProducerInv, ClientInv, GapsReported, TornInv
<1>9. QED BY <1>2, <1>6, <1>7, <1>8 DEF StreamInv

------------------------------------------------------------------------------
(* Types, and the producer. *)

LEMMA ShiftTypes ==
  ASSUME NEW s \in Seq(Byte), NEW t \in Seq(Byte), NEW n \in 0..Len(t)
  PROVE  s \o SubSeq(t, 1, n) \in Seq(Byte) /\ Behind(t, n) \in Seq(Byte)
<1>1. SubSeq(t, 1, n) \in Seq(Byte) /\ Behind(t, n) \in Seq(Byte)
  BY FrontIs, BehindIs
<1>2. QED BY <1>1, ConcatProperties

LEMMA Pushed ==
  ASSUME StreamTypeOK, ProducerInv, PushRecord
  PROVE  ring' = ring \o Bytes(frames, stamp)
<1>1. RecordFits
  BY DEF ProducerInv, PushRecord
<1>2. ring' = ring \o SubSeq(Bytes(frames, stamp), 1, Stride)
  BY <1>1 DEF PushRecord
<1>3. frames \in Nat /\ stamp \in Nat
  BY DEF StreamTypeOK
<1>4. Bytes(frames, stamp) \in Seq(Byte) /\ Len(Bytes(frames, stamp)) = Stride
  BY <1>3, BytesAre
<1>5. SubSeq(Bytes(frames, stamp), 1, Stride) = Bytes(frames, stamp)
  BY <1>4, SubSeqFull
<1>6. QED BY <1>2, <1>5

\* What realign() takes off the ring is no more than is in it.
LEMMA RemainderIn ==
  ASSUME StreamTypeOK
  PROVE  Remainder \in 0..Len(ring) /\ Remainder \in 0..(Stride - 1)
<1>1. Len(ring) \in Nat /\ Stride \in Nat \ {0}
  BY LenProperties, StreamAssumption DEF StreamTypeOK
<1>2. Len(ring) % Stride \in 0..(Stride - 1)
  <2>1. Len(ring) \in Int
    BY <1>1
  <2>2. QED BY <1>1, <2>1, Division
<1>3. Len(ring) - (Len(ring) % Stride) \in Nat
  BY <1>1, DownToBoundary
<1>4. QED BY <1>1, <1>2, <1>3 DEF Remainder

USE DEF producerVars, glueVars, clientVars, netVars

LEMMA PartsCounted ==
  ASSUME NEW s \in Seq(Byte)
  PROVE  Len(SelectSeq(s, LAMBDA b : b.p = Stride)) \in Nat
OBVIOUS

LEMMA StreamTypeStep ==
  ASSUME StreamTypeOK, ProducerInv, QueueInv, ClientInv, StreamNext
  PROVE  StreamTypeOK'
<1>types. /\ ring \in Seq(Byte) /\ inbox \in Seq(Byte) /\ pipe \in Seq(Byte)
          /\ Len(ring) \in Nat /\ Len(pipe) \in Nat /\ Len(inbox) \in Nat
          /\ frames \in Nat /\ dropped \in Nat /\ stamp \in Nat
          /\ Stride \in Nat \ {0}
  BY LenProperties, StreamAssumption DEF StreamTypeOK
<1>empty. <<>> \in Seq(Byte) /\ <<>> \in Seq(Nat)
  BY EmptySeq
<1>1. CASE Capture
  BY <1>1, <1>types DEF Capture, StreamTypeOK
<1>2. CASE CheckFree
  BY <1>2, <1>types DEF CheckFree, StreamTypeOK
<1>3. CASE PushRecord
  <2>1. ring' \in Seq(Byte)
    BY <1>3, <1>types, Pushed, GrownLength
  <2>2. QED BY <1>3, <2>1 DEF PushRecord, StreamTypeOK
<1>4. CASE DropRecord
  BY <1>4, <1>types DEF DropRecord, StreamTypeOK
<1>5. CASE Accept
  BY <1>5, <1>empty DEF Accept, NewClient, StreamTypeOK
<1>6. CASE SetupFails
  BY <1>6, <1>empty DEF SetupFails, NewClient, StreamTypeOK
<1>7. CASE Attach
  BY <1>7 DEF Attach, StreamTypeOK
<1>8. CASE Leave
  <2>1. cut' \in Nat
    BY <1>8 DEF Leave, StreamTypeOK
  <2>2. QED BY <1>8, <2>1 DEF Leave, StreamTypeOK
<1>9. CASE PollReady
  BY <1>9 DEF PollReady, StreamTypeOK
<1>10. CASE DrainPauses
  <2>1. wantWrite' \in BOOLEAN /\ sstate' = "poll"
    BY <1>10 DEF DrainPauses
  <2>2. QED BY <1>10, <2>1 DEF DrainPauses, StreamTypeOK
<1>11. CASE Send
  <2>1. PICK n \in 1..Len(ring) : pipe' = pipe \o SubSeq(ring, 1, n) /\ chunk' = n
    BY <1>11 DEF Send
  <2>2. pipe' \in Seq(Byte) /\ chunk' \in Nat
    <3>1. n \in 0..Len(ring)
      BY <1>types
    <3>2. QED BY <1>types, <2>1, <3>1, ShiftTypes
  <2>3. QED BY <1>11, <2>2 DEF Send, StreamTypeOK
<1>12. CASE AdvanceSent
  <2>1. chunk \in 0..Len(ring)
    BY <1>12, <1>types DEF AdvanceSent, QueueInv, StreamTypeOK
  <2>2. ring' \in Seq(Byte)
    BY <1>12, <1>types, <2>1, BehindIs DEF AdvanceSent
  <2>3. QED BY <1>12, <2>2 DEF AdvanceSent, StreamTypeOK
<1>13. CASE Realign
  <2>1. ring' \in Seq(Byte)
    BY <1>13, <1>types, RemainderIn, BehindIs DEF Realign
  <2>2. QED BY <1>13, <2>1 DEF Realign, StreamTypeOK
<1>14. CASE CountTorn
  BY <1>14 DEF CountTorn, StreamTypeOK
<1>15. CASE Detach
  BY <1>15 DEF Detach, StreamTypeOK
<1>16. CASE Close
  <2>1. received' \in Nat
    BY <1>16, <1>types, PartsCounted DEF Close, StreamTypeOK
  <2>2. QED BY <1>16, <1>empty, <2>1 DEF Close, NewClient, StreamTypeOK
<1>17. CASE Connect
  BY <1>17 DEF Connect, StreamTypeOK
<1>18. CASE Receive
  <2>1. PICK n \in 1..Len(pipe) :
          /\ inbox' = inbox \o SubSeq(pipe, 1, n) /\ pipe' = Behind(pipe, n)
          /\ received' = received + Len(SelectSeq(SubSeq(pipe, 1, n), LAMBDA b : b.p = Stride))
    BY <1>18 DEF Receive
  <2>2. n \in 0..Len(pipe)
    BY <1>types
  <2>3. inbox' \in Seq(Byte) /\ pipe' \in Seq(Byte)
    BY <1>types, <2>1, <2>2, ShiftTypes
  <2>4. received' \in Nat
    <3>1. SubSeq(pipe, 1, n) \in Seq(Byte)
      BY <1>types, <2>2, FrontIs
    <3>2. QED BY <2>1, <3>1, PartsCounted DEF StreamTypeOK
  <2>5. QED BY <1>18, <2>3, <2>4 DEF Receive, StreamTypeOK
<1>19. CASE NextRecord
  <2>1. Stride \in 0..Len(inbox) /\ inbox # <<>>
    BY <1>19, <1>types, EmptySeq DEF NextRecord
  <2>2. Head(inbox) \in Byte /\ inbox' \in Seq(Byte)
    BY <1>19, <1>types, <2>1, HeadTailProperties, BehindIs DEF NextRecord
  <2>3. Head(inbox).r \in Nat /\ Head(inbox).d \in Nat
    BY <2>2, ByteFields
  <2>4. taken' \in Seq(Nat) /\ last' \in Nat
    <3>1. taken \in Seq(Nat)
      BY DEF StreamTypeOK
    <3>2. Append(taken, Head(inbox).r) \in Seq(Nat)
      BY <2>3, <3>1, AppendProperties
    <3>3. QED BY <1>19, <2>3, <3>2 DEF NextRecord
  <2>5. total' \in Nat
    BY <1>19, <2>3 DEF NextRecord, Gap, StreamTypeOK
  <2>6. QED BY <1>19, <2>2, <2>4, <2>5 DEF NextRecord, StreamTypeOK
<1>20. CASE Finish \/ Vanish \/ Reset \/ Keepalive
  <2>1. /\ UNCHANGED <<ring, producerVars, glueVars, queued, pipe, clientVars, cut, received>>
        /\ peer' \in {"fin", "gone", "reset"}
    BY <1>20 DEF Finish, Vanish, Reset, Keepalive, PeerBecomes
  <2>2. QED BY <2>1 DEF StreamTypeOK
<1>21. QED
  BY <1>1, <1>2, <1>3, <1>4, <1>5, <1>6, <1>7, <1>8, <1>9, <1>10, <1>11, <1>12, <1>13, <1>14,
     <1>15, <1>16, <1>17, <1>18, <1>19, <1>20
  DEF StreamNext, Produce, Serve, Failures, Outside, PollGone, PollFails, SendFails

\* Nobody but the producer makes the ring longer, so what CheckFree found free
\* is free when the record is written.
LEMMA OnlyProducerFills ==
  ASSUME StreamTypeOK, QueueInv, Serve \/ Failures \/ Outside
  PROVE  /\ Len(ring') <= Len(ring)
         /\ UNCHANGED <<frames, dropped, stamp, pstate>>
<1>types. ring \in Seq(Byte) /\ Len(ring) \in Nat /\ chunk \in Nat
  BY LenProperties DEF StreamTypeOK
<1>1. CASE AdvanceSent
  <2>1. chunk \in 0..Len(ring) /\ ring' = Behind(ring, chunk)
    BY <1>1, <1>types DEF AdvanceSent, QueueInv
  <2>2. Len(ring') = Len(ring) - chunk
    BY <1>types, <2>1, BehindIs
  <2>3. QED BY <1>1, <1>types, <2>2 DEF AdvanceSent
<1>2. CASE Realign
  <2>1. Remainder \in 0..Len(ring) /\ ring' = Behind(ring, Remainder)
    BY <1>2, RemainderIn DEF Realign
  <2> DEFINE n == Remainder
  <2> HIDE DEF n
  <2>2. n \in 0..Len(ring) /\ ring' = Behind(ring, n)
    BY <2>1 DEF n
  <2>3. Len(ring') = Len(ring) - n
    BY <1>types, <2>2, BehindIs
  <2>4. Len(ring') <= Len(ring)
    BY <1>types, <2>2, <2>3
  <2>5. QED BY <1>2, <2>4 DEF Realign
<1>3. ASSUME ~AdvanceSent, ~Realign
      PROVE  UNCHANGED <<ring, frames, dropped, stamp, pstate>>
  BY <1>3 DEF Serve, Failures, Outside, Accept, Attach, PollGone, PollFails, PollReady,
     DrainPauses, Send, SendFails, Leave, CountTorn, Detach, Close, SetupFails, Connect, Receive,
     NextRecord, Finish, Vanish, Reset, Keepalive, PeerBecomes
<1>4. QED BY <1>1, <1>2, <1>3, <1>types

LEMMA ProducerStep ==
  ASSUME StreamTypeOK, StreamTypeOK', QueueInv, ProducerInv, StreamNext
  PROVE  ProducerInv'
<1>types. Len(ring) \in Nat /\ Len(ring') \in Nat /\ RingSize \in Nat /\ Stride \in Nat
          /\ frames \in Nat
  BY LenProperties, StreamAssumption DEF StreamTypeOK
<1>1. CASE Capture
  BY <1>1, <1>types DEF Capture, ProducerInv
<1>2. CASE CheckFree
  BY <1>2 DEF CheckFree, ProducerInv, RecordFits
<1>3. CASE PushRecord \/ DropRecord
  BY <1>3 DEF PushRecord, DropRecord, ProducerInv
<1>4. CASE Serve \/ Failures \/ Outside
  <2>1. Len(ring') <= Len(ring) /\ UNCHANGED <<frames, dropped, stamp, pstate>>
    BY <1>4, OnlyProducerFills
  <2>2. RecordFits => RecordFits'
    BY <1>types, <2>1 DEF RecordFits
  <2>3. QED BY <2>1, <2>2 DEF ProducerInv
<1>5. QED BY <1>1, <1>2, <1>3, <1>4 DEF StreamNext, Produce

\* Frames captured and frames dropped move the newest record's count alike.
LEMMA CountKept ==
  ASSUME StreamTypeOK, ProducerInv, NEW r \in Nat, NEW d \in Nat, Counted(r, d),
         \/ Capture \/ CheckFree \/ DropRecord
         \/ UNCHANGED <<frames, dropped, pstate>>
  PROVE  r + Pending' <= frames' /\ frames' - r - Pending' = dropped' - d
<1>types. frames \in Nat /\ dropped \in Nat
  BY DEF StreamTypeOK
<1>1. CASE Capture
  BY <1>1, <1>types DEF Capture, Counted, Pending
<1>2. CASE CheckFree
  BY <1>2, <1>types DEF CheckFree, Counted, Pending
<1>3. CASE DropRecord
  BY <1>3, <1>types DEF DropRecord, Counted, Pending
<1>4. CASE UNCHANGED <<frames, dropped, pstate>>
  BY <1>4 DEF Counted, Pending
<1>5. QED BY <1>1, <1>2, <1>3, <1>4

\* A record that is buffered follows on the newest one, and becomes it.
LEMMA CountPushed ==
  ASSUME StreamTypeOK, ProducerInv, PushRecord
  PROVE  /\ \A r, d \in Nat : Counted(r, d) => frames > r /\ frames - r - 1 = stamp - d
         /\ Counted(frames, stamp)'
<1>types. frames \in Nat /\ dropped \in Nat /\ stamp = dropped /\ Pending = 1
  BY DEF StreamTypeOK, ProducerInv, PushRecord, Pending
<1>1. ASSUME NEW r \in Nat, NEW d \in Nat, Counted(r, d)
      PROVE  frames > r /\ frames - r - 1 = stamp - d
  BY <1>1, <1>types DEF Counted
<1>2. Counted(frames, stamp)'
  BY <1>types DEF PushRecord, Counted, Pending
<1>3. QED BY <1>1, <1>2

------------------------------------------------------------------------------
(* The ring. *)

\* Taking from the front of the ring keeps its last record.
LEMMA BehindQueue ==
  ASSUME StreamTypeOK, QueueInv, NEW n \in 0..Len(ring), ring' = Behind(ring, n),
         UNCHANGED <<frames, dropped, pstate>>
  PROVE  /\ Phased(ring') /\ Ordered(ring') /\ Headed(ring')
         /\ ring' # <<>> => Counted(ring[Len(ring)].r, ring[Len(ring)].d)'
         /\ ring' # <<>> => ring'[Len(ring')] = ring[Len(ring)]
<1>types. ring \in Seq(Byte) /\ Len(ring) \in Nat
  BY LenProperties DEF StreamTypeOK
<1>1. Phased(ring') /\ Ordered(ring') /\ Headed(ring')
  BY <1>types, PhasedBehind, OrderedBehind DEF QueueInv
<1>2. /\ ring' \in Seq(Byte) /\ Len(ring') = Len(ring) - n
      /\ \A i \in 1..(Len(ring) - n) : ring'[i] = ring[i + n]
  BY <1>types, BehindIs
<1>3. ASSUME ring' # <<>>
      PROVE  ring'[Len(ring')] = ring[Len(ring)] /\ ring # <<>>
  <2>1. Len(ring') \in Nat \ {0}
    BY <1>2, <1>3, EmptySeq
  <2> DEFINE k == Len(ring) - n
  <2>2. k \in 1..(Len(ring) - n) /\ k + n = Len(ring) /\ Len(ring') = k
    BY <1>types, <1>2, <2>1
  <2> HIDE DEF k
  <2>3. ring'[k] = ring[k + n]
    BY <1>2, <2>2
  <2>4. ring # <<>>
    BY <1>2, <1>types, <2>1, EmptySeq
  <2>5. QED BY <2>2, <2>3, <2>4
<1>4. ASSUME ring' # <<>> PROVE Counted(ring[Len(ring)].r, ring[Len(ring)].d)'
  <2>1. ring # <<>>
    BY <1>3, <1>4
  <2>2. ring' # <<>> => /\ Counted(ring[Len(ring)].r, ring[Len(ring)].d)
    BY <2>1 DEF QueueInv
  <2>3. QED BY <1>3, <1>4, <2>2 DEF Counted, Pending
<1>5. QED BY <1>1, <1>3, <1>4

LEMMA QueueStep ==
  ASSUME StreamTypeOK, ProducerInv, QueueInv, StreamNext
  PROVE  QueueInv'
<1>types. /\ ring \in Seq(Byte) /\ Len(ring) \in Nat /\ chunk \in Nat
          /\ frames \in Nat /\ stamp \in Nat /\ Stride \in Nat \ {0}
  BY LenProperties, StreamAssumption DEF StreamTypeOK
<1>last. ring # <<>> => ring[Len(ring)].r \in Nat /\ ring[Len(ring)].d \in Nat
  <2>1. SUFFICES ASSUME ring # <<>> PROVE ring[Len(ring)].r \in Nat /\ ring[Len(ring)].d \in Nat
    OBVIOUS
  <2>2. Len(ring) \in 1..Len(ring)
    BY <1>types, <2>1, EmptySeq
  <2>3. ring[Len(ring)] \in Byte
    BY <1>types, <2>2, ElementOfSeq
  <2>4. QED BY <2>3, ByteFields
<1>1. CASE Capture \/ CheckFree \/ DropRecord
  <2>1. UNCHANGED <<ring, sstate, chunk>>
    BY <1>1 DEF Capture, CheckFree, DropRecord
  <2>2. ring # <<>> => Counted(ring[Len(ring)].r, ring[Len(ring)].d)'
    <3>1. SUFFICES ASSUME ring # <<>> PROVE Counted(ring[Len(ring)].r, ring[Len(ring)].d)'
      OBVIOUS
    <3>2. Counted(ring[Len(ring)].r, ring[Len(ring)].d)
      BY <3>1 DEF QueueInv
    <3> DEFINE r == ring[Len(ring)].r
               d == ring[Len(ring)].d
    <3>3. r \in Nat /\ d \in Nat /\ Counted(r, d)
      BY <1>last, <3>1, <3>2
    <3> HIDE DEF r, d
    <3>4. r + Pending' <= frames' /\ frames' - r - Pending' = dropped' - d
      BY <1>1, <3>3, CountKept
    <3>5. QED BY <2>1, <3>4 DEF Counted, r, d
  <2>3. QED BY <2>1, <2>2 DEF QueueInv
<1>2. CASE PushRecord
  <2>1. ring' = ring \o Bytes(frames, stamp)
    BY <1>2, Pushed
  <2>2. /\ \A r, d \in Nat : Counted(r, d) => frames > r /\ frames - r - 1 = stamp - d
        /\ Counted(frames, stamp)'
    BY <1>2, CountPushed
  <2>3. ring # <<>> => /\ ring[Len(ring)].p = Stride /\ frames > ring[Len(ring)].r
                       /\ frames - ring[Len(ring)].r - 1 = stamp - ring[Len(ring)].d
    BY <1>types, <1>last, <2>2, LineEnds DEF QueueInv
  <2>4. Ordered(ring') /\ Headed(ring')
    BY <1>types, <2>1, <2>3, Grown DEF QueueInv
  <2>5. Phased(ring')
    BY <1>types, <2>1, GrownPhased DEF QueueInv
  <2>6. /\ Len(ring') = Len(ring) + Stride /\ Len(ring') % Stride = Len(ring) % Stride
        /\ ring'[Len(ring) + Stride] = Bytes(frames, stamp)[Stride]
    <3>1. Stride \in 1..Stride
      BY <1>types
    <3> DEFINE j == ring \o Bytes(frames, stamp)
    <3>2. /\ Len(j) = Len(ring) + Stride /\ Len(j) % Stride = Len(ring) % Stride
          /\ \A p \in 1..Stride : j[Len(ring) + p] = Bytes(frames, stamp)[p]
      BY <1>types, GrownLength
    <3> HIDE DEF j
    <3>3. ring' = j
      BY <2>1 DEF j
    <3>4. QED BY <3>1, <3>2, <3>3
  <2>7. Counted(ring[Len(ring)].r, ring[Len(ring)].d)'
    <3>1. Bytes(frames, stamp)[Stride].r = frames /\ Bytes(frames, stamp)[Stride].d = stamp
      BY <1>types DEF Bytes
    <3>2. frames' = frames /\ stamp' = stamp
      BY <1>2 DEF PushRecord
    <3>3. QED BY <2>2, <2>6, <3>1, <3>2 DEF Counted, Pending
  <2>8. sstate' = sstate /\ chunk' = chunk
    BY <1>2 DEF PushRecord
  <2>9. QED BY <1>types, <2>4, <2>5, <2>6, <2>7, <2>8 DEF QueueInv
<1>3. CASE AdvanceSent
  <2>1. chunk \in 0..Len(ring)
    BY <1>3, <1>types DEF AdvanceSent, QueueInv
  <2>2. ring' = Behind(ring, chunk) /\ sstate' = "drain" /\ UNCHANGED <<frames, dropped, pstate>>
    BY <1>3 DEF AdvanceSent
  <2>3. QED BY <2>1, <2>2, BehindQueue DEF QueueInv
<1>4. CASE Realign
  <2> DEFINE n == Remainder
  <2>1. n \in 0..Len(ring)
    BY RemainderIn
  <2>2. /\ ring' = Behind(ring, n) /\ sstate' \in {"detach", "torn"}
        /\ UNCHANGED <<frames, dropped, pstate>>
    BY <1>4 DEF Realign
  <2>3. Len(ring') % Stride = 0
    <3>1. (Len(ring) - n) % Stride = 0
      BY <1>types, DownToBoundary DEF Remainder
    <3> HIDE DEF n
    <3>2. Len(ring') = Len(ring) - n
      BY <1>types, <2>1, <2>2, BehindIs
    <3>3. QED BY <3>1, <3>2
  <2> HIDE DEF n
  <2>4. QED BY <2>1, <2>2, <2>3, BehindQueue DEF QueueInv
<1>5. CASE Send
  <2>1. UNCHANGED <<ring, frames, dropped, pstate>> /\ sstate' = "advance" /\ chunk' <= Len(ring)
    BY <1>5, <1>types DEF Send
  <2>2. QED BY <2>1 DEF QueueInv, Counted, Pending
<1>6. ASSUME Serve \/ Failures \/ Outside, ~AdvanceSent, ~Realign, ~Send
      PROVE  /\ UNCHANGED <<ring, frames, dropped, pstate, chunk>>
             /\ sstate' = "advance" => sstate = "advance"
             /\ sstate' \in {"torn", "detach", "close", "accept", "setup"}
                  => sstate \in {"torn", "detach", "close", "accept", "setup"}
  BY <1>6 DEF Serve, Failures, Outside, Accept, Attach, PollGone, PollFails, PollReady,
     DrainPauses, SendFails, Leave, CountTorn, Detach, Close, SetupFails, Connect, Receive,
     NextRecord, Finish, Vanish, Reset, Keepalive, PeerBecomes
<1>7. ASSUME Serve \/ Failures \/ Outside, ~AdvanceSent, ~Realign, ~Send
      PROVE  QueueInv'
  BY <1>6, <1>7 DEF QueueInv, Counted, Pending
<1>8. QED BY <1>1, <1>2, <1>3, <1>4, <1>5, <1>7 DEF StreamNext, Produce

------------------------------------------------------------------------------
(* What is torn. *)

\* realign() tears a record off exactly when the session ended inside one.
LEMMA TornWhenInside ==
  ASSUME StreamTypeOK, QueueInv
  PROVE  Remainder = 0 <=> ~(ring # <<>> /\ ring[1].p # 1)
<1>types. ring \in Seq(Byte) /\ Stride \in Nat \ {0}
  BY StreamAssumption DEF StreamTypeOK
<1>1. CASE ring = <<>>
  BY <1>1, <1>types DEF Remainder
<1>2. CASE ring # <<>>
  BY <1>2, <1>types, LineEnds DEF Remainder, QueueInv
<1>3. QED BY <1>1, <1>2

LEMMA TornStep ==
  ASSUME StreamTypeOK, ProducerInv, QueueInv, TornInv, StreamNext
  PROVE  TornInv'
<1>types. torn \in Nat /\ cut \in Nat /\ ring \in Seq(Byte) /\ Len(ring) \in Nat
          /\ Stride \in Nat \ {0} /\ frames \in Nat /\ stamp \in Nat
  BY LenProperties, StreamAssumption DEF StreamTypeOK
<1>1. CASE PushRecord
  <2>1. ring' = ring \o Bytes(frames, stamp)
    BY <1>1, Pushed
  <2>2. UNCHANGED <<sstate, attached, torn, cut>>
    BY <1>1 DEF PushRecord
  <2>3. (ring' # <<>> /\ ring'[1].p # 1) <=> (ring # <<>> /\ ring[1].p # 1)
    <3> DEFINE j == ring \o Bytes(frames, stamp)
    <3>5. /\ j # <<>>
          /\ \A i \in 1..Len(ring) : j[i] = ring[i]
          /\ \A p \in 1..Stride : j[Len(ring) + p] = Bytes(frames, stamp)[p]
      <4>1. ring \in Seq(Byte) /\ frames \in Nat /\ stamp \in Nat
        BY <1>types
      <4>2. QED BY ONLY <4>1, GrownLength
    <3> HIDE DEF j
    <3>6. ring' = j
      BY <2>1 DEF j
    <3>1. /\ ring' # <<>>
          /\ \A i \in 1..Len(ring) : ring'[i] = ring[i]
          /\ \A p \in 1..Stride : ring'[Len(ring) + p] = Bytes(frames, stamp)[p]
      BY <3>5, <3>6
    <3>2. CASE ring = <<>>
      <4>1. Len(ring) = 0 /\ 1 \in 1..Stride /\ 0 + 1 = 1
        BY <1>types, <3>2
      <4>2. ring'[1] = Bytes(frames, stamp)[1]
        BY <3>1, <4>1
      <4>3. Bytes(frames, stamp)[1].p = 1
        BY <4>1 DEF Bytes
      <4>4. QED BY <3>2, <4>2, <4>3
    <3>3. CASE ring # <<>>
      <4>1. 1 \in 1..Len(ring)
        BY <1>types, <3>3, EmptySeq
      <4>2. QED BY <3>1, <3>3, <4>1
    <3>4. QED BY <3>2, <3>3
  <2>4. QED BY <2>2, <2>3 DEF TornInv
<1>2. CASE Leave /\ sstate \in {"poll", "drain"}
  <2>1. torn = cut /\ attached = TRUE /\ UNCHANGED <<ring, attached, torn>> /\ sstate' = "realign"
        /\ cut' = IF ring # <<>> /\ ring[1].p # 1 THEN cut + 1 ELSE cut
    BY <1>2 DEF Leave, TornInv, StreamTypeOK
  <2>2. QED BY <1>types, <2>1 DEF TornInv
<1>3. CASE Realign
  <2>1. Remainder = 0 <=> ~(ring # <<>> /\ ring[1].p # 1)
    BY TornWhenInside
  <2>2. QED BY <1>3, <1>types, <2>1 DEF Realign, TornInv
<1>4. CASE CountTorn
  BY <1>4, <1>types DEF CountTorn, TornInv
<1>5. CASE Detach
  BY <1>5 DEF Detach, TornInv
<1>6. CASE AdvanceSent
  BY <1>6 DEF AdvanceSent, TornInv
<1>7. CASE Attach
  BY <1>7 DEF Attach, TornInv
<1>8. CASE Accept \/ SetupFails \/ Close \/ PollReady \/ DrainPauses \/ Send
  BY <1>8 DEF Accept, SetupFails, Close, PollReady, DrainPauses, Send, TornInv
<1>9. CASE Capture \/ CheckFree \/ DropRecord \/ Outside
  <2>1. UNCHANGED <<ring, sstate, torn, attached, cut>>
    BY <1>9 DEF Capture, CheckFree, DropRecord, Outside, Connect, Receive, NextRecord, Finish,
       Vanish, Reset, Keepalive, PeerBecomes
  <2>2. QED BY <2>1 DEF TornInv
<1>10. QED
  BY <1>1, <1>2, <1>3, <1>4, <1>5, <1>6, <1>7, <1>8, <1>9
  DEF StreamNext, Produce, Serve, Failures, PollGone, PollFails, SendFails

------------------------------------------------------------------------------
(* The line. *)

LEMMA BytesJoined ==
  \A x, y \in Seq(Byte) :
    /\ x \o y \in Seq(Byte) /\ Len(x \o y) = Len(x) + Len(y)
    /\ \A k \in 1..(Len(x) + Len(y)) :
         (x \o y)[k] = IF k <= Len(x) THEN x[k] ELSE y[k - Len(x)]
BY ConcatProperties
LEMMA Regrouped ==
  \A x, y, z \in Seq(Byte) : (x \o y) \o z = x \o (y \o z)
BY ConcatAssociative

LEMMA LineTypes ==
  ASSUME StreamTypeOK, QueueInv
  PROVE  /\ Session \in Seq(Byte) /\ Unsent \in Seq(Byte) /\ Line \in Seq(Byte)
         /\ Len(Line) \in Nat /\ Len(Session) = Len(inbox) + Len(pipe)
<1>types. /\ ring \in Seq(Byte) /\ inbox \in Seq(Byte) /\ pipe \in Seq(Byte) /\ Len(ring) \in Nat
  BY LenProperties DEF StreamTypeOK
<1>1. Session \in Seq(Byte) /\ Len(Session) = Len(inbox) + Len(pipe)
  BY <1>types, ConcatProperties DEF Session
<1>2. Unsent \in Seq(Byte)
  <2>1. CASE sstate = "advance"
    <3>1. chunk \in 0..Len(ring)
      BY <1>types, <2>1 DEF QueueInv, StreamTypeOK
    <3>2. QED BY <1>types, <2>1, <3>1, BehindIs DEF Unsent
  <2>2. CASE sstate # "advance"
    BY <1>types, <2>2 DEF Unsent
  <2>3. QED BY <2>1, <2>2
<1>3. Session \o Unsent \in Seq(Byte)
  BY <1>1, <1>2, ConcatProperties
<1>4. Line \in Seq(Byte)
  BY <1>1, <1>3 DEF Line
<1>5. QED BY <1>1, <1>2, <1>4, LenProperties

\* What the consumer cuts next is what the line begins with.
LEMMA LineFirst ==
  ASSUME StreamTypeOK, QueueInv, NEW i \in 1..Len(inbox)
  PROVE  /\ Line # <<>> /\ Line[i] = inbox[i] /\ Line[1] = Head(inbox)
         /\ Len(inbox) <= Len(Line)
<1>types. /\ inbox \in Seq(Byte) /\ pipe \in Seq(Byte) /\ Len(inbox) \in Nat /\ Len(pipe) \in Nat
          /\ Session \in Seq(Byte) /\ Unsent \in Seq(Byte) /\ Len(Unsent) \in Nat
          /\ Line \in Seq(Byte) /\ Len(Line) \in Nat /\ Len(Session) = Len(inbox) + Len(pipe)
  BY LineTypes, LenProperties DEF StreamTypeOK
<1>1. \A k \in 1..Len(inbox) : Session[k] = inbox[k]
  BY <1>types, ConcatProperties DEF Session
<1>2. /\ Len(Session \o Unsent) = Len(Session) + Len(Unsent)
      /\ \A k \in 1..(Len(Session) + Len(Unsent)) :
           (Session \o Unsent)[k] = IF k <= Len(Session) THEN Session[k] ELSE Unsent[k - Len(Session)]
  <2>1. Session \in Seq(Byte) /\ Unsent \in Seq(Byte)
    BY <1>types
  <2>2. QED BY ONLY <2>1, BytesJoined, ZenonT(40)
<1>3. ASSUME NEW k \in 1..Len(inbox) PROVE Line[k] = inbox[k]
  <2>1. k \in 1..(Len(Session) + Len(Unsent)) /\ k <= Len(Session)
    BY <1>types
  <2>2. (Session \o Unsent)[k] = Session[k]
    BY <1>2, <2>1
  <2>3. QED BY <1>1, <2>2 DEF Line
<1>4. Len(inbox) <= Len(Line)
  BY <1>types, <1>2 DEF Line
<1>5. 1 \in 1..Len(inbox)
  BY <1>types
<1>6. Line # <<>> /\ inbox # <<>>
  BY <1>types, <1>4, EmptySeq
<1>7. Head(inbox) = inbox[1]
  BY <1>types
<1>8. QED BY <1>3, <1>4, <1>5, <1>6, <1>7

\* A step that leaves the line and what was taken off it alone.
LEMMA LineKept ==
  ASSUME StreamTypeOK, QueueInv, ProducerInv, LineInv, EndInv, ClientInv,
         Line' = Line, UNCHANGED <<taken, last>>, Active' => Active,
         \/ Capture \/ CheckFree \/ DropRecord
         \/ UNCHANGED <<frames, dropped, pstate>>
  PROVE  LineInv' /\ EndInv'
<1>types. Line \in Seq(Byte) /\ Len(Line) \in Nat /\ taken \in Seq(Nat)
  BY LineTypes DEF StreamTypeOK
<1>1. LineInv'
  BY DEF LineInv
<1>2. ASSUME Active' PROVE Len(Line') % Stride = 0
  BY <1>2 DEF EndInv
<1>3. ASSUME Active', Line' # <<>> PROVE Counted(Line[Len(Line)].r, Line[Len(Line)].d)'
  <2>1. Counted(Line[Len(Line)].r, Line[Len(Line)].d)
    BY <1>3 DEF EndInv
  <2>2. Len(Line) \in 1..Len(Line)
    BY <1>types, <1>3, EmptySeq
  <2>3. Line[Len(Line)] \in Byte
    BY <1>types, <2>2, ElementOfSeq
  <2> DEFINE r == Line[Len(Line)].r
             d == Line[Len(Line)].d
  <2>4. r \in Nat /\ d \in Nat /\ Counted(r, d)
    BY <2>1, <2>3, ByteFields
  <2> HIDE DEF r, d
  <2>5. r + Pending' <= frames' /\ frames' - r - Pending' = dropped' - d
    BY <2>4, CountKept
  <2>6. QED BY <2>5 DEF Counted, r, d
<1>4. ASSUME Active', Line' = <<>>, taken' # <<>> PROVE Counted(Last(taken), last)'
  <2>1. Counted(Last(taken), last)
    BY <1>4 DEF EndInv
  <2>2. Last(taken) \in Nat /\ last \in Nat
    <3>1. Len(taken) \in 1..Len(taken)
      BY <1>types, <1>4, EmptySeq
    <3>2. QED BY <1>types, <1>4, <3>1, ElementOfSeq DEF Last, ClientInv, StreamTypeOK
  <2> DEFINE r == Last(taken)
  <2>3. r \in Nat /\ Counted(r, last)
    BY <2>1, <2>2
  <2> HIDE DEF r
  <2>4. r + Pending' <= frames' /\ frames' - r - Pending' = dropped' - last
    BY <2>2, <2>3, CountKept
  <2>5. QED BY <2>4 DEF Counted, r
<1>5. QED BY <1>1, <1>2, <1>3, <1>4 DEF EndInv

\* The consumer, or the session, is gone or new: an empty line.
LEMMA LineEmptied ==
  ASSUME Line' = <<>>, ~Active'
  PROVE  LineInv' /\ EndInv'
BY StreamAssumption DEF LineInv, EndInv, Aligned, Ordered, Headed, FollowsOn

\* The session ends: what was not sent leaves the line.
LEMMA LineLeft ==
  ASSUME StreamTypeOK, QueueInv, LineInv, Leave, sstate \in {"poll", "drain"}
  PROVE  LineInv' /\ EndInv'
<1>types. Session \in Seq(Byte) /\ Unsent \in Seq(Byte) /\ Line \in Seq(Byte)
  BY LineTypes
<1>1. Line = Session \o Unsent
  BY DEF Line, Active
<1>2. ~Active' /\ Line' = Session
  BY DEF Leave, Line, Active, Session
<1>3. Aligned(Session) /\ Ordered(Session) /\ Headed(Session)
  BY <1>types, <1>1, Opening DEF LineInv
<1>4. FollowsOn(Session, taken, last)
  <2>1. SUFFICES ASSUME Session # <<>> PROVE Line # <<>> /\ Line[1] = Session[1]
    BY DEF FollowsOn, LineInv
  <2>2. Len(Session) \in Nat \ {0} /\ Len(Unsent) \in Nat
    BY <1>types, <2>1, EmptySeq, LenProperties
  <2>3. 1 \in 1..(Len(Session) + Len(Unsent)) /\ 1 <= Len(Session)
    BY <2>2
  <2>4. Line[1] = Session[1] /\ Len(Line) = Len(Session) + Len(Unsent)
    BY <1>types, <1>1, <2>3, ConcatProperties
  <2>5. QED BY <1>types, <2>2, <2>4, EmptySeq
<1>5. taken' = taken /\ last' = last
  BY DEF Leave
<1>6. QED BY <1>2, <1>3, <1>4, <1>5 DEF LineInv, EndInv

\* A session begins: the line is the ring.
LEMMA LineBegun ==
  ASSUME StreamTypeOK, QueueInv, Accept
  PROVE  LineInv' /\ EndInv'
<1>types. ring \in Seq(Byte) /\ Len(ring) % Stride = 0
  BY DEF StreamTypeOK, QueueInv, Accept
<1>1. Line' = ring
  <2>1. <<>> \in Seq(Byte)
    BY EmptySeq
  <2>2. <<>> \o <<>> = <<>> /\ <<>> \o ring = ring
    BY <1>types, <2>1, ConcatEmptySeq
  <2>3. Session' = <<>> /\ Unsent' = ring /\ Active'
    BY <2>2 DEF Accept, NewClient, Session, Unsent, Active
  <2>4. QED BY <2>2, <2>3 DEF Line
<1>2. Aligned(ring) /\ Ordered(ring) /\ Headed(ring)
  BY <1>types, WholeIsAligned DEF QueueInv
<1>3. taken' = <<>> /\ UNCHANGED <<frames, dropped, pstate>>
  BY DEF Accept, NewClient
<1>4. LineInv'
  BY <1>1, <1>2, <1>3 DEF LineInv, FollowsOn
<1>5. EndInv'
  BY <1>types, <1>1, <1>3 DEF EndInv, QueueInv, Counted, Pending
<1>6. QED BY <1>4, <1>5

\* The consumer cuts a record off the line.
LEMMA LineCut ==
  ASSUME StreamTypeOK, QueueInv, LineInv, EndInv, ClientInv, NextRecord
  PROVE  /\ LineInv' /\ EndInv'
         /\ FollowsOn(Line, taken, last) /\ Line # <<>> /\ Line[1] = Head(inbox)
<1>types. /\ inbox \in Seq(Byte) /\ pipe \in Seq(Byte) /\ Len(inbox) \in Nat /\ Len(pipe) \in Nat
          /\ Session \in Seq(Byte) /\ Unsent \in Seq(Byte) /\ Len(Unsent) \in Nat
          /\ Line \in Seq(Byte) /\ Len(Line) \in Nat /\ Len(Session) = Len(inbox) + Len(pipe)
          /\ Stride \in Nat \ {0} /\ Len(inbox) >= Stride /\ taken \in Seq(Nat)
  BY LineTypes, LenProperties, StreamAssumption DEF StreamTypeOK, NextRecord
<1>1. 1 \in 1..Len(inbox) /\ Stride \in 0..Len(inbox) /\ Stride \in 0..Len(Session)
  BY <1>types
<1>2. Line # <<>> /\ Line[1] = Head(inbox) /\ Len(inbox) <= Len(Line)
  BY <1>1, LineFirst
<1>3. Session' = Behind(Session, Stride)
  <2>1. Behind(inbox \o pipe, Stride) = Behind(inbox, Stride) \o pipe
    BY <1>types, <1>1, BehindJoined
  <2>2. QED BY <2>1 DEF Session, NextRecord
<1>4. Line' = Behind(Line, Stride)
  <2>1. Behind(Session \o Unsent, Stride) = Behind(Session, Stride) \o Unsent
    BY <1>types, <1>1, BehindJoined
  <2>2. Unsent' = Unsent /\ Active' = Active
    BY DEF NextRecord, Unsent, Active
  <2>3. QED BY <1>3, <2>1, <2>2 DEF Line
<1>5. Stride \in 0..Len(Line) /\ Stride \in 1..Len(Line) /\ 1 \in 1..Len(Line)
  BY <1>types, <1>2
<1>6. Aligned(Line') /\ Ordered(Line') /\ Headed(Line')
  BY <1>types, <1>4, <1>5, AlignedBehind, OrderedBehind DEF LineInv
<1>7. /\ Line' \in Seq(Byte) /\ Len(Line') = Len(Line) - Stride
      /\ \A i \in 1..(Len(Line) - Stride) : Line'[i] = Line[i + Stride]
  BY <1>types, <1>4, <1>5, BehindIs
<1>8. Line[Stride].p = Stride
  <2>1. (Stride - 1) % Stride = Stride - 1
    <3> DEFINE q == Stride - 1
    <3>1. q \in 0..(Stride - 1)
      BY <1>types
    <3> HIDE DEF q
    <3>2. q % Stride = q
      BY <1>types, <3>1, ModWithin
    <3>3. QED BY <3>2 DEF q
  <2>2. Line[Stride].p = ((Stride - 1) % Stride) + 1
    BY <1>5 DEF LineInv, Aligned
  <2>3. QED BY <1>types, <2>1, <2>2
<1>9. Same(Line[1], Line[Stride])
  <2>1. Same(Line[Stride - Line[Stride].p + 1], Line[Stride])
    <3>1. \A i \in 1..Len(Line) : i >= Line[i].p => Same(Line[i - Line[i].p + 1], Line[i])
      BY DEF LineInv, Headed
    <3>2. Stride >= Line[Stride].p
      BY <1>types, <1>8
    <3>3. QED BY <1>5, <3>1, <3>2
  <2>2. Stride - Line[Stride].p + 1 = 1
    BY <1>types, <1>8
  <2>3. QED BY <2>1, <2>2
<1>10. Last(taken') = Line[1].r /\ last' = Line[1].d /\ taken' # <<>>
  <2>1. Line[1] \in Byte
    BY <1>types, <1>5, ElementOfSeq
  <2>2. Line[1].r \in Nat
    BY <2>1, ByteFields
  <2>3. taken' = Append(taken, Line[1].r) /\ last' = Line[1].d
    BY <1>2 DEF NextRecord
  <2> DEFINE e == Line[1].r
             t == Append(taken, e)
  <2>6. e \in Nat /\ taken' = t
    BY <2>2, <2>3
  <2> HIDE DEF e
  <2>7. /\ Len(t) = Len(taken) + 1 /\ t # <<>>
        /\ t[Len(taken) + 1] = e
    <3>1. taken \in Seq(Nat) /\ e \in Nat
      BY <1>types, <2>6
    <3>2. QED BY ONLY <3>1, AppendProperties
  <2> HIDE DEF t
  <2>4. /\ Len(taken') = Len(taken) + 1 /\ taken' # <<>>
        /\ taken'[Len(taken) + 1] = Line[1].r
    BY <2>6, <2>7 DEF e
  <2>5. QED BY <2>3, <2>4 DEF Last
<1>11. FollowsOn(Line', taken', last')
  <2>1. SUFFICES ASSUME Line' # <<>>
                 PROVE  /\ Line'[1].r > Line[1].r
                        /\ Line'[1].r - Line[1].r - 1 = Line'[1].d - Line[1].d
    BY <1>10 DEF FollowsOn
  <2>2. Len(Line') \in Nat \ {0}
    BY <1>7, <2>1, EmptySeq
  <2>3. 1 \in 1..(Len(Line) - Stride) /\ 1 + Stride \in 2..Len(Line) /\ 1 \in 1..Len(Line')
    BY <1>types, <1>7, <2>2
  <2>4. Line'[1] = Line[1 + Stride]
    BY <1>7, <2>3
  <2>5. Joins(Line[(1 + Stride) - 1], Line[1 + Stride])
    BY <2>3 DEF LineInv, Ordered
  <2>6. (1 + Stride) - 1 = Stride
    BY <1>types
  <2>7. Joins(Line[Stride], Line'[1])
    BY <2>4, <2>5, <2>6
  <2>8. Line'[1].p = 1
    <3>1. Line'[1].p = ((1 - 1) % Stride) + 1
      BY <1>6, <2>3 DEF Aligned
    <3>2. (1 - 1) % Stride = 0
      BY <1>types
    <3>3. QED BY <3>1, <3>2
  <2>9. QED BY <1>9, <2>7, <2>8 DEF Joins, Same
<1>12. EndInv'
  <2>1. SUFFICES ASSUME Active'
                 PROVE  /\ Len(Line') % Stride = 0
                        /\ Line' # <<>> => Counted(Line[Len(Line)].r, Line[Len(Line)].d)'
                        /\ Line' = <<>> => Counted(Last(taken), last)'
    BY DEF EndInv
  <2>2. /\ Len(Line) % Stride = 0
        /\ Counted(Line[Len(Line)].r, Line[Len(Line)].d)
    BY <1>2, <2>1 DEF EndInv, Active, NextRecord
  <2>3. Len(Line') % Stride = 0
    <3> DEFINE x == Len(Line) - Stride
    <3>1. x \in Int /\ x + Stride = Len(Line) /\ Len(Line') = x
      BY <1>types, <1>7
    <3> HIDE DEF x
    <3>2. (x + Stride) % Stride = x % Stride
      BY <1>types, <3>1, StrideFurther
    <3>3. QED BY <2>2, <3>1, <3>2
  <2>4. UNCHANGED <<frames, dropped, pstate>>
    BY DEF NextRecord
  <2>5. ASSUME Line' # <<>> PROVE Counted(Line[Len(Line)].r, Line[Len(Line)].d)'
    <3>1. Len(Line') \in Nat \ {0}
      BY <1>7, <2>5, EmptySeq
    <3> DEFINE k == Len(Line) - Stride
    <3>2. k \in 1..(Len(Line) - Stride) /\ k + Stride = Len(Line) /\ Len(Line') = k
      BY <1>types, <1>7, <3>1
    <3> HIDE DEF k
    <3>3. Line'[k] = Line[k + Stride]
      BY <1>7, <3>2
    <3>4. Line'[Len(Line')] = Line[Len(Line)]
      BY <3>2, <3>3
    <3>5. QED BY <2>2, <2>4, <3>4 DEF Counted, Pending
  <2>6. ASSUME Line' = <<>> PROVE Counted(Last(taken), last)'
    <3>1. Len(Line') = 0
      BY <2>6
    <3>2. Len(Line) = Stride
      BY <1>types, <1>7, <3>1
    <3>3. Counted(Line[1].r, Line[1].d)
      BY <1>9, <2>2, <3>2 DEF Same
    <3>4. QED BY <1>10, <2>4, <3>3 DEF Counted, Pending
  <2>7. QED BY <2>3, <2>5, <2>6
<1>13. QED BY <1>2, <1>6, <1>11, <1>12 DEF LineInv

\* A record is buffered behind the line, or behind nobody's line.
LEMMA LinePushed ==
  ASSUME StreamTypeOK, ProducerInv, QueueInv, LineInv, EndInv, ClientInv, PushRecord
  PROVE  LineInv' /\ EndInv'
<1>types. /\ ring \in Seq(Byte) /\ Len(ring) \in Nat /\ chunk \in Nat
          /\ Session \in Seq(Byte) /\ Unsent \in Seq(Byte)
          /\ Line \in Seq(Byte) /\ Len(Line) \in Nat /\ taken \in Seq(Nat)
          /\ Stride \in Nat \ {0} /\ frames \in Nat /\ stamp \in Nat
  BY LineTypes, LenProperties, StreamAssumption DEF StreamTypeOK
<1>same. Session' = Session /\ Active' = Active /\ taken' = taken /\ last' = last
         /\ sstate' = sstate /\ chunk' = chunk /\ frames' = frames /\ stamp' = stamp
  BY DEF PushRecord, Session, Active
<1>1. CASE ~Active
  <2>1. Line' = Line
    BY <1>1, <1>same DEF Line
  <2>2. QED BY <1>1, <1>same, <2>1 DEF LineInv, EndInv
<1>2. CASE Active
  <2> DEFINE b == Bytes(frames, stamp)
  <2>1. ring' = ring \o b
    BY Pushed
  <2>2. b \in Seq(Byte) /\ Len(b) = Stride
    BY <1>types, BytesAre
  <2>3. Unsent' = Unsent \o b
    <3> HIDE DEF b
    <3>1. CASE sstate = "advance"
      <4>1. chunk \in 0..Len(ring)
        BY <1>types, <3>1 DEF QueueInv
      <4>2. Behind(ring \o b, chunk) = Behind(ring, chunk) \o b
        BY <1>types, <2>2, <4>1, BehindJoined
      <4>3. QED BY <1>same, <2>1, <3>1, <4>2 DEF Unsent
    <3>2. CASE sstate # "advance"
      BY <1>same, <2>1, <3>2 DEF Unsent
    <3>3. QED BY <3>1, <3>2
  <2>4. Line' = Line \o b
    <3> HIDE DEF b
    <3>1. (Session \o Unsent) \o b = Session \o (Unsent \o b)
      <4>1. Session \in Seq(Byte) /\ Unsent \in Seq(Byte) /\ b \in Seq(Byte)
        BY <1>types, <2>2
      <4>2. QED BY ONLY <4>1, Regrouped, ZenonT(40)
    <3>2. QED BY <1>2, <1>same, <2>3, <3>1 DEF Line
  <2>5. /\ Len(Line) % Stride = 0
        /\ Line # <<>> => Counted(Line[Len(Line)].r, Line[Len(Line)].d)
        /\ Line = <<>> /\ taken # <<>> => Counted(Last(taken), last)
    BY <1>2 DEF EndInv
  <2>6. /\ \A r, d \in Nat : Counted(r, d) => frames > r /\ frames - r - 1 = stamp - d
        /\ Counted(frames, stamp)'
    BY CountPushed
  <2>7. Line # <<>> => /\ Line[Len(Line)].p = Stride /\ frames > Line[Len(Line)].r
                       /\ frames - Line[Len(Line)].r - 1 = stamp - Line[Len(Line)].d
    <3>1. SUFFICES ASSUME Line # <<>>
                   PROVE  /\ Line[Len(Line)].p = Stride /\ frames > Line[Len(Line)].r
                          /\ frames - Line[Len(Line)].r - 1 = stamp - Line[Len(Line)].d
      OBVIOUS
    <3>2. Len(Line) \in 1..Len(Line)
      BY <1>types, <3>1, EmptySeq
    <3>3. Line[Len(Line)] \in Byte
      BY <1>types, <3>2, ElementOfSeq
    <3>4. Line[Len(Line)].r \in Nat /\ Line[Len(Line)].d \in Nat
      BY <3>3, ByteFields
    <3>5. Line[Len(Line)].p = Stride
      BY <1>types, <2>5, <3>1, LineEnds DEF LineInv
    <3>6. QED BY <2>5, <2>6, <3>1, <3>4, <3>5
  <2>8. Aligned(Line') /\ Ordered(Line') /\ Headed(Line')
    BY <1>types, <2>4, <2>5, <2>7, Grown, GrownAligned DEF LineInv
  <2> DEFINE j == Line \o b
  <2>9. /\ j \in Seq(Byte) /\ j # <<>> /\ Len(j) = Len(Line) + Stride
        /\ Len(j) % Stride = Len(Line) % Stride
        /\ \A i \in 1..Len(Line) : j[i] = Line[i]
        /\ \A p \in 1..Stride : j[Len(Line) + p] = b[p]
    <3>1. Line \in Seq(Byte) /\ frames \in Nat /\ stamp \in Nat
      BY <1>types
    <3>2. QED BY ONLY <3>1, GrownLength
  <2>10. \A p \in 1..Stride : b[p].r = frames /\ b[p].d = stamp /\ b[p].p = p
    BY <1>types, BytesAre
  <2> HIDE DEF b, j
  <2>11. Line' = j
    BY <2>4 DEF j
  <2>12. Line # <<>> => Line'[1] = Line[1]
    <3>1. SUFFICES ASSUME Line # <<>> PROVE 1 \in 1..Len(Line)
      BY <2>9, <2>11
    <3>2. QED BY <1>types, <3>1, EmptySeq
  <2>13. Line = <<>> => Line'[1].r = frames /\ Line'[1].d = stamp
    <3>1. SUFFICES ASSUME Line = <<>> PROVE j[1] = b[1] /\ 1 \in 1..Stride
      BY <2>10, <2>11
    <3>2. 1 \in 1..Stride /\ Len(Line) + 1 = 1
      BY <1>types, <3>1
    <3>3. QED BY <2>9, <3>2
  <2>14. FollowsOn(Line', taken, last)
    <3>1. CASE Line # <<>>
      BY <2>12, <3>1 DEF LineInv, FollowsOn
    <3>2. CASE Line = <<>>
      <4>1. SUFFICES ASSUME taken # <<>>
                     PROVE  frames > Last(taken) /\ frames - Last(taken) - 1 = stamp - last
        BY <2>13, <3>2 DEF FollowsOn
      <4>2. Last(taken) \in Nat /\ last \in Nat
        <5>1. Len(taken) \in 1..Len(taken)
          BY <1>types, <4>1, EmptySeq
        <5>2. QED BY <1>types, <4>1, <5>1, ElementOfSeq DEF Last, ClientInv, StreamTypeOK
      <4>3. QED BY <2>5, <2>6, <3>2, <4>1, <4>2
    <3>3. QED BY <3>1, <3>2
  <2>15. Line'[Len(Line')].r = frames /\ Line'[Len(Line')].d = stamp
    <3>1. Stride \in 1..Stride
      BY <1>types
    <3>2. QED BY <2>9, <2>10, <2>11, <3>1
  <2>16. EndInv'
    <3>1. Counted(Line[Len(Line)].r, Line[Len(Line)].d)'
      BY <1>same, <2>6, <2>15 DEF Counted, Pending
    <3>2. QED BY <2>5, <2>9, <2>11, <3>1 DEF EndInv
  <2>17. QED BY <1>same, <2>8, <2>14, <2>16 DEF LineInv
<1>3. QED BY <1>1, <1>2

\* Bytes the server or the network moves stay on the line.
LEMMA LineMoved ==
  ASSUME StreamTypeOK, QueueInv, Send \/ AdvanceSent \/ Receive
  PROVE  Line' = Line /\ (Active' => Active) /\ UNCHANGED <<taken, last, frames, dropped, pstate>>
<1>types. /\ ring \in Seq(Byte) /\ inbox \in Seq(Byte) /\ pipe \in Seq(Byte)
          /\ Len(ring) \in Nat /\ Len(pipe) \in Nat /\ chunk \in Nat
          /\ Session \in Seq(Byte)
  BY LineTypes, LenProperties DEF StreamTypeOK
<1>1. CASE Send
  <2>1. PICK n \in 1..Len(ring) : pipe' = pipe \o SubSeq(ring, 1, n) /\ chunk' = n
    BY <1>1 DEF Send
  <2>2. n \in 0..Len(ring)
    BY <1>types
  <2> DEFINE a == SubSeq(ring, 1, n)
             b == Behind(ring, n)
  <2>3. a \in Seq(Byte) /\ b \in Seq(Byte) /\ a \o b = ring
    BY <1>types, <2>2, FrontIs, BehindIs, Rejoined
  <2>4. pipe' = pipe \o a /\ Unsent' = b
    BY <1>1, <2>1 DEF Send, Unsent
  <2> HIDE DEF a, b
  <2>typed. a \in Seq(Byte) /\ b \in Seq(Byte) /\ inbox \in Seq(Byte) /\ pipe \in Seq(Byte)
            /\ Session \in Seq(Byte)
    BY <1>types, <2>3
  <2>5. (inbox \o pipe) \o a = inbox \o (pipe \o a)
    BY ONLY <2>typed, Regrouped, ZenonT(40)
  <2>6. (Session \o a) \o b = Session \o (a \o b)
    BY ONLY <2>typed, Regrouped, ZenonT(40)
  <2>7. Session' = Session \o a
    BY <1>1, <2>4, <2>5 DEF Send, Session
  <2>8. Line' = Session \o ring /\ Line = Session \o ring
    BY <1>1, <2>3, <2>4, <2>6, <2>7 DEF Send, Line, Active, Unsent
  <2>9. QED BY <1>1, <2>8 DEF Send, Active
<1>2. CASE AdvanceSent
  BY <1>2 DEF AdvanceSent, Line, Active, Unsent, Session
<1>3. CASE Receive
  <2>1. PICK n \in 1..Len(pipe) :
          inbox' = inbox \o SubSeq(pipe, 1, n) /\ pipe' = Behind(pipe, n)
    BY <1>3 DEF Receive
  <2>2. n \in 0..Len(pipe)
    BY <1>types
  <2> DEFINE a == SubSeq(pipe, 1, n)
             b == Behind(pipe, n)
  <2>3. a \in Seq(Byte) /\ b \in Seq(Byte) /\ a \o b = pipe
    BY <1>types, <2>2, FrontIs, BehindIs, Rejoined
  <2>4. inbox' = inbox \o a /\ pipe' = b
    BY <2>1
  <2> HIDE DEF a, b
  <2>typed. a \in Seq(Byte) /\ b \in Seq(Byte) /\ inbox \in Seq(Byte)
    BY <1>types, <2>3
  <2>5. (inbox \o a) \o b = inbox \o (a \o b)
    BY ONLY <2>typed, Regrouped, ZenonT(40)
  <2>6. Session' = Session
    BY <2>3, <2>4, <2>5 DEF Session
  <2>7. Unsent' = Unsent /\ Active' = Active
    BY <1>3 DEF Receive, Unsent, Active
  <2>8. QED BY <1>3, <2>6, <2>7 DEF Receive, Line
<1>4. QED BY <1>1, <1>2, <1>3

LEMMA LineStep ==
  ASSUME StreamTypeOK, ProducerInv, QueueInv, LineInv, EndInv, ClientInv, StreamNext
  PROVE  LineInv' /\ EndInv'
<1>1. CASE Capture \/ CheckFree \/ DropRecord
  <2>1. Line' = Line /\ UNCHANGED <<taken, last>> /\ (Active' => Active)
    BY <1>1 DEF Capture, CheckFree, DropRecord, Line, Active, Session, Unsent
  <2>2. QED BY <1>1, <2>1, LineKept
<1>2. CASE PushRecord
  BY <1>2, LinePushed
<1>3. CASE Accept
  BY <1>3, LineBegun
<1>4. CASE SetupFails \/ Close
  <2>1. inbox' = <<>> /\ pipe' = <<>> /\ ~Active'
    BY <1>4 DEF SetupFails, Close, NewClient, Active, ClientInv
  <2>2. <<>> \o <<>> = <<>>
    <3>1. <<>> \in Seq(Byte)
      BY EmptySeq
    <3>2. QED BY <3>1, ConcatEmptySeq
  <2>3. Line' = <<>>
    BY <2>1, <2>2 DEF Line, Session
  <2>4. QED BY <2>1, <2>3, LineEmptied
<1>5. CASE Leave /\ sstate \in {"poll", "drain"}
  BY <1>5, LineLeft
<1>6. CASE Send \/ AdvanceSent \/ Receive
  BY <1>6, LineMoved, LineKept
<1>7. CASE NextRecord
  BY <1>7, LineCut
<1>8. CASE Attach \/ PollReady \/ DrainPauses
  <2>1. Line' = Line /\ UNCHANGED <<taken, last, frames, dropped, pstate>> /\ (Active' => Active)
    BY <1>8 DEF Attach, PollReady, DrainPauses, Line, Active, Session, Unsent
  <2>2. QED BY <2>1, LineKept
<1>9. CASE Realign \/ CountTorn \/ Detach
  <2>1. Line' = Line /\ UNCHANGED <<taken, last, frames, dropped, pstate>> /\ (Active' => Active)
    BY <1>9 DEF Realign, CountTorn, Detach, Line, Active, Session
  <2>2. QED BY <2>1, LineKept
<1>10. CASE Connect \/ Finish \/ Vanish \/ Reset \/ Keepalive
  <2>1. Line' = Line /\ UNCHANGED <<taken, last, frames, dropped, pstate>> /\ (Active' => Active)
    BY <1>10 DEF Connect, Finish, Vanish, Reset, Keepalive, PeerBecomes, Line, Active, Session, Unsent
  <2>2. QED BY <2>1, LineKept
<1>11. QED
  BY <1>1, <1>2, <1>3, <1>4, <1>5, <1>6, <1>7, <1>8, <1>9, <1>10
  DEF StreamNext, Produce, Serve, Failures, Outside, PollGone, PollFails, SendFails

\* A record handed over adds itself and the gap before it to what the host
\* accounts for.
LEMMA GapAdded ==
  ASSUME StreamTypeOK, QueueInv, LineInv, EndInv, ClientInv, NextRecord
  PROVE  GapsReported' /\ taken' # <<>> /\ last' # None
<1>types. /\ taken \in Seq(Nat) /\ Len(taken) \in Nat /\ total \in Nat
          /\ Line \in Seq(Byte) /\ Len(inbox) >= Stride /\ Stride \in Nat \ {0}
          /\ inbox \in Seq(Byte)
  BY LineTypes, LenProperties, StreamAssumption DEF StreamTypeOK, NextRecord
<1>1. FollowsOn(Line, taken, last) /\ Line # <<>> /\ Line[1] = Head(inbox)
  BY LineCut
<1>2. Line[1] \in Byte
  <2>1. 1 \in 1..Len(Line)
    BY <1>types, <1>1, EmptySeq
  <2>2. QED BY <1>types, <2>1, ElementOfSeq
<1> DEFINE r == Line[1].r
           d == Line[1].d
           t == Append(taken, r)
<1>3. r \in Nat /\ d \in Nat
  BY <1>2, ByteFields
<1>4. taken' = t /\ last' = d /\ total' = total + Gap(d)
  BY <1>1 DEF NextRecord
<1>5. taken # <<>> => r > Last(taken) /\ r - Last(taken) - 1 = d - last
  BY <1>1 DEF FollowsOn
<1> HIDE DEF r, d
<1>6. /\ t \in Seq(Nat) /\ t # <<>> /\ Len(t) = Len(taken) + 1
      /\ \A i \in 1..Len(taken) : t[i] = taken[i]
      /\ t[Len(taken) + 1] = r
  <2>1. taken \in Seq(Nat) /\ r \in Nat
    BY <1>types, <1>3
  <2>2. QED BY ONLY <2>1, AppendProperties
<1> HIDE DEF t
<1>7. Last(t) = r /\ Head(t) = t[1]
  BY <1>6 DEF Last
<1>8. total' + Len(t) = Last(t) - Head(t) + 1
  <2>1. CASE taken = <<>>
    <3>1. total = 0 /\ last = None /\ Len(taken) = 0
      BY <2>1 DEF ClientInv
    <3>2. Gap(d) = 0
      BY <3>1 DEF Gap
    <3>3. Head(t) = r
      BY <1>6, <1>7, <3>1
    <3>4. QED BY <1>3, <1>4, <1>6, <1>7, <3>1, <3>2, <3>3
  <2>2. CASE taken # <<>>
    <3>1. Len(taken) \in Nat \ {0} /\ 1 \in 1..Len(taken) /\ Len(taken) \in 1..Len(taken)
      BY <1>types, <2>2, EmptySeq
    <3>2. last \in Nat /\ last # None
      BY <2>2 DEF ClientInv, StreamTypeOK
    <3>3. taken[1] \in Nat /\ taken[Len(taken)] \in Nat
      BY <1>types, <3>1, ElementOfSeq
    <3>4. Head(t) = taken[1] /\ Head(taken) = taken[1] /\ Last(taken) = taken[Len(taken)]
      BY <1>6, <1>7, <3>1, <2>2, <1>types DEF Last
    <3>5. total + Len(taken) = taken[Len(taken)] - taken[1] + 1
      BY <2>2, <3>4 DEF ClientInv, GapsReported
    <3>6. r > taken[Len(taken)] /\ r - taken[Len(taken)] - 1 = d - last
      BY <1>5, <2>2, <3>4
    <3>7. Gap(d) = d - last
      BY <1>3, <3>2, <3>3, <3>6 DEF Gap
    <3> DEFINE x == taken[1]
               y == taken[Len(taken)]
    <3>8. /\ x \in Nat /\ y \in Nat /\ r \in Nat /\ d \in Nat /\ last \in Nat
          /\ total \in Nat /\ Len(taken) \in Nat
          /\ total + Len(taken) = y - x + 1 /\ r - y - 1 = d - last
      BY <1>3, <1>types, <3>2, <3>3, <3>5, <3>6
    <3>9. total' = total + (d - last) /\ Len(t) = Len(taken) + 1 /\ Last(t) = r /\ Head(t) = x
      BY <1>4, <1>6, <1>7, <3>4, <3>7
    <3> HIDE DEF x, y
    <3>10. total' + Len(t) = r - x + 1
      BY <3>8, <3>9
    <3>11. QED BY <3>9, <3>10
  <2>3. QED BY <2>1, <2>2
<1>9. QED BY <1>3, <1>4, <1>6, <1>8 DEF GapsReported, None

LEMMA ClientStep ==
  ASSUME StreamTypeOK, ProducerInv, QueueInv, LineInv, EndInv, ClientInv, StreamNext
  PROVE  ClientInv'
<1>1. CASE Accept \/ SetupFails \/ Close
  <2>1. taken' = <<>> /\ last' = None /\ total' = 0 /\ inbox' = <<>> /\ pipe' = <<>>
    BY <1>1 DEF Accept, SetupFails, Close, NewClient, ClientInv
  <2>2. QED BY <2>1 DEF ClientInv, GapsReported
<1>2. CASE NextRecord
  <2>1. GapsReported' /\ taken' # <<>> /\ last' # None
    BY <1>2, GapAdded
  <2>2. sstate \notin {"accept", "setup"}
    <3>1. Len(inbox) >= Stride
      BY <1>2 DEF NextRecord
    <3>2. inbox # <<>>
      BY <3>1, StreamAssumption
    <3>3. QED BY <3>2 DEF ClientInv
  <2>3. sstate' = sstate
    BY <1>2 DEF NextRecord
  <2>4. QED BY <2>1, <2>2, <2>3 DEF ClientInv
<1>3. CASE Receive
  <2>1. pipe # <<>>
    <3>1. PICK n \in 1..Len(pipe) : TRUE
      BY <1>3 DEF Receive
    <3>2. QED BY <3>1
  <2>2. sstate \notin {"accept", "setup"} /\ sstate' = sstate
    BY <1>3, <2>1 DEF Receive, ClientInv
  <2>3. QED BY <1>3, <2>2 DEF Receive, ClientInv, GapsReported
<1>4. ASSUME ~Accept, ~SetupFails, ~Close, ~NextRecord, ~Receive
      PROVE  /\ UNCHANGED clientVars
             /\ sstate' \in {"accept", "setup"} => sstate' = sstate /\ pipe' = pipe
  BY <1>4 DEF StreamNext, Produce, Serve, Failures, Outside, Capture, CheckFree, PushRecord,
     DropRecord, Attach, PollGone, PollFails, PollReady, DrainPauses, Send, SendFails, Leave,
     AdvanceSent, Realign, CountTorn, Detach, Connect, Finish, Vanish, Reset, Keepalive, PeerBecomes
<1>5. ASSUME ~Accept, ~SetupFails, ~Close, ~NextRecord, ~Receive
      PROVE  ClientInv'
  BY <1>4, <1>5 DEF ClientInv, GapsReported
<1>6. QED BY <1>1, <1>2, <1>3, <1>5

LEMMA StreamStepInv == StreamInv /\ [StreamNext]_streamVars => StreamInv'
<1> SUFFICES ASSUME StreamInv, [StreamNext]_streamVars PROVE StreamInv'
  OBVIOUS
<1> USE DEF StreamInv
<1>1. CASE StreamNext
  <2>1. StreamTypeOK'
    BY <1>1, StreamTypeStep
  <2>2. ProducerInv'
    BY <1>1, <2>1, ProducerStep
  <2>3. QueueInv'
    BY <1>1, QueueStep
  <2>4. LineInv' /\ EndInv'
    BY <1>1, LineStep
  <2>5. ClientInv'
    BY <1>1, ClientStep
  <2>6. TornInv'
    BY <1>1, TornStep
  <2>7. QED BY <2>1, <2>2, <2>3, <2>4, <2>5, <2>6
<1>2. CASE UNCHANGED streamVars
  <2>1. UNCHANGED <<ring, producerVars, glueVars, netVars, cut, received>>
    BY <1>2 DEF streamVars
  <2>2. StreamTypeOK' /\ ProducerInv' /\ TornInv'
    BY <2>1 DEF StreamTypeOK, ProducerInv, RecordFits, TornInv
  <2>3. QueueInv'
    BY <2>1 DEF QueueInv, Counted, Pending
  <2>4. ClientInv'
    BY <2>1 DEF ClientInv, GapsReported
  <2>5. Line' = Line /\ Active' = Active
    BY <2>1 DEF Line, Active, Session, Unsent
  <2>6. LineInv' /\ EndInv'
    BY <2>1, <2>5 DEF LineInv, EndInv, Counted, Pending
  <2>7. QED BY <2>2, <2>3, <2>4, <2>6
<1>3. QED BY <1>1, <1>2

\* The data plane keeps its invariant, however the producer, the server thread
\* and the consumers interleave.
THEOREM StreamInvariance == StreamSpec => []StreamInv
BY StreamInitInv, StreamStepInv, PTL DEF StreamSpec

\* Every variable of the data plane keeps its type.
THEOREM StreamTypeCorrect == StreamSpec => []StreamTypeOK
<1>1. StreamInv => StreamTypeOK
  BY DEF StreamInv
<1>2. QED BY <1>1, StreamInvariance, PTL

\* The consumer's bytes are the beginning of the line.
LEMMA LineWhole ==
  ASSUME StreamInv
  PROVE  WholeRecords
<1>types. /\ Session \in Seq(Byte) /\ Unsent \in Seq(Byte) /\ Len(Session) \in Nat
          /\ Len(Unsent) \in Nat /\ Stride \in Nat \ {0}
  BY LineTypes, LenProperties, StreamAssumption DEF StreamInv
<1>1. Aligned(Session) /\ Ordered(Session) /\ Headed(Session)
  BY <1>types, Opening DEF StreamInv, LineInv, Line
<1>2. FollowsOn(Session, taken, last)
  <2>1. CASE ~Active
    BY <2>1 DEF StreamInv, LineInv, Line
  <2>2. CASE Active
    <3>1. SUFFICES ASSUME Session # <<>> PROVE Line # <<>> /\ Line[1] = Session[1]
      BY DEF FollowsOn, LineInv, StreamInv
    <3>2. Len(Session) \in Nat \ {0}
      BY <1>types, <3>1, EmptySeq
    <3>3. 1 \in 1..(Len(Session) + Len(Unsent)) /\ 1 <= Len(Session)
      BY <1>types, <3>2
    <3>4. Line = Session \o Unsent
      BY <2>2 DEF Line
    <3>5. Line[1] = Session[1] /\ Len(Line) = Len(Session) + Len(Unsent)
      BY <1>types, <3>3, <3>4, ConcatProperties
    <3>6. Line # <<>>
      BY <1>types, <3>2, <3>5
    <3>7. QED BY <3>5, <3>6
  <2>3. QED BY <2>1, <2>2
<1>3. ASSUME NEW i \in 1..Len(Session)
      PROVE  \/ Session[i].p = 1 /\ i = 1
                /\ \/ taken = <<>>
                   \/ Session[i].r > Last(taken) /\ Session[i].r - Last(taken) - 1 = Session[i].d - last
             \/ Session[i].p = 1 /\ i > 1
                /\ Session[i - 1].p = Stride /\ Session[i].r > Session[i - 1].r
                /\ Session[i].r - Session[i - 1].r - 1 = Session[i].d - Session[i - 1].d
             \/ Session[i].p > 1 /\ i > 1 /\ Session[i] = [Session[i - 1] EXCEPT !.p = @ + 1]
  <2>1. CASE i = 1
    <3>1. Session[1].p = ((1 - 1) % Stride) + 1
      BY <1>1, <2>1 DEF Aligned
    <3>2. Session[1].p = 1
      <4>1. (1 - 1) % Stride = 0
        BY <1>types
      <4>2. QED BY <3>1, <4>1
    <3>3. Session # <<>>
      BY <1>types, <2>1
    <3>4. QED BY <1>2, <2>1, <3>2, <3>3 DEF FollowsOn
  <2>2. CASE i # 1
    <3>1. i \in 2..Len(Session) /\ i > 1
      BY <1>types, <2>2
    <3>2. Joins(Session[i - 1], Session[i])
      BY <1>1, <3>1 DEF Ordered
    <3>3. Session[i] \in Byte
      BY <1>types, ElementOfSeq
    <3>4. Session[i].p \in 1..Stride
      BY <3>3, ByteFields
    <3>5. QED BY <1>types, <3>1, <3>2, <3>4 DEF Joins
  <2>3. QED BY <2>1, <2>2
<1>4. QED BY <1>3 DEF WholeRecords, Session

\* Whatever a consumer receives begins at a record boundary and is whole records
\* in the order captured, and the gaps the host reports are the frames missing,
\* for every record size, ring and socket buffer, wherever earlier sessions ended
\* (serve_consumer and realign).
THEOREM RecordsInOrderEver == StreamSpec => []RecordsArriveInOrder
<1>1. StreamInv => RecordsArriveInOrder
  BY LineWhole DEF RecordsArriveInOrder, StreamInv, ClientInv
<1>2. QED BY <1>1, StreamInvariance, PTL

\* While no consumer is attached the torn count is the number of sessions that
\* ended inside a record (usbscpi_stream_torn, usbscpi_stream_attached).
THEOREM TornKnownEver == StreamSpec => []TornKnownAtDetach
<1>1. StreamInv => TornKnownAtDetach
  BY DEF StreamInv, StreamTypeOK, TornInv, TornKnownAtDetach
<1>2. QED BY <1>1, StreamInvariance, PTL
=============================================================================
