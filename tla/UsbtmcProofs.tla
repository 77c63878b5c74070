---------------------------- MODULE UsbtmcProofs ----------------------------
(***************************************************************************)
(* The commands of Usbtmc arrive whole, whatever the replies, the buffer   *)
(* sizes and the number of transfers a command is cut into; and a reply    *)
(* that fits the buffers reaches the query that asked for it.              *)
(***************************************************************************)
EXTENDS Usbtmc, SequenceTheorems, TLAPS

\* A part as the core holds it and as the host offers it.
MidPart(c, i)  == [id |-> c, part |-> i, last |-> FALSE]
LastPart(c, i) == [id |-> c, part |-> i, last |-> TRUE]
Offered(c, i, n, query) ==
  [req |-> FALSE, id |-> c, part |-> i, last |-> i = n, query |-> query]

\* The parts the core holds, and those still to come, of a command of n parts.
Held(c, k) == [i \in 1..k |-> MidPart(c, i)]
Remaining(c, n, k, query) == [j \in 1..(n - k) |-> Offered(c, k + j, n, query)]

Whole(l) ==
  \A i \in DOMAIN l : l[i].id = l[1].id /\ l[i].part = i /\ (l[i].last <=> i = Len(l))

Writing(n, k) ==
  /\ out = Remaining(cmd, n, k, asked)
  /\ line = IF k < n THEN Held(cmd, k) ELSE <<>>

\* While a command is written, the core holds the parts that have left the
\* host; at any other time, until both endpoints are cleared, it holds none.
CommandInv ==
  /\ hpc = "write" => \E n \in Nat : \E k \in 0..n : Writing(n, k)
  /\ hpc = "requesting" /\ out # <<>> => Head(out).req /\ Tail(out) = <<>>
  /\ hpc \notin {"write", "requesting"} => out = <<>>
  /\ hpc \notin {"write", "clearOut"} => line = <<>>
  /\ Whole(executed.line)

------------------------------------------------------------------------------
\* Nothing has left the host when it starts to write.
LEMMA AllRemain ==
  ASSUME NEW c, NEW n \in Nat \ {0}, NEW query
  PROVE  Remaining(c, n, 0, query) = Parts(c, n, query) /\ Held(c, 0) = <<>>
BY DEF Remaining, Parts, Held, Offered

\* What is in a part, ...
LEMMA PartFields ==
  ASSUME NEW c, NEW i
  PROVE  /\ MidPart(c, i).id = c /\ MidPart(c, i).part = i /\ ~MidPart(c, i).last
         /\ LastPart(c, i).id = c /\ LastPart(c, i).part = i /\ LastPart(c, i).last
BY DEF MidPart, LastPart

\* ... and what the core makes of an offered one.
LEMMA PartTaken ==
  ASSUME NEW c, NEW i, NEW n, NEW query, NEW p, p = Offered(c, i, n, query),
         NEW e, e = [id |-> p.id, part |-> p.part, last |-> p.last]
  PROVE  /\ ~p.req /\ (p.last <=> i = n)
         /\ i = n => e = LastPart(c, i)
         /\ i # n => e = MidPart(c, i)
BY DEF Offered, MidPart, LastPart

LEMMA OfferedAsks == \A c, i, n, query : ~Offered(c, i, n, query).req
BY DEF Offered
LEMMA OfferedFields ==
  ASSUME NEW c, NEW i, NEW n, NEW query, NEW p, p = Offered(c, i, n, query)
  PROVE  p.id = c /\ p.query = query /\ (p.last <=> i = n)
BY DEF Offered

\* One more part leaves the host.
LEMMA OneLess ==
  ASSUME NEW c, NEW n \in Nat, NEW k \in 0..n, NEW query
  PROVE  /\ Remaining(c, n, k, query) = <<>> <=> k = n
         /\ k < n => /\ Head(Remaining(c, n, k, query)) = Offered(c, k + 1, n, query)
                     /\ Tail(Remaining(c, n, k, query)) = Remaining(c, n, k + 1, query)
<1> DEFINE Packet == {Offered(c, i, n, query) : i \in Nat}
           r == Remaining(c, n, k, query)
           t == Remaining(c, n, k + 1, query)
<1>1. n - k \in Nat /\ k \in Nat
  OBVIOUS
<1>2. r \in Seq(Packet) /\ Len(r) = n - k
  BY <1>1 DEF Remaining
<1>3. r = <<>> <=> k = n
  <2> HIDE DEF r, Packet
  <2> QED BY <1>1, <1>2, EmptySeq
<1>4. ASSUME k < n PROVE Head(r) = Offered(c, k + 1, n, query) /\ Tail(r) = t
  <2>1. n - k >= 1 /\ n - (k + 1) = (n - k) - 1 /\ n - (k + 1) \in Nat /\ k + 1 \in Nat
    BY <1>1, <1>4
  <2>2. t \in Seq(Packet) /\ Len(t) = (n - k) - 1
    <3>1. t \in Seq(Packet) /\ Len(t) = n - (k + 1)
      BY <2>1 DEF Remaining
    <3> QED BY <2>1, <3>1
  <2>3. /\ Head(r) = r[1] /\ Tail(r) \in Seq(Packet) /\ Len(Tail(r)) = (n - k) - 1
        /\ \A j \in 1..((n - k) - 1) : Tail(r)[j] = r[j + 1]
    <3> HIDE DEF r, Packet
    <3> QED BY <1>2, <1>3, <1>4, HeadTailProperties
  <2>4. \A j \in 1..((n - k) - 1) : r[j + 1] = t[j]
    BY <1>1, <2>1 DEF Remaining
  <2>5. Tail(r) = t
    <3> HIDE DEF r, t, Packet
    <3> QED BY <2>2, <2>3, <2>4, SeqEqual
  <2>6. r[1] = Offered(c, k + 1, n, query)
    BY <1>1, <2>1 DEF Remaining
  <2> QED BY <2>3, <2>5, <2>6
<1> QED BY <1>3, <1>4

\* The core holds one part more, ...
LEMMA OneMore ==
  ASSUME NEW c, NEW k \in Nat, NEW e, NEW l, l = Append(Held(c, k), e)
  PROVE  /\ DOMAIN l = 1..(k + 1) /\ Len(l) = k + 1 /\ l = [i \in 1..(k + 1) |-> l[i]]
         /\ \A i \in 1..k : l[i] = MidPart(c, i)
         /\ l[k + 1] = e
<1> DEFINE h == Held(c, k)
           Part == {MidPart(c, i) : i \in Nat} \cup {e}
<1>1. h \in Seq(Part) /\ Len(h) = k /\ e \in Part /\ \A i \in 1..k : h[i] = MidPart(c, i)
  BY DEF Held
<1> HIDE DEF h, Part
<1>2. l = Append(h, e)
  BY DEF h
<1>3. /\ l \in Seq(Part) /\ Len(l) = k + 1 /\ l[k + 1] = e
      /\ \A i \in 1..k : l[i] = h[i]
  BY <1>1, <1>2, AppendProperties
<1>4. DOMAIN l = 1..(k + 1) /\ l = [i \in 1..(k + 1) |-> l[i]]
  BY <1>3, LenProperties
<1> QED BY <1>1, <1>3, <1>4

\* ... which may be the last.
LEMMA NextHeld ==
  ASSUME NEW c, NEW k \in Nat, NEW e, e = MidPart(c, k + 1), NEW l, l = Append(Held(c, k), e)
  PROVE  l = Held(c, k + 1)
<1>1. /\ l = [i \in 1..(k + 1) |-> l[i]] /\ l[k + 1] = MidPart(c, k + 1)
      /\ \A i \in 1..k : l[i] = MidPart(c, i)
  BY OneMore
<1>2. \A i \in 1..(k + 1) : i \in 1..k \/ i = k + 1
  OBVIOUS
<1>3. \A i \in 1..(k + 1) : l[i] = MidPart(c, i)
  BY <1>1, <1>2
<1> QED BY <1>1, <1>3 DEF Held
LEMMA LastMakesWhole ==
  ASSUME NEW c, NEW k \in Nat, NEW e, e = LastPart(c, k + 1), NEW l, l = Append(Held(c, k), e)
  PROVE  Whole(l)
<1>1. /\ DOMAIN l = 1..(k + 1) /\ Len(l) = k + 1 /\ l[k + 1] = LastPart(c, k + 1)
      /\ \A i \in 1..k : l[i] = MidPart(c, i)
  BY OneMore
<1>2. \A i \in 1..(k + 1) : i \in 1..k \/ i = k + 1
  OBVIOUS
<1>3. \A i \in 1..(k + 1) : l[i].id = c /\ l[i].part = i
  BY <1>1, <1>2, PartFields
<1>4. \A i \in 1..(k + 1) : l[i].last <=> i = k + 1
  <2>1. \A i \in 1..k : i # k + 1 /\ ~l[i].last
    BY <1>1, PartFields
  <2>2. l[k + 1].last
    BY <1>1, PartFields
  <2> QED BY <1>2, <2>1, <2>2
<1>5. 1 \in 1..(k + 1)
  OBVIOUS
<1> QED BY <1>1, <1>3, <1>4, <1>5 DEF Whole

------------------------------------------------------------------------------
\* What the host offers while it writes: parts only, and all have left it when it ends.
LEMMA OnlyParts ==
  ASSUME NEW n \in Nat, NEW k \in 0..n, Writing(n, k)
  PROVE  (out = <<>> => line = <<>>) /\ (out # <<>> => ~Head(out).req)
<1>1. out = Remaining(cmd, n, k, asked) /\ (~(k < n) => line = <<>>)
  BY DEF Writing
<1> DEFINE r == Remaining(cmd, n, k, asked)
<1>2. r = <<>> <=> k = n
  BY OneLess
<1>3. k < n => Head(r) = Offered(cmd, k + 1, n, asked)
  BY OneLess
<1> HIDE DEF r
<1>4. k < n \/ k = n
  OBVIOUS
<1>5. k < n => ~Head(r).req
  BY <1>3, OfferedAsks
<1>6. out = r
  BY <1>1 DEF r
<1> QED BY <1>1, <1>2, <1>4, <1>5, <1>6

LEMMA NoneRemain ==
  ASSUME NEW c, NEW n \in Nat, NEW k \in 0..n, NEW query
  PROVE  Remaining(c, n, k, query) = <<>> <=> k = n
BY OneLess

\* A request is offered only by a host that reads.
LEMMA OnlyRequests == CommandInv /\ out # <<>> /\ Head(out).req => hpc = "requesting"
<1> SUFFICES ASSUME CommandInv, out # <<>>, Head(out).req, hpc = "write" PROVE FALSE
  BY DEF CommandInv
<1>1. PICK n \in Nat : \E k \in 0..n : Writing(n, k)
  BY DEF CommandInv
<1>2. PICK k \in 0..n : Writing(n, k)
  BY <1>1
<1> QED BY <1>2, OnlyParts

LEMMA CommandStart == UsbtmcInit => CommandInv
BY DEF UsbtmcInit, CommandInv, Whole

\* The device takes a part: of the command being written, since a request
\* is no part and nothing else is offered.
LEMMA TakePartKeeps == ASSUME CommandInv, TakePart PROVE CommandInv'
<1>1. hpc = "write" /\ hpc' = "write"
  BY DEF CommandInv, TakePart, hostVars
<1>2. PICK n \in Nat : \E k \in 0..n : Writing(n, k)
  BY <1>1 DEF CommandInv
<1>3. PICK k \in 0..n : Writing(n, k)
  BY <1>2
<1>4. /\ ~Head(out).req /\ out # <<>> /\ out' = Tail(out)
      /\ hpc' = hpc /\ cmd' = cmd /\ asked' = asked
  BY DEF TakePart, hostVars
<1>5. /\ k < n /\ k + 1 \in 0..n /\ k \in Nat
      /\ Head(out) = Offered(cmd, k + 1, n, asked)
      /\ out' = Remaining(cmd, n, k + 1, asked)
      /\ line = Held(cmd, k)
  <2>1. k \in 0..n /\ out = Remaining(cmd, n, k, asked) /\ out # <<>>
    BY <1>3, <1>4 DEF Writing
  <2>2. k < n /\ k + 1 \in 0..n /\ k \in Nat
    BY <2>1, OneLess
  <2>3. Head(out) = Offered(cmd, k + 1, n, asked) /\ Tail(out) = Remaining(cmd, n, k + 1, asked)
    BY SMTT(30), <2>1, <2>2, OneLess
  <2>4. line = Held(cmd, k)
    BY <1>3, <2>2 DEF Writing
  <2> QED BY <1>4, <2>2, <2>3, <2>4
<1> DEFINE p == Head(out)
           e == [id |-> p.id, part |-> p.part, last |-> p.last]
           all == Append(Held(cmd, k), e)
<1>6. \/ ~p.last /\ line' = all /\ executed' = executed
      \/ p.last /\ line' = <<>> /\ executed'.line = all
  BY <1>5 DEF TakePart
<1>7. /\ p.last <=> k + 1 = n
      /\ k + 1 = n => e = LastPart(cmd, k + 1)
      /\ k + 1 # n => e = MidPart(cmd, k + 1)
  <2>1. p = Offered(cmd, k + 1, n, asked)
    BY <1>5
  <2> HIDE DEF p
  <2> QED BY <2>1, PartTaken
<1> HIDE DEF p, e
<1>8. Writing(n, k + 1)' /\ Whole(executed'.line)
  <2>1. CASE k + 1 # n
    <3>1. line' = all /\ executed' = executed /\ e = MidPart(cmd, k + 1)
      BY <1>6, <1>7, <2>1
    <3>2. line' = Held(cmd, k + 1) /\ k + 1 < n
      BY <1>5, <2>1, <3>1, NextHeld
    <3> QED BY <1>4, <1>5, <3>1, <3>2 DEF Writing, CommandInv
  <2>2. CASE k + 1 = n
    <3>1. line' = <<>> /\ executed'.line = all /\ e = LastPart(cmd, k + 1)
      BY <1>6, <1>7, <2>2
    <3>2. Whole(all)
      BY <1>5, <3>1, LastMakesWhole
    <3>3. ~(k + 1 < n)
      BY <2>2
    <3> QED BY <1>4, <1>5, <3>1, <3>2, <3>3 DEF Writing
  <2> QED BY <2>1, <2>2
<1> QED BY <1>1, <1>5, <1>8 DEF CommandInv

\* No step of the host or of the bus leaves a part of an abandoned command in
\* front of another's.
LEMMA CommandStep == ASSUME CommandInv, [UsbtmcNext]_usbtmcVars PROVE CommandInv'
<1> USE DEF CommandInv, hostVars, txVars, coreVars
<1>1. CASE Write
  <2>1. PICK n \in 1..MaxParts, query \in BOOLEAN :
          out' = Parts(cmd', n, query) /\ asked' = query
    BY <1>1 DEF Write
  <2>2. n \in Nat \ {0} /\ hpc' = "write" /\ asked' = query /\ line' = <<>> /\ executed' = executed
    BY <1>1, <2>1, UsbtmcAssumption DEF Write
  <2>3. Writing(n, 0)'
    BY <2>1, <2>2, AllRemain DEF Writing
  <2> QED BY <2>2, <2>3
<1>2. CASE Written
  <2>1. PICK n \in Nat : \E k \in 0..n : Writing(n, k)
    BY <1>2 DEF Written
  <2>2. PICK k \in 0..n : Writing(n, k)
    BY <2>1
  <2>3. line = <<>>
    BY <1>2, <2>2, OnlyParts DEF Written
  <2> QED BY <1>2, <2>3 DEF Written
<1>3. CASE ReadUnasked
  BY <1>3 DEF ReadUnasked
<1>4. CASE Request
  BY <1>4 DEF Request, Ask
<1>5. CASE Requested
  BY <1>5 DEF Requested
<1>6. CASE Receive
  BY <1>6 DEF Receive
<1>7. CASE Timeout \/ HostRestart
  BY <1>7 DEF Timeout, HostRestart, Abandon
<1>8. CASE ClearOut
  BY <1>8 DEF ClearOut, CoreCleared, TxReset
<1>9. CASE ClearIn
  BY <1>9 DEF ClearIn, TxReset
<1>10. CASE Open
  BY <1>10 DEF Open, Writing
<1>11. CASE TakePart
  BY <1>11, TakePartKeeps
<1>12. CASE SendChunk \/ SendDummy
  <2>1. hpc = "requesting" /\ hpc' = hpc /\ out' = <<>> /\ line' = line /\ executed' = executed
    <3>1. out # <<>> /\ Head(out).req
      BY <1>12 DEF SendChunk, SendDummy
    <3>2. hpc = "requesting"
      BY <3>1, OnlyRequests DEF CommandInv
    <3> QED BY <1>12, <3>1, <3>2 DEF SendChunk, SendDummy
  <2> QED BY <2>1
<1>13. CASE Complete
  BY <1>13 DEF Complete, TxReset, Writing
<1>14. CASE BusReset
  BY <1>14 DEF BusReset
<1>15. CASE UNCHANGED usbtmcVars
  BY <1>15 DEF usbtmcVars, Writing
<1> QED BY <1>1, <1>2, <1>3, <1>4, <1>5, <1>6, <1>7, <1>8, <1>9, <1>10, <1>11, <1>12,
           <1>13, <1>14, <1>15 DEF UsbtmcNext, Host, Device

\* usbscpi_tinyusb.c, tud_usbtmc_msg_data_cb and the clear-feature callbacks: what the
\* core executes is one command of the host from its first part to its last, whichever
\* writes timed out, were cut off by a reset or died with their process before.
THEOREM CommandsAlwaysWhole == UsbtmcSpec => []CommandsWhole
<1>1. CommandInv => CommandsWhole
  BY DEF CommandInv, CommandsWhole, Whole
<1> QED BY <1>1, CommandStart, CommandStep, PTL DEF UsbtmcSpec
------------------------------------------------------------------------------

\* What is still to be read: the reply of the last command, once that is executed.
Answer == IF asked /\ (hpc = "write" => out = <<>>) THEN executed.reply ELSE <<>>

\* What the host has of the reply, and what the message on its way adds.
HasRead(n) == result = SubSeq(txBuf, 1, n)
Carries ==
  \/ /\ txBuf = <<>> /\ txSent = 0 /\ txChunk = 0
     /\ inMsg.bytes = Dummy /\ inMsg.eom
  \/ /\ txBuf # <<>> /\ (inMsg.eom <=> AllSent)
     /\ inMsg.bytes = SubSeq(txBuf, txSent + 1, txSent + txChunk)

\* Between two requests; with a message on its way; with one that the host has
\* and the device has not yet seen completed.
AtRest ==
  /\ hpc \in {"idle", "write", "request", "requesting"}
  /\ txBuf = Answer /\ inMsg = NoMsg /\ HasRead(txSent)
  /\ txChunk = 0 /\ ~txInFlight
  /\ IF txBuf = <<>> THEN txSent = 0 ELSE txSent < Len(txBuf)
  /\ hpc \in {"idle", "write"} => txSent = 0
OnItsWay ==
  /\ hpc \in {"requesting", "read"} /\ out = <<>>
  /\ txBuf = Answer /\ inMsg.tag = btag /\ HasRead(txSent) /\ Carries
Drained ==
  /\ hpc \in {"idle", "write", "request", "requesting"}
  /\ AllSent /\ Answer = <<>> /\ inMsg = NoMsg /\ result = <<>>
MoreToSend ==
  /\ hpc \in {"request", "requesting"}
  /\ txBuf = Answer /\ inMsg = NoMsg /\ HasRead(txSent + txChunk) /\ ~AllSent

ExchangeInv ==
  \/ /\ hpc = "clearOut" /\ out = <<>>
  \/ /\ hpc = "clearIn" /\ bus = "idle" /\ out = <<>>
     /\ txBuf = <<>> /\ txSent = 0 /\ txChunk = 0 /\ ~txInFlight
  \/ bus = "idle" /\ AtRest
  \/ bus = "tx" /\ OnItsWay
  \/ bus = "sent" /\ (Drained \/ MoreToSend)

AskInv ==
  /\ asked => hpc \in {"write", "request", "requesting", "read"}
  /\ hpc \in {"clearOut", "clearIn"} => result = <<>>
  /\ hpc = "requesting" => /\ out = <<>> <=> bus = "tx"
                           /\ \/ out = <<>>
                              \/ \E size \in 1..ReadSize : out = <<Ask(btag, size)>>
  /\ Answer = Bytes(cmd, Len(Answer))

Byte == [id : Nat, i : Nat]
ReplyTypeOK ==
  /\ cmd \in Nat /\ btag \in Nat /\ asked \in BOOLEAN
  /\ result \in Seq(Byte) /\ executed.reply \in Seq(Byte)
  /\ txBuf \in Seq(Byte) /\ txSent \in Nat /\ txChunk \in Nat
  /\ txPending \in BOOLEAN /\ txInFlight \in BOOLEAN

ReplyInv ==
  ReplyTypeOK /\ OffsetsInBuffer /\ ReadsOwnReply /\ NeverRefused /\ ExchangeInv /\ AskInv

LEMMA BytesAre ==
  ASSUME NEW c \in Nat, NEW m \in Nat
  PROVE  Bytes(c, m) \in Seq(Byte) /\ Len(Bytes(c, m)) = m /\ (Bytes(c, m) = <<>> <=> m = 0)
<1>1. Bytes(c, m) \in Seq(Byte) /\ Len(Bytes(c, m)) = m
  BY DEF Bytes, Byte
<1> QED BY <1>1, EmptySeq

LEMMA NoBytes == <<>> \in Seq(Byte) /\ Len(<<>>) = 0
BY EmptySeq

LEMMA DummyIs == Dummy \in Seq(Byte) /\ Len(Dummy) = 1 /\ Dummy # <<>>
<1>1. Dummy \in Seq(Byte) /\ Len(Dummy) = 1
  BY UsbtmcAssumption DEF Dummy, Byte
<1> QED BY <1>1, EmptySeq

LEMMA TotalIs == ASSUME NEW ends \in Replies \cup {<<>>} PROVE Total(ends) \in Nat
<1>1. CASE ends = <<>>
  BY <1>1 DEF Total
<1>2. CASE ends # <<>>
  <2>1. ends \in Seq(Nat \ {0})
    BY <1>2, UsbtmcAssumption
  <2>2. Len(ends) \in Nat \ {0}
    BY <1>2, <2>1, EmptySeq
  <2>3. ends[Len(ends)] \in Nat \ {0}
    BY <2>1, <2>2, ElementOfSeq
  <2> QED BY <1>2, <2>3 DEF Total
<1> QED BY <1>1, <1>2

\* What has been read of a buffer, ...
LEMMA Prefix ==
  ASSUME NEW S, NEW s \in Seq(S), NEW m \in Nat, m <= Len(s)
  PROVE  /\ SubSeq(s, 1, m) \in Seq(S) /\ Len(SubSeq(s, 1, m)) = m
         /\ m = Len(s) => SubSeq(s, 1, m) = s
<1>1. Len(s) \in Nat
  BY LenProperties
<1>2. \A i \in 1..m : s[i] \in S
  BY <1>1, ElementOfSeq
<1>3. Len(SubSeq(s, 1, m)) = IF 1 <= m THEN m - 1 + 1 ELSE 0
  BY <1>2, SubSeqProperties
<1> QED BY <1>2, <1>3, SubSeqProperties, SubSeqFull

\* ... and its next bytes.
LEMMA NextBytes ==
  ASSUME NEW S, NEW s \in Seq(S), NEW m \in Nat, NEW n \in Nat, m <= n, n <= Len(s)
  PROVE  SubSeq(s, 1, m) \o SubSeq(s, m + 1, n) = SubSeq(s, 1, n)
<1>1. Len(s) \in Nat
  BY LenProperties
<1>2. 1 \in 1..(Len(s) + 1) /\ m \in (1 - 1)..Len(s) /\ n \in m..Len(s)
  BY <1>1
<1> QED BY <1>2, ConcatAdjacentSubSeq

LEMMA NothingRead == SubSeq(<<>>, 1, 0) = <<>>
OBVIOUS

\* A part offered belongs to the command being written.
LEMMA PartOfCommand ==
  ASSUME CommandInv, out # <<>>, ~Head(out).req
  PROVE  /\ hpc = "write" /\ Head(out).id = cmd /\ Head(out).query = asked
         /\ Head(out).last <=> Tail(out) = <<>>
<1>1. hpc = "write"
  BY DEF CommandInv
<1>2. PICK n \in Nat : \E k \in 0..n : Writing(n, k)
  BY <1>1 DEF CommandInv
<1>3. PICK k \in 0..n : Writing(n, k)
  BY <1>2
<1>4. k < n /\ k + 1 \in 0..n /\ Head(out) = Offered(cmd, k + 1, n, asked)
      /\ Tail(out) = Remaining(cmd, n, k + 1, asked)
  BY <1>3, OneLess DEF Writing
<1>5. Remaining(cmd, n, k + 1, asked) = <<>> <=> k + 1 = n
  BY <1>4, NoneRemain
<1>6. Head(out).id = cmd /\ Head(out).query = asked /\ (Head(out).last <=> k + 1 = n)
  BY <1>4, OfferedFields
<1> QED BY <1>1, <1>4, <1>5, <1>6

LEMMA ReplyStart == UsbtmcInit => ReplyInv
<1> SUFFICES ASSUME UsbtmcInit PROVE ReplyInv
  OBVIOUS
<1>1. <<>> \in Seq(Byte) /\ Len(<<>>) = 0
  OBVIOUS
<1>2. OffsetsInBuffer /\ ReadsOwnReply /\ NeverRefused /\ ExchangeInv
  BY <1>1, UsbtmcAssumption DEF UsbtmcInit, OffsetsInBuffer, ReadsOwnReply, NeverRefused, ExchangeInv
<1>3. ReplyTypeOK
  BY <1>1 DEF UsbtmcInit, ReplyTypeOK
<1>4. AskInv
  BY <1>1 DEF UsbtmcInit, AskInv, Answer, Bytes
<1> QED BY <1>2, <1>3, <1>4 DEF ReplyInv

\* The host starts a command, when nothing is to be read ...
LEMMA WriteKeeps == ASSUME CommandInv, ReplyInv, Write PROVE ReplyInv'
<1> USE DEF ReplyInv, hostVars, txVars, coreVars
<1>1. PICK n \in 1..MaxParts, query \in BOOLEAN :
        out' = Parts(cmd', n, query) /\ asked' = query
  BY DEF Write
<1>2. /\ hpc = "idle" /\ hpc' = "write" /\ cmd' = (cmd + 1) % Ids /\ cmd' \in Nat
      /\ UNCHANGED <<btag, result, outcome, bus, inMsg, txVars, coreVars>>
  <2>1. hpc = "idle" /\ hpc' = "write" /\ cmd' = (cmd + 1) % Ids
        /\ UNCHANGED <<btag, result, outcome, bus, inMsg, txVars, coreVars>>
    BY DEF Write
  <2> QED BY <2>1, UsbtmcAssumption DEF ReplyTypeOK
<1>3. out' # <<>>
  <2>1. n \in Nat \ {0} /\ 0 \in 0..n /\ n \in Nat
    BY UsbtmcAssumption
  <2>2. Remaining(cmd', n, 0, query) = <<>> <=> 0 = n
    BY <2>1, NoneRemain
  <2> QED BY <1>1, <2>1, <2>2, AllRemain
<1>4. ~asked /\ Answer = <<>> /\ Answer' = <<>>
  BY <1>2, <1>3 DEF AskInv, Answer
<1>5. ReplyTypeOK' /\ OffsetsInBuffer' /\ ReadsOwnReply' /\ NeverRefused'
  BY <1>1, <1>2 DEF ReplyTypeOK, OffsetsInBuffer, ReadsOwnReply, NeverRefused
<1>6. ExchangeInv'
  BY <1>2, <1>4 DEF ExchangeInv, AtRest, OnItsWay, Drained, MoreToSend, HasRead, AllSent
<1>7. AskInv'
  BY <1>2, <1>4, BytesAre DEF AskInv
<1> QED BY <1>5, <1>6, <1>7

\* ... and ends it, when its reply is.
LEMMA WrittenKeeps == ASSUME CommandInv, ReplyInv, Written PROVE ReplyInv'
<1> USE DEF ReplyInv, hostVars, txVars, coreVars
<1>1. /\ hpc = "write" /\ out = <<>> /\ hpc' = IF asked THEN "request" ELSE "idle"
      /\ UNCHANGED <<cmd, asked, btag, result, outcome, out, bus, inMsg, txVars, coreVars>>
  BY DEF Written
<1>2. Answer' = Answer
  BY <1>1 DEF Answer
<1>3. ReplyTypeOK' /\ OffsetsInBuffer' /\ ReadsOwnReply' /\ NeverRefused'
  BY <1>1 DEF ReplyTypeOK, OffsetsInBuffer, ReadsOwnReply, NeverRefused
<1>4. ExchangeInv'
  BY <1>1, <1>2 DEF ExchangeInv, AtRest, OnItsWay, Drained, MoreToSend, HasRead, AllSent
<1>5. AskInv'
  BY <1>1, <1>2 DEF AskInv
<1> QED BY <1>3, <1>4, <1>5

\* A read without a query finds what it should: nothing.
LEMMA ReadUnaskedKeeps == ASSUME CommandInv, ReplyInv, ReadUnasked PROVE ReplyInv'
<1> USE DEF ReplyInv, hostVars, txVars, coreVars
<1>1. /\ hpc = "idle" /\ hpc' = "request"
      /\ UNCHANGED <<cmd, asked, btag, result, outcome, out, bus, inMsg, txVars, coreVars>>
  BY DEF ReadUnasked
<1>2. Answer' = Answer
  BY <1>1 DEF Answer, AskInv
<1>3. ReplyTypeOK' /\ OffsetsInBuffer' /\ ReadsOwnReply' /\ NeverRefused'
  BY <1>1 DEF ReplyTypeOK, OffsetsInBuffer, ReadsOwnReply, NeverRefused
<1>4. ExchangeInv'
  BY <1>1, <1>2 DEF ExchangeInv, AtRest, OnItsWay, Drained, MoreToSend, HasRead, AllSent
<1>5. AskInv'
  BY <1>1, <1>2 DEF AskInv
<1> QED BY <1>3, <1>4, <1>5

\* A read asks for at least a byte: it has not got all of the reply.
LEMMA RequestKeeps == ASSUME RepliesFit, CommandInv, ReplyInv, Request PROVE ReplyInv'
<1> USE DEF ReplyInv, hostVars, txVars, coreVars
<1>1. /\ hpc = "request" /\ hpc' = "requesting" /\ btag' = (btag + 1) % Ids
      /\ out' = <<Ask(btag', Wanted)>>
      /\ UNCHANGED <<cmd, asked, result, outcome, bus, inMsg, txVars, coreVars>>
  BY DEF Request
<1>2. btag' \in Nat
  BY <1>1, UsbtmcAssumption DEF ReplyTypeOK
<1>3. Answer' = Answer
  BY <1>1 DEF Answer
<1>4. ExchangeInv' /\ bus # "tx"
  BY <1>1, <1>3 DEF ExchangeInv, AtRest, OnItsWay, Drained, MoreToSend, HasRead, AllSent
<1>5. Len(result) \in Nat /\ Len(result) < ReadSize
  <2>1. Len(txBuf) \in Nat /\ Len(txBuf) <= ReadSize /\ txSent \in Nat /\ txChunk \in Nat
    BY LenProperties, UsbtmcAssumption DEF ReplyTypeOK, OffsetsInBuffer, RepliesFit
  <2>2. CASE result = <<>>
    BY <2>2, EmptySeq, UsbtmcAssumption
  <2>3. CASE AtRest /\ result # <<>>
    <3>1. txBuf # <<>>
      BY <2>3, NothingRead DEF AtRest, HasRead
    <3>2. txSent <= Len(txBuf) /\ txSent < Len(txBuf) /\ result = SubSeq(txBuf, 1, txSent)
      BY <2>1, <2>3, <3>1 DEF AtRest, HasRead
    <3>3. Len(result) = txSent
      BY <2>1, <3>2, Prefix DEF ReplyTypeOK
    <3> QED BY <2>1, <3>2, <3>3, UsbtmcAssumption
  <2>4. CASE MoreToSend
    <3> DEFINE n == txSent + txChunk
    <3>1. n \in Nat /\ n <= Len(txBuf) /\ n < Len(txBuf) /\ result = SubSeq(txBuf, 1, n)
      BY <2>1, <2>4 DEF MoreToSend, HasRead, AllSent
    <3> HIDE DEF n
    <3>2. Len(result) = n
      BY <3>1, Prefix DEF ReplyTypeOK
    <3> QED BY <2>1, <3>1, <3>2, UsbtmcAssumption
  <2> QED BY <1>1, <2>2, <2>3, <2>4 DEF ExchangeInv, Drained, OnItsWay
<1>6. Wanted \in 1..ReadSize
  BY <1>5, UsbtmcAssumption DEF Wanted, Smaller
<1>7. out' # <<>>
  BY <1>1
<1>8. AskInv'
  BY <1>1, <1>3, <1>4, <1>6, <1>7 DEF AskInv
<1>9. ReplyTypeOK' /\ OffsetsInBuffer' /\ ReadsOwnReply' /\ NeverRefused'
  BY <1>1, <1>2 DEF ReplyTypeOK, OffsetsInBuffer, ReadsOwnReply, NeverRefused
<1> QED BY <1>4, <1>8, <1>9

\* Once the device has taken the request, its message is on its way.
LEMMA RequestedKeeps == ASSUME CommandInv, ReplyInv, Requested PROVE ReplyInv'
<1> USE DEF ReplyInv, hostVars, txVars, coreVars
<1>1. /\ hpc = "requesting" /\ out = <<>> /\ hpc' = "read"
      /\ UNCHANGED <<cmd, asked, btag, result, outcome, out, bus, inMsg, txVars, coreVars>>
  BY DEF Requested
<1>2. Answer' = Answer /\ bus = "tx"
  BY <1>1 DEF Answer, AskInv
<1>3. ReplyTypeOK' /\ OffsetsInBuffer' /\ ReadsOwnReply' /\ NeverRefused'
  BY <1>1 DEF ReplyTypeOK, OffsetsInBuffer, ReadsOwnReply, NeverRefused
<1>4. ExchangeInv'
  BY <1>1, <1>2 DEF ExchangeInv, AtRest, OnItsWay, Drained, MoreToSend, HasRead, AllSent, Carries
<1>5. AskInv'
  BY <1>1, <1>2 DEF AskInv
<1> QED BY <1>3, <1>4, <1>5

\* The host has what it wants: its tag is the one asked for, and what it has
\* now is more of the buffer, or all of it.
LEMMA ReceiveKeeps == ASSUME RepliesFit, CommandInv, ReplyInv, Receive PROVE ReplyInv'
<1> USE DEF ReplyInv, hostVars, txVars, coreVars
<1> DEFINE all  == result \o inMsg.bytes
           good == inMsg.tag = btag
           done == inMsg.eom \/ Len(all) >= ReadSize
<1>1. /\ hpc = "read" /\ inMsg' = NoMsg /\ bus' = IF bus = "tx" THEN "sent" ELSE bus
      /\ UNCHANGED <<cmd, btag, out, executed, refused>> /\ UNCHANGED txVars
  BY DEF Receive
<1>2. /\ bus = "tx" /\ good /\ out = <<>> /\ txBuf = Answer /\ HasRead(txSent) /\ Carries
  BY <1>1 DEF ExchangeInv, AtRest, OnItsWay, Drained, MoreToSend
<1>3. /\ hpc' = IF done THEN "idle" ELSE "request"
      /\ result' = IF done THEN <<>> ELSE all
      /\ asked' = (asked /\ ~done)
      /\ outcome' = IF done THEN [due |-> Due, got |-> all] ELSE outcome
  BY <1>2 DEF Receive
<1>4. /\ Len(txBuf) \in Nat /\ Len(txBuf) <= ReadSize /\ txSent \in Nat /\ txChunk \in Nat
      /\ txSent + txChunk <= Len(txBuf) /\ txBuf \in Seq(Byte) /\ ReadSize \in Nat
  BY LenProperties, UsbtmcAssumption DEF ReplyTypeOK, OffsetsInBuffer, RepliesFit
<1>5. CASE txBuf = <<>>
  <2>1. /\ txSent = 0 /\ txChunk = 0 /\ inMsg.bytes = Dummy /\ inMsg.eom
        /\ result = <<>> /\ Answer = <<>>
    BY <1>2, <1>5, NothingRead DEF Carries, HasRead
  <2>2. all = Dummy /\ done
    BY <2>1, DummyIs, ConcatEmptySeq
  <2>3. Due = Dummy
    BY <1>1, <2>1 DEF Due, Answer
  <2>4. /\ outcome' = [due |-> Dummy, got |-> Dummy] /\ hpc' = "idle" /\ result' = <<>>
        /\ asked' = FALSE
    BY <1>3, <2>2, <2>3
  <2>5. Answer' = <<>> /\ AllSent'
    BY <1>1, <1>5, <2>1, <2>4 DEF Answer, AllSent
  <2>6. ExchangeInv'
    BY <1>1, <1>2, <2>4, <2>5 DEF ExchangeInv, Drained
  <2>7. AskInv'
    BY <1>1, <2>4, <2>5, BytesAre DEF AskInv, ReplyTypeOK
  <2>8. ReplyTypeOK' /\ OffsetsInBuffer' /\ ReadsOwnReply' /\ NeverRefused'
    <3>1. ReplyTypeOK'
      BY <1>1, <2>4, NoBytes DEF ReplyTypeOK
    <3>2. OffsetsInBuffer' /\ ReadsOwnReply' /\ NeverRefused'
      BY <1>1, <2>4, NoBytes, UsbtmcAssumption DEF OffsetsInBuffer, ReadsOwnReply, NeverRefused
    <3> QED BY <3>1, <3>2
  <2> QED BY <2>6, <2>7, <2>8
<1>6. CASE txBuf # <<>>
  <2> DEFINE n == txSent + txChunk
  <2>1. /\ inMsg.eom <=> AllSent
        /\ all = SubSeq(txBuf, 1, txSent) \o SubSeq(txBuf, txSent + 1, n)
    BY <1>2, <1>6 DEF Carries, HasRead
  <2>2. n \in Nat /\ txSent <= n /\ n <= Len(txBuf)
    BY <1>4
  <2>3. all = SubSeq(txBuf, 1, n)
    <3> HIDE DEF n, all
    <3> QED BY <1>4, <2>1, <2>2, NextBytes
  <2>4. all \in Seq(Byte) /\ Len(all) = n /\ (n = Len(txBuf) => all = txBuf)
    <3> HIDE DEF n, all
    <3> QED BY <1>4, <2>2, <2>3, Prefix
  <2>5. AllSent <=> n = Len(txBuf)
    BY <1>4 DEF AllSent
  <2>6. done <=> AllSent
    <3> HIDE DEF n, all
    <3> QED BY <1>4, <2>1, <2>2, <2>4, <2>5
  <2> HIDE DEF done, all, n
  <2>7. CASE AllSent
    <3>1. all = Answer /\ Answer # <<>> /\ done
      BY <1>2, <1>6, <2>4, <2>5, <2>6, <2>7
    <3>2. Due = Answer
      <4>1. asked /\ executed.reply = Answer
        BY <3>1 DEF Answer
      <4> QED BY <3>1, <4>1 DEF Due, AskInv
    <3>3. /\ outcome' = [due |-> Answer, got |-> Answer] /\ hpc' = "idle" /\ result' = <<>>
          /\ asked' = FALSE
      BY <1>3, <3>1, <3>2
    <3>4. Answer' = <<>> /\ AllSent'
      BY <1>1, <2>7, <3>3 DEF Answer, AllSent, txVars
    <3>5. ExchangeInv'
      BY <1>1, <1>2, <3>3, <3>4 DEF ExchangeInv, Drained
    <3>6. AskInv'
      BY <1>1, <3>3, <3>4, BytesAre DEF AskInv, ReplyTypeOK
    <3>7. ReplyTypeOK' /\ OffsetsInBuffer' /\ ReadsOwnReply' /\ NeverRefused'
      <4>1. ReplyTypeOK'
        BY <1>1, <3>3, NoBytes DEF ReplyTypeOK
      <4>2. OffsetsInBuffer' /\ ReadsOwnReply' /\ NeverRefused'
        BY <1>1, <3>3, NoBytes, UsbtmcAssumption DEF OffsetsInBuffer, ReadsOwnReply, NeverRefused
      <4> QED BY <4>1, <4>2
    <3> QED BY <3>5, <3>6, <3>7
  <2>8. CASE ~AllSent
    <3>1. ~done
      BY <2>6, <2>8
    <3>2. hpc' = "request" /\ result' = all /\ asked' = asked /\ outcome' = outcome
      BY <1>3, <3>1 DEF ReplyTypeOK
    <3>3. Answer' = Answer
      BY <1>1, <3>2 DEF Answer
    <3>4. ~AllSent' /\ HasRead(txSent + txChunk)'
      BY <1>1, <2>3, <2>8, <3>2 DEF AllSent, HasRead, n
    <3>5. ExchangeInv'
      BY <1>1, <1>2, <3>2, <3>3, <3>4 DEF ExchangeInv, MoreToSend
    <3>6. AskInv'
      BY <1>1, <3>2, <3>3 DEF AskInv
    <3>7. ReplyTypeOK' /\ OffsetsInBuffer' /\ ReadsOwnReply' /\ NeverRefused'
      BY <1>1, <2>4, <3>2 DEF ReplyTypeOK, OffsetsInBuffer, ReadsOwnReply, NeverRefused
    <3> QED BY <3>5, <3>6, <3>7
  <2> QED BY <2>7, <2>8
<1> QED BY <1>5, <1>6

\* Giving up, or being unplugged, leaves the rest to the clearing of both endpoints.
LEMMA AbandonKeeps ==
  ASSUME ReplyInv, Timeout \/ HostRestart \/ BusReset
  PROVE  ReplyInv'
<1> USE DEF ReplyInv, hostVars, txVars, coreVars
<1>1. /\ hpc' = "clearOut" /\ out' = <<>> /\ result' = <<>> /\ asked' = FALSE
      /\ UNCHANGED <<cmd, btag, outcome, txVars, coreVars>>
  BY DEF Timeout, HostRestart, Abandon, BusReset
<1>2. ExchangeInv' /\ Answer' = <<>>
  BY <1>1 DEF ExchangeInv, Answer
<1>3. AskInv'
  BY <1>1, <1>2, BytesAre DEF AskInv, ReplyTypeOK
<1>4. ReplyTypeOK' /\ OffsetsInBuffer' /\ ReadsOwnReply' /\ NeverRefused'
  <2>1. ReplyTypeOK'
    BY <1>1, NoBytes DEF ReplyTypeOK
  <2>2. OffsetsInBuffer' /\ ReadsOwnReply' /\ NeverRefused'
    BY <1>1, NoBytes, UsbtmcAssumption DEF OffsetsInBuffer, ReadsOwnReply, NeverRefused
  <2> QED BY <2>1, <2>2
<1> QED BY <1>2, <1>3, <1>4

\* Both endpoints cleared, there is nothing of an earlier command.
LEMMA ClearKeeps == ASSUME ReplyInv, ClearOut \/ ClearIn PROVE ReplyInv'
<1> USE DEF ReplyInv, hostVars, txVars, coreVars
<1>1. /\ hpc \in {"clearOut", "clearIn"} /\ TxReset
      /\ UNCHANGED <<cmd, asked, btag, result, outcome, out, executed, refused>>
  BY DEF ClearOut, ClearIn
<1>2. ~asked /\ Answer' = <<>> /\ result = <<>> /\ out = <<>>
  BY <1>1 DEF Answer, AskInv, ExchangeInv, AtRest, OnItsWay, Drained, MoreToSend
<1>3. <<>> \in Seq(Byte) /\ Len(<<>>) = 0
  OBVIOUS
<1>4. ExchangeInv'
  <2>1. CASE ClearOut
    BY <1>1, <1>2, <2>1 DEF ClearOut, ExchangeInv, TxReset
  <2>2. CASE ClearIn
    <3>1. bus = "idle" /\ bus' = "idle" /\ hpc' = "idle" /\ inMsg' = NoMsg
      BY <2>2 DEF ClearIn, ExchangeInv, AtRest, OnItsWay, Drained, MoreToSend
    <3> QED BY <1>1, <1>2, <3>1, NothingRead DEF ExchangeInv, AtRest, HasRead, TxReset
  <2> QED BY <2>1, <2>2
<1>5. AskInv'
  BY <1>1, <1>2, BytesAre DEF AskInv, ReplyTypeOK, ClearOut, ClearIn
<1>6. ReplyTypeOK' /\ OffsetsInBuffer' /\ ReadsOwnReply' /\ NeverRefused'
  <2>1. ReplyTypeOK'
    BY <1>1, NoBytes DEF ReplyTypeOK, TxReset
  <2>2. OffsetsInBuffer' /\ ReadsOwnReply' /\ NeverRefused'
    BY <1>1, NoBytes, UsbtmcAssumption DEF OffsetsInBuffer, ReadsOwnReply, NeverRefused, TxReset
  <2> QED BY <2>1, <2>2
<1> QED BY <1>4, <1>5, <1>6

\* After a reset the host is about to clear both endpoints.
LEMMA OpenKeeps == ASSUME ReplyInv, Open PROVE ReplyInv'
<1> USE DEF ReplyInv, hostVars, txVars, coreVars
<1>1. bus = "closed" /\ UNCHANGED <<hostVars, out, inMsg, txVars, coreVars>>
  BY DEF Open
<1>2. hpc = "clearOut" /\ out = <<>> /\ Answer' = Answer
  BY <1>1 DEF ExchangeInv, Answer
<1>3. ExchangeInv' /\ AskInv'
  BY <1>1, <1>2 DEF ExchangeInv, AskInv
<1>4. ReplyTypeOK' /\ OffsetsInBuffer' /\ ReadsOwnReply' /\ NeverRefused'
  BY <1>1 DEF ReplyTypeOK, OffsetsInBuffer, ReadsOwnReply, NeverRefused
<1> QED BY <1>3, <1>4

\* What the core answers goes into an empty buffer, where it fits.
LEMMA AnswerQueued == ASSUME RepliesFit, CommandInv, ReplyInv, TakePart PROVE ReplyInv'
<1> USE DEF ReplyInv, hostVars, txVars, coreVars
<1> DEFINE p == Head(out)
           part == Append(line, [id |-> p.id, part |-> p.part, last |-> p.last])
<1>1. /\ bus = "idle" /\ out # <<>> /\ ~p.req /\ out' = Tail(out)
      /\ UNCHANGED <<hostVars, bus, inMsg>>
  BY DEF TakePart
<1>2. /\ hpc = "write" /\ p.id = cmd /\ p.query = asked /\ (p.last <=> Tail(out) = <<>>)
  BY <1>1, PartOfCommand
<1>3. AtRest
  BY <1>1, <1>2 DEF ExchangeInv
<1>4. /\ Answer = <<>> /\ txBuf = <<>> /\ txSent = 0 /\ txChunk = 0 /\ ~txInFlight
      /\ ~txPending /\ result = <<>> /\ inMsg = NoMsg
  BY <1>1, <1>2, <1>3, NothingRead DEF AtRest, Answer, HasRead, OffsetsInBuffer
<1>5. CASE ~p.last
  <2>1. UNCHANGED <<executed, refused, txVars>> /\ out' # <<>>
    BY <1>1, <1>2, <1>5 DEF TakePart
  <2>2. Answer' = <<>>
    BY <1>1, <1>2, <2>1 DEF Answer
  <2>3. ExchangeInv'
    BY <1>1, <1>2, <1>3, <1>4, <2>1, <2>2 DEF ExchangeInv, AtRest, HasRead
  <2>4. AskInv'
    BY <1>1, <1>2, <2>2, BytesAre DEF AskInv, ReplyTypeOK
  <2>5. ReplyTypeOK' /\ OffsetsInBuffer' /\ ReadsOwnReply' /\ NeverRefused'
    BY <1>1, <2>1 DEF ReplyTypeOK, OffsetsInBuffer, ReadsOwnReply, NeverRefused
  <2> QED BY <2>3, <2>4, <2>5
<1>6. CASE p.last
  <2>1. PICK ends \in IF p.query THEN Replies \cup {<<>>} ELSE {<<>>} :
          LET refuses == Refuses(txBuf, Total(ends))
              reply   == Bytes(p.id, Total(ends))
          IN /\ txBuf' = IF refuses THEN FoldLeft(Queue, txBuf, Pieces(p.id, ends))
                         ELSE txBuf \o reply
             /\ executed' = [line |-> part, reply |-> reply]
             /\ refused' = (refused \/ refuses)
    BY <1>6 DEF TakePart
  <2>2. /\ txPending' = (txPending \/ txBuf' # txBuf)
        /\ UNCHANGED <<txSent, txChunk, txInFlight>>
    BY <1>6 DEF TakePart
  <2> DEFINE n == Total(ends)
             reply == Bytes(cmd, n)
  <2>3. n \in Nat /\ n <= TxCap /\ (~asked => n = 0)
    <3>1. ends \in Replies \cup {<<>>} /\ (~asked => ends = <<>>)
      BY <1>2
    <3>2. ends = <<>> => n = 0
      BY DEF Total
    <3> QED BY <3>1, <3>2, TotalIs, UsbtmcAssumption DEF RepliesFit
  <2>4. reply \in Seq(Byte) /\ Len(reply) = n /\ (reply = <<>> <=> n = 0)
    BY <2>3, BytesAre DEF ReplyTypeOK
  <2>5. ~Refuses(txBuf, n)
    BY <1>4, <2>3, UsbtmcAssumption DEF Refuses
  <2>6. txBuf' = <<>> \o reply /\ executed'.reply = reply /\ ~refused'
    <3>1. executed' = [line |-> part, reply |-> reply]
      BY <1>2, <2>1
    <3>2. txBuf' = txBuf \o reply /\ ~refused /\ ~refused'
      BY <1>2, <2>1, <2>5 DEF NeverRefused
    <3>3. executed'.reply = reply
      BY <3>1
    <3> QED BY <1>4, <3>2, <3>3
  <2> HIDE DEF n, reply
  <2>7. txBuf' = reply
    BY <2>4, <2>6, ConcatEmptySeq
  <2>8. out' = <<>> /\ hpc' = "write" /\ asked' = asked /\ cmd' = cmd
    BY <1>1, <1>2, <1>6
  <2>9. Answer' = reply
    BY <2>3, <2>4, <2>6, <2>8 DEF Answer
  <2>10. HasRead(txSent)'
    <3>1. SubSeq(reply, 1, 0) = <<>>
      BY SubSeqEmpty
    <3> QED BY <1>1, <1>4, <2>2, <2>7, <3>1 DEF HasRead
  <2>11. ExchangeInv'
    <3>1. IF reply = <<>> THEN txSent' = 0 ELSE txSent' < Len(reply)
      BY <1>4, <2>2, <2>3, <2>4
    <3> QED BY <1>1, <1>4, <2>2, <2>7, <2>8, <2>9, <2>10, <3>1 DEF ExchangeInv, AtRest
  <2>12. AskInv'
    <3>1. Answer' = Bytes(cmd', Len(Answer'))
      BY <2>4, <2>8, <2>9 DEF reply
    <3> QED BY <1>2, <2>8, <3>1 DEF AskInv
  <2>13. OffsetsInBuffer'
    BY <1>4, <2>2, <2>3, <2>4, <2>7 DEF OffsetsInBuffer, ReplyTypeOK
  <2>14. ReplyTypeOK' /\ ReadsOwnReply' /\ NeverRefused'
    BY <1>1, <2>2, <2>4, <2>6, <2>7 DEF ReplyTypeOK, ReadsOwnReply, NeverRefused
  <2> QED BY <2>11, <2>12, <2>13, <2>14
<1> QED BY <1>5, <1>6

\* A request is answered with the next bytes of the reply, or without a reply
\* with the dummy.
LEMMA SendKeeps == ASSUME CommandInv, ReplyInv, SendChunk \/ SendDummy PROVE ReplyInv'
<1> USE DEF ReplyInv, hostVars, txVars, coreVars
<1>1. /\ bus = "idle" /\ out # <<>> /\ Head(out).req /\ out' = Tail(out) /\ bus' = "tx"
      /\ txInFlight' = TRUE
      /\ UNCHANGED <<hostVars, txBuf, txSent, txPending, coreVars>>
  BY DEF SendChunk, SendDummy
<1>2. hpc = "requesting"
  BY <1>1, OnlyRequests
<1>3. PICK size \in 1..ReadSize : out = <<Ask(btag, size)>>
  BY <1>1, <1>2 DEF AskInv
<1>4. out' = <<>> /\ Head(out).tag = btag /\ Head(out).size = size
  BY <1>1, <1>3 DEF Ask
<1>5. AtRest /\ Answer' = Answer
  BY <1>1, <1>2 DEF ExchangeInv, Answer
<1>6. /\ Len(txBuf) \in Nat /\ txSent \in Nat /\ size \in Nat /\ txBuf \in Seq(Byte)
      /\ txPending <=> txBuf # <<>>
      /\ IF txBuf = <<>> THEN txSent = 0 ELSE txSent < Len(txBuf)
  BY <1>5, LenProperties, UsbtmcAssumption DEF ReplyTypeOK, OffsetsInBuffer, AtRest
<1>7. ReadsOwnReply' /\ NeverRefused'
  BY <1>1 DEF ReadsOwnReply, NeverRefused
<1>8. AskInv'
  BY <1>1, <1>2, <1>4, <1>5 DEF AskInv
<1>9. CASE SendChunk
  <2>1. /\ txBuf # <<>>
        /\ txChunk' = Smaller(Len(txBuf) - txSent, size)
        /\ inMsg' = [tag |-> btag, bytes |-> SubSeq(txBuf, txSent + 1, txSent + txChunk'),
                     eom |-> txSent + txChunk' >= Len(txBuf)]
    BY <1>4, <1>6, <1>9 DEF SendChunk
  <2>2. txChunk' \in Nat /\ txSent + txChunk' <= Len(txBuf)
    BY <1>6, <2>1 DEF Smaller
  <2>3. /\ inMsg'.tag = btag /\ inMsg'.bytes = SubSeq(txBuf, txSent + 1, txSent + txChunk')
        /\ inMsg'.eom <=> txSent + txChunk' >= Len(txBuf)
    BY <2>1
  <2>4. ExchangeInv'
    BY <1>1, <1>2, <1>4, <1>5, <2>1, <2>3
       DEF ExchangeInv, AtRest, OnItsWay, HasRead, Carries, AllSent
  <2>5. ReplyTypeOK' /\ OffsetsInBuffer'
    BY <1>1, <2>2 DEF ReplyTypeOK, OffsetsInBuffer
  <2> QED BY <1>7, <1>8, <2>4, <2>5
<1>10. CASE SendDummy
  <2>1. /\ txBuf = <<>> /\ txChunk' = 0
        /\ inMsg' = [tag |-> btag, bytes |-> Dummy, eom |-> TRUE]
    BY <1>4, <1>6, <1>10 DEF SendDummy
  <2>2. inMsg'.tag = btag /\ inMsg'.bytes = Dummy /\ inMsg'.eom
    BY <2>1
  <2>3. ExchangeInv'
    BY <1>1, <1>2, <1>4, <1>5, <1>6, <2>1, <2>2
       DEF ExchangeInv, AtRest, OnItsWay, HasRead, Carries
  <2>4. ReplyTypeOK' /\ OffsetsInBuffer'
    BY <1>1, <1>6, <2>1 DEF ReplyTypeOK, OffsetsInBuffer
  <2> QED BY <1>7, <1>8, <2>3, <2>4
<1> QED BY <1>9, <1>10

\* A completed message is added to what was sent, or was the last one.
LEMMA CompleteKeeps == ASSUME ReplyInv, Complete PROVE ReplyInv'
<1> USE DEF ReplyInv, hostVars, txVars, coreVars
<1>1. bus = "sent" /\ bus' = "idle" /\ UNCHANGED <<hostVars, out, inMsg, coreVars>>
  BY DEF Complete
<1>2. Answer' = Answer /\ ReadsOwnReply' /\ NeverRefused' /\ AskInv'
  BY <1>1 DEF Answer, ReadsOwnReply, NeverRefused, AskInv
<1>3. CASE AllSent
  <2>1. TxReset /\ <<>> \in Seq(Byte) /\ Len(<<>>) = 0
    BY <1>3 DEF Complete
  <2>2. hpc = "clearOut" \/ Drained
    BY <1>1, <1>3 DEF ExchangeInv, MoreToSend
  <2>3. ExchangeInv'
    BY <1>1, <1>2, <2>1, <2>2, NothingRead
       DEF ExchangeInv, AtRest, OnItsWay, MoreToSend, Drained, HasRead, TxReset
  <2>4. ReplyTypeOK' /\ OffsetsInBuffer'
    <3>1. ReplyTypeOK'
      BY <1>1, <2>1, NoBytes DEF ReplyTypeOK, TxReset
    <3>2. OffsetsInBuffer'
      BY <1>1, <2>1, NoBytes, UsbtmcAssumption DEF OffsetsInBuffer, TxReset
    <3> QED BY <3>1, <3>2
  <2> QED BY <1>2, <2>3, <2>4
<1>4. CASE ~AllSent
  <2>1. /\ txSent' = txSent + txChunk /\ txChunk' = 0 /\ txInFlight' = FALSE
        /\ UNCHANGED <<txBuf, txPending>>
    BY <1>4 DEF Complete
  <2>2. hpc = "clearOut" \/ MoreToSend
    BY <1>1, <1>4 DEF ExchangeInv, Drained
  <2>3. Len(txBuf) \in Nat /\ txSent + txChunk < Len(txBuf) /\ txSent + txChunk \in Nat
    BY <1>4, LenProperties DEF AllSent, ReplyTypeOK
  <2>4. ExchangeInv'
    <3>1. CASE hpc = "clearOut"
      BY <1>1, <3>1 DEF ExchangeInv, AtRest, OnItsWay, MoreToSend, Drained
    <3>2. CASE MoreToSend
      <4>1. txBuf # <<>>
        BY <2>3, EmptySeq
      <4> QED BY <1>1, <1>2, <2>1, <2>3, <3>2, <4>1 DEF ExchangeInv, AtRest, MoreToSend, HasRead
    <3> QED BY <2>2, <3>1, <3>2
  <2>5. ReplyTypeOK' /\ OffsetsInBuffer'
    <3>1. ReplyTypeOK'
      BY <1>1, <2>1, <2>3, NoBytes DEF ReplyTypeOK
    <3>2. OffsetsInBuffer'
      BY <1>1, <2>1, <2>3, NoBytes, UsbtmcAssumption DEF OffsetsInBuffer, ReplyTypeOK
    <3> QED BY <3>1, <3>2
  <2> QED BY <1>2, <2>4, <2>5
<1> QED BY <1>3, <1>4

LEMMA ReplyStep ==
  ASSUME RepliesFit, CommandInv, ReplyInv, [UsbtmcNext]_usbtmcVars
  PROVE  ReplyInv'
<1>1. CASE UNCHANGED usbtmcVars
  <2> USE <1>1 DEF usbtmcVars, hostVars, txVars, coreVars, ReplyInv
  <2>1. Answer' = Answer
    BY DEF Answer
  <2>2. ExchangeInv'
    BY <2>1 DEF ExchangeInv, AtRest, OnItsWay, Drained, MoreToSend, HasRead, Carries, AllSent
  <2>3. AskInv'
    BY <2>1 DEF AskInv
  <2>4. ReplyTypeOK' /\ OffsetsInBuffer' /\ ReadsOwnReply' /\ NeverRefused'
    BY DEF ReplyTypeOK, OffsetsInBuffer, ReadsOwnReply, NeverRefused
  <2> QED BY <2>2, <2>3, <2>4
<1>2. CASE Host \/ Write \/ ReadUnasked
  BY <1>2, WriteKeeps, WrittenKeeps, ReadUnaskedKeeps, RequestKeeps, RequestedKeeps,
     ReceiveKeeps, ClearKeeps DEF Host
<1>3. CASE Timeout \/ HostRestart \/ BusReset
  BY <1>3, AbandonKeeps
<1>4. CASE Device \/ Open
  BY <1>4, AnswerQueued, SendKeeps, CompleteKeeps, OpenKeeps DEF Device
<1> QED BY <1>1, <1>2, <1>3, <1>4 DEF UsbtmcNext

\* usbtmc_raw.rs, read_msg_in, against the bulk-IN callbacks of usbscpi_tinyusb.c:
\* when every reply fits the transmit buffer and a read takes all of it, the
\* transmit offsets stay in the buffer, no reply is refused, and a read that
\* succeeds returns the whole reply of the command just written, or the dummy
\* when there is none, whatever was abandoned before.
THEOREM RepliesAlwaysReachTheirQuery ==
  ASSUME RepliesFit
  PROVE  UsbtmcSpec => []RepliesReachTheirQuery
<1>1. UsbtmcInit => CommandInv /\ ReplyInv
  BY CommandStart, ReplyStart
<1>2. CommandInv /\ ReplyInv /\ [UsbtmcNext]_usbtmcVars => (CommandInv /\ ReplyInv)'
  BY CommandStep, ReplyStep
<1>3. ReplyInv => RepliesReachTheirQuery
  BY DEF ReplyInv, RepliesReachTheirQuery
<1> QED BY <1>1, <1>2, <1>3, PTL DEF UsbtmcSpec
=============================================================================
