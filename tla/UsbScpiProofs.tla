--------------------------- MODULE UsbScpiProofs ---------------------------
(* The invariants of UsbScpi, for every buffer size, every byte sequence     *)
(* and every way of cutting it into receive buffers; how much of a block      *)
(* DATA:READ? fits in a response of any size; the table of commands and its   *)
(* pages, for tables and pages of any size; and what ScpiServer does with the *)
(* scripts of its clients, for scripts of any length.                         *)
EXTENDS ScpiServer, CoreQueries, SequenceTheorems, FiniteSetTheorems, TLAPS

USE DEF RxTypeOK, ScpiTypeOK, CallTypeOK, FlagTypeOK, AppTypeOK, NoBlock

\* What the parser knows between the digits of a block's length field, and
\* that only blocks within the limit get as far as their payload.
HeaderInv ==
  /\ ~inCall => status = "OK"
  /\ mode = "BLOCK_LEN" =>
       /\ ndigits \in 1..9 /\ gotDigits < ndigits /\ blockReceived = 0
  /\ mode = "BLOCK_PAYLOAD" /\ status = "OK" /\ MaxBlockLen > 0 =>
       blockLen <= MaxBlockLen

IInv == TypeOK /\ BuffersInBounds /\ BlockContract /\ BlocksWhole
        /\ FailureIsQueued /\ HeaderInv

------------------------------------------------------------------------------
\* The error queue stays within its array and is never empty after an error.
LEMMA ErrorAddBounds ==
  ASSUME NEW q \in Seq(Error), Len(q) <= ErrQueueLen,
         NEW code \in Code, NEW tag \in Tag
  PROVE  /\ ErrorAdd(q, code, tag) \in Seq(Error)
         /\ Len(ErrorAdd(q, code, tag)) <= ErrQueueLen
         /\ ErrorAdd(q, code, tag) # <<>>
<1>1. CASE Len(q) < ErrQueueLen
  BY <1>1, LengthsAssumption DEF ErrorAdd, Error
<1>2. CASE Len(q) >= ErrQueueLen
  <2> DEFINE e == [code |-> "QUEUE_OVERFLOW", tag |-> tag]
  <2>1. e \in Error /\ Len(q) \in 1..Len(q)
    BY <1>2, LengthsAssumption DEF Error, Code
  <2>2. ErrorAdd(q, code, tag) = [q EXCEPT ![Len(q)] = e]
    BY <1>2, LengthsAssumption DEF ErrorAdd
  <2>3. /\ [q EXCEPT ![Len(q)] = e] \in Seq(Error)
        /\ Len([q EXCEPT ![Len(q)] = e]) = Len(q)
    BY <2>1, ExceptSeq
  <2>4. QED BY <2>1, <2>2, <2>3
<1>3. QED BY <1>1, <1>2, LengthsAssumption

\* Feeding a nonempty line keeps libscpi's buffer, queue and log well formed;
\* only an effect of kind "cmd" or "errq" is logged.
LEMMA FeedLineInv ==
  ASSUME TypeOK, BuffersInBounds, BlocksWhole,
         NEW l \in Seq(Byte), l # <<>>, NEW tag \in Tag, FeedLine(l, tag)
  PROVE  /\ residue' \in Seq(Byte) /\ Len(residue') <= ScpiBufLen - 1
         /\ errors' \in Seq(Error) /\ Len(errors') <= ErrQueueLen
         /\ log' \in Seq(Effect)
         /\ BlocksWhole'
<1> DEFINE buf == residue \o l
           unit == SubSeq(buf, 1, Len(buf) - 1)
<1>1. buf \in Seq(Byte) /\ Len(buf) = Len(residue) + Len(l) /\ Len(buf) >= 1
  BY DEF TypeOK
<1>2. unit \in Seq(Byte)
  BY <1>1
<1>3. CASE Len(buf) > ScpiBufLen - 1
  <2>1. residue' = <<>> /\ log' = log
        /\ errors' = ErrorAdd(errors, "INPUT_BUFFER_OVERRUN", tag)
    BY <1>1, <1>3, LengthsAssumption DEF FeedLine
  <2>2. "INPUT_BUFFER_OVERRUN" \in Code
    BY DEF Code
  <2>3. errors' \in Seq(Error) /\ Len(errors') <= ErrQueueLen
    BY <2>1, <2>2, ErrorAddBounds DEF TypeOK, BuffersInBounds
  <2>4. residue' \in Seq(Byte) /\ Len(residue') <= ScpiBufLen - 1
    BY <2>1, LengthsAssumption
  <2>5. log' \in Seq(Effect)
    BY <2>1 DEF TypeOK
  <2>6. BlocksWhole'
    BY <2>1 DEF BlocksWhole
  <2>7. QED BY <2>3, <2>4, <2>5, <2>6
<1>4. CASE Len(buf) <= ScpiBufLen - 1 /\ ~Terminated(buf)
  <2>1. residue' = buf /\ log' = log /\ errors' = errors
    BY <1>1, <1>4, LengthsAssumption DEF FeedLine
  <2>2. QED BY <1>1, <1>4, <2>1 DEF TypeOK, BuffersInBounds, BlocksWhole
<1>5. CASE Len(buf) <= ScpiBufLen - 1 /\ Terminated(buf)
  <2>1. residue' = <<>> /\ Execute(unit, tag)
    BY <1>1, <1>5, LengthsAssumption DEF FeedLine, BuffersInBounds
  <2>2. CASE UNCHANGED <<errors, log>>
    BY <2>1, <2>2, LengthsAssumption DEF TypeOK, BuffersInBounds, BlocksWhole
  <2>3. ASSUME NEW e \in Effect, e.kind # "block", log' = Append(log, e),
               errors' \in Seq(Error), Len(errors') <= ErrQueueLen
        PROVE  log' \in Seq(Effect) /\ BlocksWhole'
    <3>1. log' \in Seq(Effect) /\ Len(log') = Len(log) + 1 /\ Len(log) \in Nat
      BY <2>3 DEF TypeOK
    <3>2. \A i \in 1..Len(log') : log'[i] = IF i <= Len(log) THEN log[i] ELSE e
      BY <2>3 DEF TypeOK
    <3>3. QED BY <2>3, <3>1, <3>2 DEF BlocksWhole
  <2>4. CASE Len(unit) = 1 /\ unit[1].c = "errq" /\ ~ UNCHANGED <<errors, log>>
    <3> DEFINE e == [kind |-> "errq", len |-> 0, bytes |-> unit,
                     err |-> IF errors = <<>> THEN {} ELSE {Head(errors)}]
    <3>1. /\ log' = Append(log, e)
          /\ errors' = IF errors = <<>> THEN errors ELSE Tail(errors)
      BY <2>1, <2>4 DEF Execute
    <3>2. e \in Effect /\ e.kind # "block"
      BY <1>2 DEF Effect, TypeOK
    <3>3. errors' \in Seq(Error) /\ Len(errors') <= ErrQueueLen
      BY <3>1, LengthsAssumption DEF TypeOK, BuffersInBounds
    <3> HIDE DEF e
    <3>4. QED BY <2>1, <2>3, <3>1, <3>2, <3>3, LengthsAssumption
  <2>5. CASE unit # <<>> /\ ~(Len(unit) = 1 /\ unit[1].c = "errq")
    <3> DEFINE e(x) == [kind |-> "cmd", len |-> 0, bytes |-> unit, err |-> x]
               f == [code |-> "COMMAND", tag |-> tag]
    <3>1. f \in Error /\ e({}) \in Effect /\ e({f}) \in Effect
      BY <1>2 DEF Effect, Error, Code
    <3>2. \/ log' = Append(log, e({})) /\ errors' = errors
          \/ log' = Append(log, e({f})) /\ errors' = ErrorAdd(errors, "COMMAND", tag)
      BY <2>1, <2>5 DEF Execute
    <3>3. errors' \in Seq(Error) /\ Len(errors') <= ErrQueueLen
      BY <3>2, ErrorAddBounds DEF TypeOK, BuffersInBounds, Code
    <3>4. QED BY <2>1, <2>3, <3>1, <3>2, <3>3, LengthsAssumption
  <2>6. QED BY <2>1, <2>2, <2>4, <2>5 DEF Execute
<1>6. QED BY <1>1, <1>3, <1>4, <1>5, LengthsAssumption DEF TypeOK, BuffersInBounds

\* The queue and the type of the byte at hand after an iteration that fails.
LEMMA FailInv ==
  ASSUME TypeOK, BuffersInBounds, Iterating,
         NEW code \in Code, NEW st \in Status \ {"OK"}, Fail(code, st)
  PROVE  /\ errors' \in Seq(Error) /\ Len(errors') <= ErrQueueLen
         /\ errors' # <<>> /\ status' \in Status /\ status' # "OK"
<1>1. byte \in Byte
  BY HeadTailProperties DEF TypeOK, Iterating, byte
<1>2. byte.tag \in Tag
  BY <1>1 DEF Byte
<1>3. QED BY <1>2, ErrorAddBounds DEF Fail, TypeOK, BuffersInBounds

LEMMA InitInv == Init => IInv
<1> SUFFICES ASSUME Init PROVE IInv
  OBVIOUS
<1>1. TypeOK
  <2>1. blk \in Block
    BY EmptySeq DEF Init, Block
  <2>2. <<>> \in Seq(Byte) /\ <<>> \in Seq(Error) /\ <<>> \in Seq(Effect)
    BY EmptySeq
  <2>3. mode \in Mode /\ status \in Status
    BY DEF Init, Mode, Status
  <2>4. /\ line \in Seq(Byte) /\ residue \in Seq(Byte) /\ errors \in Seq(Error)
        /\ data \in Seq(Byte) /\ log \in Seq(Effect)
    BY <2>2 DEF Init
  <2>5. blockStarted \in BOOLEAN /\ inCall \in BOOLEAN /\ eom \in BOOLEAN
    BY DEF Init
  <2>6. ndigits \in 0..9 /\ gotDigits \in 0..9 /\ blockLen \in Nat /\ blockReceived \in Nat
    BY DEF Init
  <2>7. QED BY <2>1, <2>3, <2>4, <2>5, <2>6 DEF TypeOK
<1>2. BuffersInBounds /\ BlockContract /\ BlocksWhole /\ FailureIsQueued /\ HeaderInv
  BY LengthsAssumption
  DEF Init, BuffersInBounds, BlockContract, BlocksWhole, FailureIsQueued, HeaderInv
<1>3. QED BY <1>1, <1>2 DEF IInv

LEMMA StepInv == IInv /\ [Next]_vars => IInv'
<1> SUFFICES ASSUME IInv, [Next]_vars PROVE IInv'
  OBVIOUS
<1> USE DEF IInv
<1>byte. ASSUME Iterating
      PROVE  /\ byte \in Byte /\ byte.tag \in Tag /\ byte.v \in 0..9
             /\ Tail(data) \in Seq(Byte) /\ Len(data) \in Nat \ {0}
             /\ inCall /\ status = "OK"
  <2>1. byte \in Byte /\ Tail(data) \in Seq(Byte) /\ Len(data) \in Nat \ {0}
    BY <1>byte, HeadTailProperties DEF TypeOK, Iterating, byte
  <2>2. QED BY <1>byte, <2>1 DEF Byte, Iterating
<1>empty. <<>> \in Seq(Byte) /\ Len(<<>>) = 0 /\ <<>> \in Seq(Error)
               /\ <<>> \in Seq(Effect)
  BY EmptySeq
<1>1. CASE OnRx
  <2>1. PICK d \in Buffers, e \in Eoms : OnRxEnter(d, e)
    BY <1>1 DEF OnRx
  <2> USE <2>1 DEF OnRxEnter
  <2>2. data' \in Seq(Byte) /\ eom' \in BOOLEAN /\ inCall' \in BOOLEAN
    BY BuffersAssumption, EomsAssumption
  <2>3. RxTypeOK' /\ ScpiTypeOK' /\ AppTypeOK'
    BY DEF TypeOK, rxVars, headVars, bodyVars, scpiVars, appVars
  <2>4. CallTypeOK' /\ FlagTypeOK'
    BY <2>2 DEF TypeOK, bodyVars
  <2>5. BuffersInBounds' /\ BlocksWhole' /\ FailureIsQueued'
    BY DEF BuffersInBounds, BlocksWhole, FailureIsQueued, rxVars, scpiVars, appVars
  <2>6. BlockContract' /\ HeaderInv'
    BY DEF BlockContract, HeaderInv, rxVars, headVars, bodyVars, appVars
  <2>7. QED BY <2>3, <2>4, <2>5, <2>6 DEF TypeOK
<1>2. CASE TextBlockStart
  BY <1>byte, <1>2, LengthsAssumption
  DEF TextBlockStart, InText, Consume, TypeOK, BuffersInBounds, BlockContract, BlocksWhole,
      FailureIsQueued, HeaderInv, headVars, bodyVars, scpiVars, callVars, appVars, Mode
<1>3. CASE TextIgnored
  BY <1>byte, <1>3
  DEF TextIgnored, InText, Consume, TypeOK, BuffersInBounds, BlockContract, BlocksWhole,
      FailureIsQueued, HeaderInv, rxVars, headVars, bodyVars, scpiVars, callVars, appVars
<1>4. CASE TextLineEnd
  <2> DEFINE l == Append(line, NewLine(byte.tag))
  <2>0. NewLine(byte.tag) \in Byte
    BY <1>byte, <1>4 DEF TextLineEnd, InText, NewLine, Byte, Class
  <2>1. l \in Seq(Byte) /\ l # <<>>
    BY <2>0, AppendProperties DEF TypeOK
  <2>2. FeedLine(l, byte.tag) /\ byte.tag \in Tag
    BY <1>byte, <1>4 DEF TextLineEnd, InText
  <2> HIDE DEF l
  <2>3. /\ residue' \in Seq(Byte) /\ Len(residue') <= ScpiBufLen - 1
        /\ errors' \in Seq(Error) /\ Len(errors') <= ErrQueueLen
        /\ log' \in Seq(Effect)
        /\ BlocksWhole'
    BY <2>1, <2>2, FeedLineInv
  <2>4. QED
    BY <1>byte, <1>4, <2>3, LengthsAssumption
    DEF TextLineEnd, InText, Consume, TypeOK, BuffersInBounds, BlockContract,
        FailureIsQueued, HeaderInv, headVars, bodyVars, callVars
<1>5. CASE TextOverflow
  BY <1>byte, <1>5, FailInv, LengthsAssumption
  DEF TextOverflow, LineFull, InText, Consume, TypeOK, BuffersInBounds, BlockContract, BlocksWhole,
      FailureIsQueued, HeaderInv, headVars, bodyVars, callVars, appVars, Code, Status
<1>6. CASE TextStore
  BY <1>byte, <1>6, LengthsAssumption
  DEF TextStore, LineFull, InText, Consume, TypeOK, BuffersInBounds, BlockContract, BlocksWhole,
      FailureIsQueued, HeaderInv, headVars, bodyVars, scpiVars, callVars, appVars
<1>7. CASE BlockDigits
  BY <1>byte, <1>7
  DEF BlockDigits, Consume, TypeOK, BuffersInBounds, BlockContract, BlocksWhole,
      FailureIsQueued, HeaderInv, scpiVars, callVars, appVars, Mode
<1>8. CASE BlockBadHeader
  BY <1>byte, <1>8, FailInv
  DEF BlockBadHeader, Consume, TypeOK, BuffersInBounds, BlockContract, BlocksWhole,
      FailureIsQueued, HeaderInv, rxVars, headVars, bodyVars, callVars, appVars, Code, Status
<1>length. ASSUME Iterating PROVE Length \in Nat
  BY SMTT(30), <1>byte, <1>length DEF Length, TypeOK
<1>9. CASE BlockLenDigit
  <2> USE <1>byte, <1>9, <1>length DEF BlockLenDigit, LengthDigit, AllDigits
  <2>0. mode = "BLOCK_LEN" /\ gotDigits < ndigits /\ ndigits \in 1..9
    BY DEF HeaderInv
  <2>1. gotDigits' \in 0..9 /\ gotDigits' < ndigits /\ blockLen' \in Nat
    BY <2>0 DEF TypeOK
  <2>2. TypeOK'
    BY <2>1 DEF TypeOK, Consume, rxVars, bodyVars, scpiVars, callVars, appVars
  <2>3. BuffersInBounds' /\ BlocksWhole' /\ FailureIsQueued' /\ HeaderInv'
    BY <2>1 DEF BuffersInBounds, BlocksWhole, FailureIsQueued, HeaderInv, rxVars, bodyVars,
                scpiVars, callVars, appVars
  <2>4. BlockContract'
    BY DEF BlockContract, rxVars, bodyVars
  <2>5. QED BY <2>2, <2>3, <2>4
<1> USE DEF LengthDigit, LastDigit, AllDigits
<1>10. CASE BlockRefused
  BY <1>byte, <1>length, <1>10, FailInv
  DEF BlockRefused, Consume, TypeOK, BuffersInBounds,
      BlockContract, BlocksWhole, FailureIsQueued, HeaderInv, bodyVars, callVars, appVars,
      Mode, Code, Status
<1>11. CASE BlockBeginFails
  BY <1>byte, <1>length, <1>11, FailInv
  DEF BlockBeginFails, Consume, TypeOK, BuffersInBounds,
      BlockContract, BlocksWhole, FailureIsQueued, HeaderInv, callVars, Mode, Code, Status,
      Block
<1>12. CASE BlockBegins
  <2> USE <1>byte, <1>length, <1>12 DEF BlockBegins
  <2>1. /\ ~blockStarted /\ blockReceived = 0 /\ mode' = "BLOCK_PAYLOAD"
        /\ blk' = [open |-> TRUE, len |-> Length, bytes |-> <<>>]
        /\ Length > 0 /\ blockLen' = Length /\ blockReceived' = 0
    BY DEF BlockContract, HeaderInv
  <2>2. /\ blk' \in Block /\ blk'.open /\ blk'.len = blockLen' /\ blk'.bytes = <<>>
        /\ Len(blk'.bytes) = 0
    BY <1>empty, <2>1 DEF Block
  <2>3. RxTypeOK' /\ ScpiTypeOK' /\ CallTypeOK'
    BY <2>1 DEF TypeOK, HeaderInv, Consume, Mode, scpiVars, callVars
  <2>4. FlagTypeOK' /\ AppTypeOK'
    BY <2>2 DEF TypeOK, callVars
  <2>5. BuffersInBounds' /\ BlocksWhole' /\ FailureIsQueued'
    BY DEF BuffersInBounds, BlocksWhole, FailureIsQueued, scpiVars, callVars
  <2>6. blockReceived' < blockLen' /\ Len(blk'.bytes) = blockReceived'
    BY <2>1, <2>2
  <2>7. BlockContract'
    BY <2>1, <2>2, <2>6 DEF BlockContract
  <2>8. HeaderInv'
    BY <2>1, LengthsAssumption DEF HeaderInv, BlockFits, callVars
  <2>9. QED BY <2>3, <2>4, <2>5, <2>7, <2>8 DEF TypeOK
\* A completed block is logged with as many bytes as it announced.
<1>finished. ASSUME NEW len \in Nat, NEW bytes \in Seq(Byte), Len(bytes) = len,
               MaxBlockLen > 0 => len <= MaxBlockLen, Finished(len, bytes)
        PROVE  log' \in Seq(Effect) /\ blk' \in Block /\ BlocksWhole'
  <2> DEFINE e == [kind |-> "block", len |-> len, bytes |-> bytes, err |-> {}]
  <2>1. e \in Effect /\ e.len = len /\ e.bytes = bytes
    BY DEF Effect
  <2>2. log' = Append(log, e)
    BY <1>finished DEF Finished
  <2>3. blk' \in Block
    BY <1>empty, <1>finished DEF Finished, Block
  <2> HIDE DEF e
  <2>4. log' \in Seq(Effect) /\ Len(log') = Len(log) + 1 /\ Len(log) \in Nat
    BY <2>1, <2>2 DEF TypeOK
  <2>5. \A i \in 1..Len(log') : log'[i] = IF i <= Len(log) THEN log[i] ELSE e
    BY <2>1, <2>2 DEF TypeOK
  <2>6. QED BY <1>finished, <2>1, <2>3, <2>4, <2>5 DEF BlocksWhole
<1>13. CASE BlockEmpty
  <2>1. Finished(0, <<>>) /\ <<>> \in Seq(Byte) /\ Len(<<>>) = 0
    BY <1>13, EmptySeq DEF BlockEmpty
  <2>2. log' \in Seq(Effect) /\ blk' \in Block /\ BlocksWhole'
    <3>1. 0 \in Nat /\ (MaxBlockLen > 0 => 0 <= MaxBlockLen)
      BY LengthsAssumption
    <3>2. QED BY <1>finished, <2>1, <3>1, Zenon
  <2>3. QED
    <3> USE <1>byte, <1>13, <2>1, <2>2 DEF BlockEmpty, Finished
    <3>1. RxTypeOK' /\ ScpiTypeOK'
      BY <1>empty DEF TypeOK, Mode, scpiVars
    <3>2. CallTypeOK' /\ FlagTypeOK' /\ AppTypeOK'
      BY DEF TypeOK, Consume, callVars
    <3>3. BuffersInBounds'
      BY <1>empty, LengthsAssumption DEF BuffersInBounds, scpiVars
    <3>4. BlockContract' /\ FailureIsQueued' /\ HeaderInv'
      BY DEF BlockContract, FailureIsQueued, HeaderInv, scpiVars, callVars
    <3>5. QED BY <3>1, <3>2, <3>3, <3>4 DEF TypeOK
<1>14. CASE BlockEmptyEndFails
  BY <1>byte, <1>length, <1>14, FailInv, <1>empty
  DEF BlockEmptyEndFails, Consume, TypeOK, BuffersInBounds, BlockContract, BlocksWhole,
      FailureIsQueued, HeaderInv, callVars, Mode, Code, Status, Block
\* The chunk is never empty and never runs past the block or the buffer.
<1>chunk. ASSUME InPayload
        PROVE  /\ Iterating /\ Chunk \in 1..Len(data) /\ Received \in 1..blockLen
               /\ Delivered \in Seq(Byte) /\ Len(Delivered) = Received
               /\ SubSeq(data, Chunk + 1, Len(data)) \in Seq(Byte)
  <2>1. Iterating /\ mode = "BLOCK_PAYLOAD" /\ Len(data) \in Nat \ {0}
    BY <1>byte, <1>chunk DEF InPayload
  <2>2. /\ blk.bytes \in Seq(Byte) /\ Len(blk.bytes) = blockReceived
        /\ blockReceived < blockLen
    BY <1>byte, <2>1 DEF TypeOK, Block, BlockContract
  <2>3. Chunk \in 1..Len(data) /\ Received \in 1..blockLen
    BY <2>1, <2>2 DEF Chunk, Received, TypeOK
  <2>4. SubSeq(data, 1, Chunk) \in Seq(Byte) /\ Len(SubSeq(data, 1, Chunk)) = Chunk
    BY <2>1, <2>3 DEF TypeOK
  <2>5. SubSeq(data, Chunk + 1, Len(data)) \in Seq(Byte)
    BY <2>1, <2>3 DEF TypeOK
  <2>6. QED BY <2>1, <2>2, <2>3, <2>4, <2>5, ConcatProperties DEF Delivered, Received
<1>15. CASE PayloadMore
  <2>1. InPayload /\ blk.open /\ blk.len = blockLen
    BY <1>byte, <1>15, <1>chunk DEF PayloadMore, InPayload, BlockContract
  <2>2. blk' \in Block /\ blk'.open /\ blk'.len = blockLen /\ blk'.bytes = Delivered
    BY <1>15, <1>chunk, <2>1 DEF PayloadMore, Block, TypeOK
  <2>3. QED
    <3> USE <1>byte, <1>15, <1>chunk, <2>1, <2>2 DEF PayloadMore
    <3>1. RxTypeOK' /\ ScpiTypeOK' /\ CallTypeOK' /\ FlagTypeOK' /\ AppTypeOK'
      BY DEF TypeOK, Skip, rxVars, headVars, scpiVars, callVars
    <3>2. BuffersInBounds' /\ BlocksWhole' /\ FailureIsQueued' /\ HeaderInv'
      BY DEF BuffersInBounds, BlocksWhole, FailureIsQueued, HeaderInv, rxVars, headVars,
             scpiVars, callVars, InPayload
    <3>3. Len(blk'.bytes) = blockReceived' /\ blockReceived' < blockLen'
      BY DEF headVars, InPayload, TypeOK
    <3>4. blockStarted /\ blockStarted' = blockStarted /\ blk'.len = blockLen'
           /\ mode' = mode
      BY DEF rxVars, headVars, InPayload, BlockContract
    <3>5. BlockContract'
      BY <3>3, <3>4 DEF BlockContract, InPayload
    <3>6. QED BY <3>1, <3>2, <3>5 DEF TypeOK
<1>16. CASE PayloadEnds
  <2>1. InPayload /\ Finished(blockLen, Delivered) /\ Received = blockLen
    BY <1>16 DEF PayloadEnds
  <2>2. log' \in Seq(Effect) /\ blk' \in Block /\ BlocksWhole'
    BY <1>byte, <1>finished, <1>chunk, <2>1 DEF HeaderInv, InPayload, TypeOK
  <2>3. QED
    <3> USE <1>byte, <1>16, <1>chunk, <2>1, <2>2 DEF PayloadEnds, Finished
    <3>1. RxTypeOK' /\ ScpiTypeOK'
      BY <1>empty DEF TypeOK, Mode, scpiVars
    <3>2. CallTypeOK' /\ FlagTypeOK' /\ AppTypeOK'
      BY DEF TypeOK, Skip, callVars
    <3>3. BuffersInBounds'
      BY <1>empty, LengthsAssumption DEF BuffersInBounds, scpiVars
    <3>4. BlockContract' /\ FailureIsQueued' /\ HeaderInv'
      BY DEF BlockContract, FailureIsQueued, HeaderInv, scpiVars, callVars
    <3>5. QED BY <3>1, <3>2, <3>3, <3>4 DEF TypeOK
<1>17. CASE PayloadEndFails
  BY <1>byte, <1>17, <1>chunk, FailInv, <1>empty
  DEF PayloadEndFails, Skip, TypeOK, BuffersInBounds, BlockContract, BlocksWhole,
      FailureIsQueued, HeaderInv, rxVars, headVars, callVars, InPayload, Code, Status, Block
<1>18. CASE PayloadDataFails
  BY <1>byte, <1>18, <1>chunk, FailInv, <1>empty
  DEF PayloadDataFails, TypeOK, BuffersInBounds, BlockContract, BlocksWhole,
      FailureIsQueued, HeaderInv, rxVars, headVars, bodyVars, callVars, InPayload, Code,
      Status, Block
<1>19. CASE OnRxReturn
  <2> DEFINE tag == line[Len(line)].tag
             l   == Append(line, NewLine(tag))
  <2>1. CASE status = "OK" /\ eom /\ mode = "TEXT" /\ line # <<>>
    <3>1. Len(line) \in 1..Len(line) /\ line[Len(line)] \in Byte
      BY <2>1 DEF TypeOK
    <3>2. tag \in Tag /\ NewLine(tag) \in Byte
      BY <3>1 DEF NewLine, Byte, Class
    <3>3. l \in Seq(Byte) /\ l # <<>> /\ FeedLine(l, tag)
      BY <1>19, <2>1, <3>2, AppendProperties DEF OnRxReturn, TypeOK
    <3>4. /\ residue' \in Seq(Byte) /\ Len(residue') <= ScpiBufLen - 1
          /\ errors' \in Seq(Error) /\ Len(errors') <= ErrQueueLen
          /\ log' \in Seq(Effect)
          /\ BlocksWhole'
      BY <3>2, <3>3, FeedLineInv
    <3>5. QED
      <4> USE <1>19, <2>1 DEF OnRxReturn
      <4>1. RxTypeOK' /\ ScpiTypeOK'
        BY <1>empty, <3>4 DEF TypeOK, headVars
      <4>2. BuffersInBounds'
        BY <1>empty, <3>4, LengthsAssumption DEF BuffersInBounds
      <4>3. CallTypeOK' /\ FlagTypeOK' /\ AppTypeOK'
        BY <1>empty, <3>4 DEF TypeOK, Status
      <4>4. BlockContract' /\ FailureIsQueued' /\ HeaderInv'
        BY DEF BlockContract, FailureIsQueued, HeaderInv, headVars
      <4>5. QED BY <3>4, <4>1, <4>2, <4>3, <4>4 DEF TypeOK
  <2>2. CASE ~(status = "OK" /\ eom /\ mode = "TEXT" /\ line # <<>>)
    <3> USE <1>19, <2>2 DEF OnRxReturn
    <3>1. RxTypeOK'
      BY <1>empty DEF TypeOK, headVars, Mode
    <3>2. ScpiTypeOK' /\ BuffersInBounds' /\ AppTypeOK'
      BY <1>empty, LengthsAssumption DEF TypeOK, BuffersInBounds, scpiVars
    <3>3. CallTypeOK' /\ FlagTypeOK'
      BY <1>empty DEF TypeOK, Status
    <3>4. BlockContract' /\ BlocksWhole' /\ FailureIsQueued' /\ HeaderInv'
      BY DEF BlockContract, BlocksWhole, FailureIsQueued, HeaderInv, headVars
    <3>5. QED BY <3>1, <3>2, <3>3, <3>4 DEF TypeOK
  <2>3. QED BY <2>1, <2>2
<1>20. CASE Clear
  <2> USE <1>20 DEF Clear
  <2>1. RxTypeOK'
    BY <1>empty DEF Mode
  <2>2. ScpiTypeOK' /\ BuffersInBounds'
    BY <1>empty, LengthsAssumption DEF TypeOK, BuffersInBounds
  <2>3. CallTypeOK' /\ FlagTypeOK'
    BY DEF TypeOK, callVars
  <2>4. AppTypeOK'
    BY <1>empty DEF Block
  <2>5. BlockContract' /\ BlocksWhole' /\ FailureIsQueued' /\ HeaderInv'
    BY DEF BlockContract, BlocksWhole, FailureIsQueued, HeaderInv, callVars
  <2>6. QED BY <2>1, <2>2, <2>3, <2>4, <2>5 DEF TypeOK
<1>21. CASE UNCHANGED vars
  BY <1>21
  DEF vars, TypeOK, BuffersInBounds, BlockContract, BlocksWhole, FailureIsQueued,
      HeaderInv, rxVars, headVars, bodyVars, scpiVars, callVars, appVars
<1>qed. QED
  BY <1>1, <1>2, <1>3, <1>4, <1>5, <1>6, <1>7, <1>8, <1>9, <1>10, <1>11, <1>12, <1>13,
     <1>14, <1>15, <1>16, <1>17, <1>18, <1>19, <1>20, <1>21
  DEF Next, Iterate
------------------------------------------------------------------------------
\* The parser, the buffers it writes and the application's blocks are well
\* formed at every step of every call, for every input.
THEOREM Invariance == Spec => []IInv
<1>1. IInv /\ [Next]_vars => IInv'
  BY StepInv
<1>2. QED BY InitInv, <1>1, PTL DEF Spec

\* Type correctness of the receive path.
THEOREM TypeCorrect == Spec => []TypeOK
<1>1. IInv => TypeOK
  BY DEF IInv
<1>2. QED BY Invariance, <1>1, PTL

\* No byte sequence makes usbscpi_on_rx, libscpi's input buffer or the error
\* queue run past the end of its array.
THEOREM Bounds == Spec => []BuffersInBounds
<1>1. IInv => BuffersInBounds
  BY DEF IInv
<1>2. QED BY Invariance, <1>1, PTL

\* The application always sees a block begin before its data and gets the
\* bytes the parser counts, with at least one missing while it waits.
THEOREM Contract == Spec => []BlockContract
<1>1. IInv => BlockContract
  BY DEF IInv
<1>2. QED BY Invariance, <1>1, PTL

\* on_block_end is reached only with exactly the announced bytes, and never
\* by a block larger than the limit.
THEOREM WholeBlocks == Spec => []BlocksWhole
<1>1. IInv => BlocksWhole
  BY DEF IInv
<1>2. QED BY Invariance, <1>1, PTL

\* The two together: every block is begun, filled with the bytes announced and
\* ended, in that order.
THEOREM BlocksAlwaysKept == Spec => []BlocksKept
<1>1. BlockContract /\ BlocksWhole => BlocksKept
  BY DEF BlocksKept
<1>2. QED BY Contract, WholeBlocks, <1>1, PTL

\* Whenever usbscpi_on_rx gives up on a buffer the host can read why.
THEOREM FailuresQueued == Spec => []FailureIsQueued
<1>1. IInv => FailureIsQueued
  BY DEF IInv
<1>2. QED BY Invariance, <1>1, PTL

------------------------------------------------------------------------------
(* What block_fit returns, for every length and every size of a response. *)

\* Lengths, as the targets represent them.
SizeT == 0..SizeMax

\* A length has one to ten digits.
LEMMA DigitsType == ASSUME NEW n \in Nat PROVE Digits(n) \in 1..10
BY DEF Digits

\* A longer length has no fewer digits.
LEMMA DigitsGrow ==
  ASSUME NEW m \in Nat, NEW n \in Nat, m <= n PROVE Digits(m) <= Digits(n)
BY DEF Digits

\* A pass that does not settle hands a shorter, nonempty length to the next,
\* which settles: the loop of two passes is never cut short.
LEMMA SecondPassSettles ==
  ASSUME NEW want \in Nat, NEW mtu \in Nat, ~Settled(want, mtu)
  PROVE  /\ Carried(want, mtu) \in 1..(want - 1)
         /\ Settled(Carried(want, mtu), mtu)
         /\ Overhead(Carried(want, mtu)) < mtu
<1> DEFINE o == Overhead(want)
           c == Carried(want, mtu)
<1>1. o \in Nat /\ o < mtu /\ want + o > mtu
  BY DigitsType DEF Settled, Overhead
<1>2. c = mtu - o
  BY <1>1 DEF Carried
<1>3. c \in 1..(want - 1)
  BY <1>1, <1>2
<1>4. Overhead(c) <= o
  <2> HIDE DEF c
  <2>1. Digits(c) <= Digits(want)
    BY <1>3, DigitsGrow
  <2> QED BY <1>3, <2>1, DigitsType DEF Overhead
<1>5. Overhead(c) \in Nat
  BY <1>3, DigitsType DEF Overhead
<1>6. Overhead(c) < mtu /\ c + Overhead(c) <= mtu
  <2> HIDE DEF o, c
  <2> QED BY <1>1, <1>2, <1>4, <1>5
<1> QED BY <1>3, <1>6 DEF Settled

\* block_fit returns no more than was asked for, and when a response holds an
\* empty block at all, the encoded block fits it.
THEOREM EncodedBlockFits ==
  ASSUME NEW want \in SizeT, NEW mtu \in SizeT
  PROVE  /\ BlockFit(want, mtu) \in 0..want
         /\ mtu >= 4 => Encoded(BlockFit(want, mtu)) <= mtu
<1> want \in Nat /\ mtu \in Nat
  BY DEF SizeT, SizeMax
<1> DEFINE r == BlockFit(want, mtu)
<1>1. CASE mtu = 0
  BY <1>1 DEF BlockFit
<1>2. CASE mtu # 0 /\ Settled(want, mtu)
  <2>1. r = Carried(want, mtu)
    BY <1>2 DEF BlockFit
  <2>2. Overhead(want) \in Nat
    BY DigitsType DEF Overhead
  <2>3. \/ r = 0
        \/ r = want /\ want + Overhead(want) <= mtu
    BY <1>2, <2>1 DEF Carried, Settled
  <2>4. Encoded(0) = 4
    BY DEF Encoded, Digits
  <2>5. Encoded(want) = want + Overhead(want)
    BY DigitsType DEF Encoded, Overhead
  <2> QED BY <2>2, <2>3, <2>4, <2>5
<1>3. CASE mtu # 0 /\ ~Settled(want, mtu)
  <2> DEFINE c == Carried(want, mtu)
  <2>1. /\ c \in 1..(want - 1)
        /\ Settled(c, mtu)
        /\ Overhead(c) < mtu
    BY <1>3, SecondPassSettles
  <2>2. r = Carried(c, mtu)
    BY <1>3 DEF BlockFit
  <2>3. Overhead(c) \in Nat
    BY <2>1, DigitsType DEF Overhead
  <2>4. r = c /\ c + Overhead(c) <= mtu
    <3> HIDE DEF c, r
    <3>1. ~(Overhead(c) >= mtu)
      BY <2>1, <2>3
    <3> QED BY <2>1, <2>2, <3>1 DEF Carried, Settled
  <2>5. Encoded(c) = c + Overhead(c)
    <3> HIDE DEF c
    <3> QED BY <2>1, DigitsType DEF Encoded, Overhead
  <2>6. BlockFit(want, mtu) = c
    BY <2>4
  <2> HIDE DEF c
  <2> QED BY <2>1, <2>3, <2>4, <2>5, <2>6
<1> QED BY <1>1, <1>2, <1>3

\* DATA:READ? asks the source for no more than was requested, than the buffer
\* holds and than is there, so nothing is consumed that the response, which it
\* fits, does not carry.
THEOREM NothingReadInVain ==
  ASSUME NEW count \in SizeT, NEW ioBufLen \in SizeT, NEW avail \in SizeT,
         NEW mtu \in SizeT, mtu >= 4
  PROVE  LET n == ReadLength(count, ioBufLen, avail, mtu)
         IN /\ n \in Nat /\ n <= count /\ n <= ioBufLen /\ n <= avail
            /\ Encoded(n) <= mtu
<1> DEFINE want == Least(Least(count, ioBufLen), avail)
<1>1. want \in SizeT /\ want <= count /\ want <= ioBufLen /\ want <= avail
  BY DEF Least, SizeT, SizeMax
<1>2. /\ BlockFit(want, mtu) \in 0..want
      /\ Encoded(BlockFit(want, mtu)) <= mtu
  <2> HIDE DEF want
  <2> QED BY <1>1, EncodedBlockFits
<1>3. ReadLength(count, ioBufLen, avail, mtu) = BlockFit(want, mtu)
  BY DEF ReadLength
<1>4. count \in Nat /\ ioBufLen \in Nat /\ avail \in Nat /\ want \in Nat
  BY DEF SizeT, SizeMax, Least
<1> HIDE DEF want
<1> QED BY <1>1, <1>2, <1>3, <1>4

\* A response of 14 bytes or more always carries something: a reader that
\* polls until the source is empty gets there.
THEOREM SomethingRead ==
  ASSUME NEW want \in SizeT, NEW mtu \in SizeT, want > 0, mtu >= 14
  PROVE  BlockFit(want, mtu) > 0
<1> want \in Nat /\ mtu \in Nat
  BY DEF SizeT, SizeMax
<1>1. Overhead(want) \in Nat /\ Overhead(want) < mtu
  BY DigitsType DEF Overhead
<1>2. CASE Settled(want, mtu)
  BY <1>1, <1>2 DEF BlockFit, Carried
<1>3. CASE ~Settled(want, mtu)
  <2> DEFINE c == Carried(want, mtu)
  <2>1. /\ c \in 1..(want - 1)
        /\ Settled(c, mtu)
        /\ Overhead(c) < mtu
    BY <1>3, SecondPassSettles
  <2>2. Overhead(c) \in Nat
    BY <2>1, DigitsType DEF Overhead
  <2>3. BlockFit(want, mtu) = Carried(c, mtu)
    BY <1>1, <1>3 DEF BlockFit
  <2> HIDE DEF c
  <2>4. Carried(c, mtu) = c
    BY <2>1, <2>2 DEF Carried, Settled
  <2> QED BY <2>1, <2>3, <2>4
<1> QED BY <1>2, <1>3

------------------------------------------------------------------------------
(* The table of commands and the pages a host takes of it                    *)

Table(Command, max) == [cells : [0..max - 1 -> Command \cup {End}], count : 0..max - 1]

\* What usbscpi_register copies, and the end mark it may write behind it.
LEMMA FilledEnds ==
  ASSUME NEW Command, End \notin Command, NEW max \in Nat \ {0},
         NEW table \in Table(Command, max), Ended(table, max),
         NEW commands \in Seq(Command), NEW n \in 0..Len(commands), table.count + n < max
  PROVE  /\ Filled(table, commands, n) \in Table(Command, max)
         /\ Ended(Filled(table, commands, n), max)
         /\ Sealed(Filled(table, commands, n)) = Filled(table, commands, n)
<1> DEFINE f == Filled(table, commands, n)
<1>1. /\ table.count \in 0..max - 1 /\ table.cells \in [0..max - 1 -> Command \cup {End}]
      /\ DOMAIN table.cells = 0..max - 1 /\ Len(commands) \in Nat /\ n \in Nat
  BY DEF Table
<1>2. \A k \in 1..n : commands[k] \in Command
  BY <1>1
<1>3. f.cells = [i \in 0..max - 1 |-> IF i \in table.count..table.count + n - 1
                                    THEN commands[i - table.count + 1] ELSE table.cells[i]]
      /\ f.count = table.count + n
      /\ f = [cells |-> f.cells, count |-> f.count]
  BY <1>1 DEF Filled
<1>4. \A i \in 0..max - 1 : i \in table.count..table.count + n - 1 => f.cells[i] \in Command
  BY <1>1, <1>2, <1>3
<1>5. \A i \in 0..max - 1 : i \notin table.count..table.count + n - 1 => f.cells[i] = table.cells[i]
  BY <1>1, <1>3
<1> HIDE DEF f
<1>6. f.cells \in [0..max - 1 -> Command \cup {End}]
  BY <1>1, <1>3, <1>4, <1>5
<1>7. f \in Table(Command, max)
  <2>1. f.count \in 0..max - 1
    BY <1>1, <1>3
  <2>2. [cells |-> f.cells, count |-> f.count] \in Table(Command, max)
    BY <1>6, <2>1 DEF Table
  <2> QED BY <1>3, <2>2
<1>8. Ended(f, max)
  BY <1>1, <1>3, <1>4, <1>5, <1>6 DEF Ended
<1>9. Sealed(f) = f
  <2>1. f.cells[f.count] = End
    BY <1>1, <1>3, <1>8 DEF Ended
  <2>2. [f.cells EXCEPT ![f.count] = End] = f.cells
    BY <1>6, <2>1
  <2> QED BY <1>3, <2>2 DEF Sealed
<1> QED BY <1>7, <1>8, <1>9 DEF f

LEMMA WalkIsCount ==
  ASSUME NEW max \in Nat \ {0}, NEW table, Ended(table, max)
  PROVE  Walk(table) = table.count
<1>1. /\ table.count \in 0..max - 1 /\ DOMAIN table.cells = 0..max - 1
      /\ table.cells[table.count] = End /\ \A i \in 0..table.count - 1 : table.cells[i] # End
  BY DEF Ended
<1>2. ASSUME NEW m \in 0..max - 1, table.cells[m] = End, \A i \in 0..m - 1 : table.cells[i] # End
      PROVE  m = table.count
  BY <1>1, <1>2
<1> QED BY <1>1, <1>2 DEF Walk

\* However many lists an application registers and whichever of them does not
\* fit, the table keeps the commands it had, has room for its end mark, and
\* ends there: libscpi and HELP:HEADers? never walk past it.
THEOREM TableAlwaysEnds ==
  ASSUME NEW Command, End \notin Command, NEW max \in Nat \ {0},
         NEW table \in Table(Command, max), Ended(table, max), NEW commands \in Seq(Command)
  PROVE  LET registered == Registered(table, commands, max)
         IN /\ registered \in Table(Command, max) /\ Ended(registered, max)
            /\ \A i \in 0..table.count - 1 : registered.cells[i] = table.cells[i]
            /\ Walk(registered) = registered.count
<1> DEFINE n == Room(table, commands, max)
           f == Filled(table, commands, n)
<1>1. table.count \in 0..max - 1 /\ Len(commands) \in Nat
      /\ DOMAIN table.cells = 0..max - 1
  BY DEF Table
<1>2. n \in 0..Len(commands) /\ table.count + n < max
  BY <1>1 DEF Room, Least
<1>3. f \in Table(Command, max) /\ Ended(f, max) /\ Sealed(f) = f
  <2> HIDE DEF n
  <2> QED BY <1>2, FilledEnds
<1>4. Registered(table, commands, max) = f
  BY <1>3 DEF Registered
<1>5. \A i \in 0..table.count - 1 : f.cells[i] = table.cells[i]
  <2> HIDE DEF n
  <2> QED BY <1>1, <1>2 DEF Filled
<1>6. Walk(f) = f.count
  <2> HIDE DEF f
  <2> QED BY <1>3, WalkIsCount
<1> HIDE DEF f
<1> QED BY <1>3, <1>4, <1>5, <1>6

\* The zeroed table ends, and so does the one usbscpi_init makes of it.
THEOREM SeededTableEnds ==
  ASSUME NEW Command, End \notin Command, NEW max \in Nat \ {0}, NEW core \in Seq(Command)
  PROVE  Seeded(core, max) \in Table(Command, max) /\ Ended(Seeded(core, max), max)
<1>1. Blank(max) \in Table(Command, max) /\ Ended(Blank(max), max)
  BY DEF Blank, Table, Ended
<1>2. Room(Blank(max), core, max) \in 0..Len(core)
      /\ Blank(max).count + Room(Blank(max), core, max) < max
  BY DEF Room, Least, Blank
<1> QED BY <1>1, <1>2, FilledEnds DEF Seeded

\* A page that does not reach the wrap is the commands asked for, as far as there
\* are any.
LEMMA PageIsWindow ==
  ASSUME NEW table, NEW offset \in Nat, NEW count \in Nat, NEW word \in Nat \ {0},
         Walk(table) \in Nat, offset <= Walk(table), offset + count < word
  PROVE  LET n == Least(Walk(table) - offset, count)
         IN Page(table, offset, count, word) = [k \in 1..n |-> table.cells[offset + k - 1]]
<1>1. (offset + count) % word = offset + count
  BY Z3
<1>2. Least(Walk(table), (offset + count) % word) - offset = Least(Walk(table) - offset, count)
  BY <1>1 DEF Least
<1> QED BY <1>2, Zenon DEF Page

\* An offset without a count lists nothing: their sum wraps to the offset less one.
THEOREM OffsetAloneListsNothing ==
  ASSUME NEW table, Walk(table) \in Nat, NEW word \in Nat \ {0}, NEW offset \in 1..word - 1
  PROVE  Page(table, offset, AllOf(word), word) = <<>>
<1>1. (offset + AllOf(word)) % word = offset - 1
  <2>1. offset + AllOf(word) = (offset - 1) + word /\ offset - 1 \in 0..word - 1
    BY DEF AllOf
  <2> QED BY <2>1, Z3
<1>2. 1..Least(Walk(table), (offset + AllOf(word)) % word) - offset = 1..0
  BY <1>1 DEF Least
<1>3. Page(table, offset, AllOf(word), word) = [k \in 1..0 |-> table.cells[offset + k - 1]]
  BY <1>2, Zenon DEF Page
<1> QED BY <1>3

\* One step of the host's loop: what it has is the front of the listing, each page
\* continues it, and it stops either with all of it or at a page that was refused
\* or when it has asked often enough.
THEOREM PagingKeepsItsPlace ==
  ASSUME NEW Command, End \notin Command, NEW max \in Nat \ {0}, NEW word \in Nat \ {0},
         NEW table \in Table(Command, max), Ended(table, max), NEW size \in Nat \ {0}, max + size <= word,
         NEW all \in Seq(Command), NEW offset \in Nat, NEW left \in Nat,
         InPlace([all |-> all, offset |-> offset, left |-> left, done |-> FALSE], table),
         NEW width, NEW mtu
  PROVE  LET s    == [all |-> all, offset |-> offset, left |-> left, done |-> FALSE]
             page == Page(table, offset, size, word)
             next == FetchStep(s, HelpHeaders(table, offset, size, width, mtu, word), size)
         IN /\ InPlace(next, table)
            /\ ~next.done => Len(next.all) = Len(all) + size
            /\ next.done /\ PageFits(page, width, mtu) /\ left # 1 => next.all = Listing(table)
<1> DEFINE s    == [all |-> all, offset |-> offset, left |-> left, done |-> FALSE]
           page == Page(table, offset, size, word)
           reply == HelpHeaders(table, offset, size, width, mtu, word)
           next == FetchStep(s, reply, size)
           n    == Least(table.count - offset, size)
           list == Listing(table)
<1>1. /\ table.count \in 0..max - 1 /\ table.count \in Nat
      /\ \A i \in 0..table.count - 1 : table.cells[i] \in Command
  BY DEF Table, Ended
<1>2. list \in Seq(Command) /\ Len(list) = table.count
      /\ \A k \in 1..table.count : list[k] = table.cells[k - 1]
  <2>1. \A k \in 1..table.count : table.cells[k - 1] \in Command
    BY <1>1
  <2>2. list \in [1..table.count -> Command]
    BY <2>1 DEF Listing
  <2>3. list \in Seq(Command) /\ Len(list) = table.count
    <3> HIDE DEF list
    <3> QED BY <1>1, <2>2
  <2> QED BY <2>3 DEF Listing
<1>3. all = SubSeq(list, 1, Len(all)) /\ Len(all) <= table.count /\ offset = Len(all)
  BY DEF InPlace
<1>4. n \in Nat /\ n <= size /\ offset + n <= table.count /\ (n < size => offset + n = table.count)
  BY <1>1, <1>3 DEF Least
<1>5. page = [k \in 1..n |-> table.cells[offset + k - 1]]
  <2>1. Walk(table) \in Nat /\ offset <= Walk(table) /\ offset + size < word
    BY <1>1, <1>3, WalkIsCount
  <2>2. Walk(table) = table.count
    BY WalkIsCount
  <2>3. page = [k \in 1..Least(Walk(table) - offset, size) |-> table.cells[offset + k - 1]]
    BY SMTT(30), <2>1, <2>2, PageIsWindow
  <2> QED BY <2>2, <2>3
<1> HIDE DEF n, list
<1>6. page = SubSeq(list, offset + 1, offset + n)
  <2>1. SubSeq(list, offset + 1, offset + n) = [k \in 1..n |-> list[offset + k]]
    BY <1>2, <1>3, <1>4
  <2>2. \A k \in 1..n : list[offset + k] = table.cells[offset + k - 1]
    BY <1>2, <1>3, <1>4
  <2> QED BY <1>5, <2>1, <2>2
<1>7. page \in Seq(Command) /\ Len(page) = n
  BY SMTT(30), <1>2, <1>3, <1>4, <1>6
<1>8. all \o page = SubSeq(list, 1, offset + n) /\ Len(all \o page) = offset + n
  BY SMTT(30), <1>2, <1>3, <1>4, <1>6, <1>7
<1>9. reply = (IF PageFits(page, width, mtu) THEN page ELSE <<>>)
  BY DEF HelpHeaders
<1> HIDE DEF page, reply
<1>10. /\ next.all = all \o reply
       /\ next.offset = (IF Len(reply) < size THEN offset ELSE offset + Len(reply))
       /\ next.done <=> (Len(reply) < size \/ left = 1)
  <2>1. /\ next.all = all \o reply
        /\ next.offset = (IF Len(reply) < size THEN offset ELSE offset + Len(reply))
    BY DEF FetchStep
  <2>2. next.done <=> (Len(reply) < size \/ left = 1)
    BY Zenon DEF FetchStep
  <2> QED BY <2>1, <2>2
<1> HIDE DEF next
<1> DEFINE Place == /\ InPlace(next, table)
                    /\ ~next.done => Len(next.all) = Len(all) + size
                    /\ next.done /\ PageFits(page, width, mtu) /\ left # 1 => next.all = list
<1>11. ASSUME PageFits(page, width, mtu) PROVE Place
  <2>1. reply = page /\ Len(reply) = n
    BY <1>7, <1>9, <1>11
  <2>2. next.all = SubSeq(list, 1, offset + n) /\ Len(next.all) = offset + n
    BY <1>8, <1>10, <2>1
  <2>3. ~next.done => n = size /\ next.offset = offset + n
    BY <1>4, <1>10, <2>1
  <2>4. InPlace(next, table)
    BY <1>4, <2>2, <2>3 DEF InPlace, list
  <2>5. next.done /\ left # 1 => next.all = list
    <3>1. next.done /\ left # 1 => n < size
      BY <1>10, <2>1
    <3>2. SubSeq(list, 1, table.count) = list
      BY <1>1, <1>2
    <3> QED BY <1>4, <2>2, <3>1, <3>2
  <2> QED BY <1>3, <2>2, <2>3, <2>4, <2>5
<1>12. ASSUME ~PageFits(page, width, mtu) PROVE Place
  <2>1. reply = <<>> /\ all \o reply = all /\ Len(reply) = 0
    BY <1>9, <1>12
  <2>2. next.all = all /\ next.done
    BY <1>10, <2>1
  <2>3. InPlace(next, table)
    BY <1>3, <2>2 DEF InPlace, list
  <2> QED BY <1>12, <2>2, <2>3
<1>13. Place
  BY <1>11, <1>12
<1> QED BY <1>13 DEF next, page, reply, list
------------------------------------------------------------------------------
(* The server.  What is said of the receive path above is cited by name.     *)
HIDE DEF RxTypeOK, ScpiTypeOK, CallTypeOK, FlagTypeOK, AppTypeOK, NoBlock

\* What lies between two offsets of a stream.
LEMMA CutFacts ==
  ASSUME NEW w \in Seq(Byte), NEW a \in Nat, NEW b \in Nat, a <= b, b <= Len(w)
  PROVE  /\ Cut(w, a, b) \in Seq(Byte) /\ Len(Cut(w, a, b)) = b - a
         /\ \A x \in 1..(b - a) : Cut(w, a, b)[x] = w[a + x]
<1>0. Len(w) \in Nat
  BY LenProperties
<1>1. \A i \in (a + 1)..b : w[i] \in Byte
  <2>1. TAKE i \in (a + 1)..b
  <2>2. i \in 1..Len(w)
    BY <1>0
  <2>3. QED BY <2>2, ElementOfSeq
<1>2. a + 1 \in Int /\ b \in Int
  OBVIOUS
<1>3. /\ SubSeq(w, a + 1, b) \in Seq(Byte)
      /\ Len(SubSeq(w, a + 1, b)) = IF a + 1 <= b THEN b - (a + 1) + 1 ELSE 0
      /\ \A i \in 1..(b - (a + 1) + 1) : SubSeq(w, a + 1, b)[i] = w[(a + 1) + i - 1]
  BY <1>1, <1>2, SubSeqProperties
<1>4. Len(SubSeq(w, a + 1, b)) = b - a
  BY <1>3
<1>5. ASSUME NEW x \in 1..(b - a) PROVE SubSeq(w, a + 1, b)[x] = w[a + x]
  <2>1. x \in 1..(b - (a + 1) + 1) /\ (a + 1) + x - 1 = a + x
    OBVIOUS
  <2>2. SubSeq(w, a + 1, b)[x] = w[(a + 1) + x - 1]
    BY <1>3, <2>1, Zenon
  <2>3. QED BY ONLY <2>1, <2>2, Zenon
<1>6. QED BY <1>3, <1>4, <1>5, Zenon DEF Cut

LEMMA CutEmpty == \A w, a : Cut(w, a, a) = <<>> \/ a \notin Nat
<1> SUFFICES ASSUME NEW w, NEW a \in Nat PROVE Cut(w, a, a) = <<>>
  OBVIOUS
<1>1. a + 1 \in Int /\ a \in Int /\ a < a + 1
  OBVIOUS
<1>2. QED BY <1>1, SubSeqEmpty DEF Cut

LEMMA CutWhole == \A w \in Seq(Byte) : Cut(w, 0, Len(w)) = w
<1> SUFFICES ASSUME NEW w \in Seq(Byte) PROVE Cut(w, 0, Len(w)) = w
  OBVIOUS
<1>1. 0 + 1 = 1
  OBVIOUS
<1>2. QED BY <1>1, SubSeqFull DEF Cut

\* What is left behind an offset.
LEMMA CutEnd ==
  \A w \in Seq(Byte) : \A m \in 0..Len(w) :
    /\ Cut(w, m, Len(w)) \in Seq(Byte) /\ Len(Cut(w, m, Len(w))) = Len(w) - m
    /\ \A x \in 1..(Len(w) - m) : Cut(w, m, Len(w))[x] = w[m + x]
<1>1. TAKE w \in Seq(Byte)
<1>. TAKE m \in 0..Len(w)
<1>2. Len(w) \in Nat /\ m \in Nat /\ m <= Len(w) /\ Len(w) <= Len(w)
  BY LenProperties
<1>3. QED BY <1>2, CutFacts, ZenonT(30)

\* Two streams of the same length and bytes are the same.
LEMMA SameBytes ==
  ASSUME NEW x \in Seq(Byte), NEW y \in Seq(Byte), Len(x) = Len(y),
         \A i \in 1..Len(x) : x[i] = y[i]
  PROVE  x = y
BY SeqEqual

LEMMA ByteAppended ==
  \A s \in Seq(Byte), e \in Byte :
    /\ Append(s, e) \in Seq(Byte) /\ Append(s, e) # <<>> /\ Len(Append(s, e)) = Len(s) + 1
    /\ \A k \in 1..Len(s) : Append(s, e)[k] = s[k]
    /\ Append(s, e)[Len(s) + 1] = e
BY AppendProperties

LEMMA CutJoin ==
  ASSUME NEW w \in Seq(Byte), NEW a \in Nat, NEW b \in Nat, NEW c \in Nat,
         a <= b, b <= c, c <= Len(w)
  PROVE  Cut(w, a, b) \o Cut(w, b, c) = Cut(w, a, c)
<1>1. /\ a + 1 \in 1..(Len(w) + 1) /\ b \in ((a + 1) - 1)..Len(w) /\ c \in b..Len(w)
  BY LenProperties
<1>2. SubSeq(w, a + 1, b) \o SubSeq(w, b + 1, c) = SubSeq(w, a + 1, c)
  BY <1>1, ConcatAdjacentSubSeq, ZenonT(30)
<1>3. QED BY <1>2 DEF Cut

\* A stretch of a stretch.
LEMMA CutCut ==
  ASSUME NEW w \in Seq(Byte), NEW a \in Nat, NEW b \in Nat, a <= b, b <= Len(w),
         NEW i \in Nat, NEW j \in Nat, i <= j, j <= b - a
  PROVE  Cut(Cut(w, a, b), i, j) = Cut(w, a + i, a + j)
<1> DEFINE v == Cut(w, a, b)
           x == Cut(v, i, j)
           y == Cut(w, a + i, a + j)
<1>0. Len(w) \in Nat
  BY LenProperties
<1>1. v \in Seq(Byte) /\ Len(v) = b - a /\ \A k \in 1..(b - a) : v[k] = w[a + k]
  BY CutFacts, ZenonT(30)
<1>2. j <= Len(v)
  BY <1>1
<1> HIDE DEF v
<1>3. x \in Seq(Byte) /\ Len(x) = j - i /\ \A k \in 1..(j - i) : x[k] = v[i + k]
  BY <1>1, <1>2, CutFacts, ZenonT(30)
<1>4. a + i \in Nat /\ a + j \in Nat /\ a + i <= a + j /\ a + j <= Len(w)
  BY <1>0
<1>5. /\ y \in Seq(Byte) /\ Len(y) = (a + j) - (a + i)
      /\ \A k \in 1..((a + j) - (a + i)) : y[k] = w[(a + i) + k]
  BY <1>4, CutFacts, ZenonT(30)
<1> HIDE DEF x, y
<1>6. Len(x) = Len(y)
  BY ONLY <1>3, <1>5, i \in Nat, j \in Nat, a \in Nat
<1>7. ASSUME NEW k \in 1..Len(x) PROVE x[k] = y[k]
  <2>1. /\ k \in 1..(j - i) /\ i + k \in 1..(b - a) /\ k \in 1..((a + j) - (a + i))
        /\ a + (i + k) = (a + i) + k
    BY <1>3
  <2>2. x[k] = v[i + k] /\ v[i + k] = w[a + (i + k)] /\ y[k] = w[(a + i) + k]
    BY <1>1, <1>3, <1>5, <2>1, Zenon
  <2>3. QED BY ONLY <2>1, <2>2, Zenon
<1>8. x = y
  BY <1>3, <1>5, <1>6, <1>7, SameBytes, ZenonT(30)
<1>9. QED BY <1>8 DEF x, y, v

\* The first byte of a stretch, and what follows it.
LEMMA CutHead ==
  ASSUME NEW w \in Seq(Byte), NEW a \in Nat, NEW b \in Nat, a < b, b <= Len(w)
  PROVE  /\ Cut(w, a, b) # <<>> /\ Head(Cut(w, a, b)) = w[a + 1]
         /\ Tail(Cut(w, a, b)) = Cut(w, a + 1, b)
<1>0. Len(w) \in Nat
  BY LenProperties
<1>1. a + 1 \in 1..Len(w) /\ b \in (a + 1)..Len(w) /\ a <= b
  BY <1>0
<1>2. /\ Head(SubSeq(w, a + 1, b)) = w[a + 1]
      /\ Tail(SubSeq(w, a + 1, b)) = SubSeq(w, (a + 1) + 1, b)
  BY <1>1, HeadTailOfSubSeq, ZenonT(30)
<1>3. Cut(w, a, b) \in Seq(Byte) /\ Len(Cut(w, a, b)) = b - a
  BY <1>1, CutFacts, ZenonT(30)
<1>4. Cut(w, a, b) # <<>>
  BY <1>3, EmptySeq
<1>5. QED BY <1>2, <1>4 DEF Cut

\* The next byte of a stream lengthens a stretch of it.
LEMMA CutAppend ==
  ASSUME NEW w \in Seq(Byte), NEW a \in Nat, NEW b \in Nat, a <= b, b < Len(w)
  PROVE  Append(Cut(w, a, b), w[b + 1]) = Cut(w, a, b + 1)
<1> DEFINE s == Cut(w, a, b)
           x == Append(s, w[b + 1])
           y == Cut(w, a, b + 1)
<1>0. Len(w) \in Nat
  BY LenProperties
<1>1. b <= Len(w) /\ b + 1 \in Nat /\ a <= b + 1 /\ b + 1 <= Len(w) /\ b + 1 \in 1..Len(w)
  BY <1>0
<1>2. s \in Seq(Byte) /\ Len(s) = b - a /\ \A k \in 1..(b - a) : s[k] = w[a + k]
  BY <1>1, CutFacts, ZenonT(30)
<1>3. /\ y \in Seq(Byte) /\ Len(y) = (b + 1) - a
      /\ \A k \in 1..((b + 1) - a) : y[k] = w[a + k]
  BY <1>1, CutFacts, ZenonT(30)
<1>4. w[b + 1] \in Byte
  BY <1>1, ElementOfSeq, Zenon
<1> HIDE DEF s
<1>5. /\ x \in Seq(Byte) /\ Len(x) = Len(s) + 1
      /\ \A k \in 1..Len(s) : x[k] = s[k]
      /\ x[Len(s) + 1] = w[b + 1]
  BY <1>2, <1>4, ByteAppended, ZenonT(30)
<1> HIDE DEF x, y
<1>6. Len(x) = Len(y)
  BY <1>2, <1>3, <1>5
<1>7. ASSUME NEW k \in 1..Len(x) PROVE x[k] = y[k]
  <2>1. k \in 1..((b + 1) - a)
    BY <1>2, <1>5
  <2>2. y[k] = w[a + k]
    BY <1>3, <2>1, Zenon
  <2>3. CASE k = Len(s) + 1
    <3>1. a + k = b + 1
      BY <1>2, <2>3
    <3>2. QED BY <1>5, <2>2, <2>3, <3>1
  <2>4. CASE k # Len(s) + 1
    <3>1. k \in 1..Len(s) /\ k \in 1..(b - a)
      BY <1>2, <1>5, <2>4
    <3>2. x[k] = s[k] /\ s[k] = w[a + k]
      BY <1>2, <1>5, <3>1, Zenon
    <3>3. QED BY <2>2, <3>2
  <2>5. QED BY <2>3, <2>4
<1>8. x = y
  BY <1>3, <1>5, <1>6, <1>7, SameBytes, ZenonT(30)
<1>9. QED BY <1>8 DEF x, y, s

\* The stream of a script, all of it sent by one session.
LEMMA StreamIs ==
  ASSUME NEW sc \in Scripts, NEW s \in {0, 1}
  PROVE  /\ Stream(sc, s) \in Seq(Byte) /\ Len(Stream(sc, s)) = Len(sc.bytes)
         /\ Len(sc.bytes) \in Nat
         /\ \A i \in 1..Len(sc.bytes) : Stream(sc, s)[i].tag.s = s
<1> DEFINE n == Len(sc.bytes)
           B(i) == [c |-> sc.bytes[i].c, v |-> sc.bytes[i].v,
                    tag |-> [s |-> s, role |-> sc.bytes[i].role]]
<1>1. sc.bytes \in Seq(Symbol) /\ n \in Nat
  BY ScriptsFit, LenProperties DEF ScriptFits
<1>2. ASSUME NEW i \in 1..n PROVE B(i) \in Byte
  <2>1. sc.bytes[i] \in Symbol
    BY <1>1, ElementOfSeq
  <2>2. [s |-> s, role |-> sc.bytes[i].role] \in Tag
    BY <2>1, OriginAssumption DEF Symbol, Origin
  <2>3. QED BY <2>1, <2>2 DEF Symbol, Byte
<1>3. [i \in 1..n |-> B(i)] \in Seq(Byte)
  BY <1>1, <1>2, IsASeq
<1>4. Stream(sc, s) = [i \in 1..n |-> B(i)]
  BY DEF Stream
<1>5. Len(Stream(sc, s)) = n
  BY <1>1, <1>3, <1>4, LenProperties
<1>6. \A i \in 1..n : Stream(sc, s)[i].tag.s = s
  BY <1>4
<1>7. QED BY <1>1, <1>3, <1>4, <1>5, <1>6
------------------------------------------------------------------------------
\* A call begins with any buffer and either flag.
LEMMA EnterInv ==
  ASSUME IInv, NEW d \in Seq(Byte), NEW e \in BOOLEAN, OnRxEnter(d, e) PROVE IInv'
<1> USE DEF OnRxEnter, IInv
<1>1. RxTypeOK' /\ ScpiTypeOK' /\ AppTypeOK'
  BY DEF TypeOK, RxTypeOK, ScpiTypeOK, AppTypeOK, rxVars, headVars, bodyVars, scpiVars, appVars
<1>2. CallTypeOK' /\ FlagTypeOK'
  BY DEF TypeOK, CallTypeOK, FlagTypeOK, bodyVars
<1>3. BuffersInBounds' /\ BlocksWhole' /\ FailureIsQueued'
  BY DEF BuffersInBounds, BlocksWhole, FailureIsQueued, rxVars, scpiVars, appVars
<1>4. BlockContract' /\ HeaderInv'
  BY DEF BlockContract, HeaderInv, rxVars, headVars, bodyVars, appVars
<1>5. QED BY <1>1, <1>2, <1>3, <1>4 DEF TypeOK

\* The types behind the invariant of the receive path.
LEMMA Types ==
  ASSUME IInv
  PROVE  /\ mode \in Mode /\ line \in Seq(Byte) /\ residue \in Seq(Byte)
         /\ errors \in Seq(Error) /\ data \in Seq(Byte) /\ log \in Seq(Effect)
         /\ ndigits \in 0..9 /\ gotDigits \in 0..9 /\ blockLen \in Nat /\ blockReceived \in Nat
         /\ status \in Status /\ inCall \in BOOLEAN /\ blk \in Block
         /\ Len(errors) <= ErrQueueLen
         /\ Len(line) \in Nat /\ Len(residue) \in Nat /\ Len(errors) \in Nat
         /\ Len(data) \in Nat /\ Len(log) \in Nat
<1>1. /\ mode \in Mode /\ line \in Seq(Byte) /\ residue \in Seq(Byte)
      /\ errors \in Seq(Error) /\ data \in Seq(Byte) /\ log \in Seq(Effect)
      /\ ndigits \in 0..9 /\ gotDigits \in 0..9 /\ blockLen \in Nat /\ blockReceived \in Nat
      /\ status \in Status /\ inCall \in BOOLEAN /\ blk \in Block
      /\ Len(errors) <= ErrQueueLen
  BY DEF IInv, TypeOK, RxTypeOK, ScpiTypeOK, CallTypeOK, FlagTypeOK, AppTypeOK, BuffersInBounds
<1>2. QED BY <1>1, LenProperties

\* The byte at hand is the first of the buffer.
LEMMA ByteAtHand ==
  ASSUME IInv, Iterating
  PROVE  /\ Len(data) \in Nat \ {0} /\ byte \in Byte /\ byte = data[1] /\ byte.tag \in Tag
         /\ Tail(data) = Cut(data, 1, Len(data)) /\ inCall /\ status = "OK"
<1>1. data \in Seq(Byte) /\ data # <<>> /\ inCall /\ status = "OK"
  BY Types DEF Iterating
<1>2. Len(data) \in Nat \ {0}
  BY <1>1, EmptySeq
<1>3. 1 \in Nat /\ 0 \in Nat /\ 0 < Len(data) /\ Len(data) \in Nat /\ Len(data) <= Len(data)
  BY <1>2
<1>4. Head(data) \in Byte
  BY <1>1, HeadTailProperties
<1>5. /\ Head(Cut(data, 0, Len(data))) = data[0 + 1]
      /\ Tail(Cut(data, 0, Len(data))) = Cut(data, 0 + 1, Len(data))
  BY <1>1, <1>3, CutHead, ZenonT(30)
<1>6. Cut(data, 0, Len(data)) = data
  BY <1>1, CutWhole
<1>7. 0 + 1 = 1
  OBVIOUS
<1>8. QED BY <1>1, <1>2, <1>4, <1>5, <1>6, <1>7 DEF byte, Byte

\* What an iteration leaves of the buffer.
LEMMA Consumed ==
  ASSUME IInv, Iterate
  PROVE  /\ Iterating /\ inCall' = inCall /\ eom' = eom
         /\ \E m \in 0..Len(data) : data' = Cut(data, m, Len(data))
<1>1. Iterating /\ inCall' = inCall /\ eom' = eom
  BY DEF Iterate, TextBlockStart, TextIgnored, TextLineEnd, TextOverflow, TextStore,
         BlockDigits, BlockBadHeader, BlockLenDigit, BlockRefused, BlockBeginFails, BlockBegins,
         BlockEmpty, BlockEmptyEndFails, PayloadMore, PayloadEnds, PayloadEndFails,
         PayloadDataFails, InText, InPayload, LastDigit, LengthDigit, callVars
<1>2. Consume \/ (InPayload /\ Skip) \/ data' = data
  BY DEF Iterate, TextBlockStart, TextIgnored, TextLineEnd, TextOverflow, TextStore,
         BlockDigits, BlockBadHeader, BlockLenDigit, BlockRefused, BlockBeginFails, BlockBegins,
         BlockEmpty, BlockEmptyEndFails, PayloadMore, PayloadEnds, PayloadEndFails,
         PayloadDataFails, LastDigit, LengthDigit
<1>3. Len(data) \in Nat \ {0} /\ data \in Seq(Byte)
  BY <1>1, ByteAtHand, Types
<1>4. CASE Consume
  <2>1. data' = Cut(data, 1, Len(data))
    BY <1>1, <1>4, ByteAtHand DEF Consume
  <2>2. 1 \in 0..Len(data)
    BY <1>3
  <2>3. QED BY <1>1, <2>1, <2>2
<1>5. CASE InPayload /\ Skip
  <2>1. blockReceived < blockLen /\ blockReceived \in Nat /\ blockLen \in Nat
    BY <1>1, <1>5, Types DEF InPayload, IInv, BlockContract, Iterating
  <2>2. Chunk \in 0..Len(data)
    BY <1>3, <2>1 DEF Chunk
  <2>3. data' = Cut(data, Chunk, Len(data))
    BY <1>5 DEF Skip, Cut
  <2>4. QED BY <1>1, <2>2, <2>3
<1>6. CASE data' = data
  <2>1. data' = Cut(data, 0, Len(data)) /\ 0 \in 0..Len(data)
    BY <1>3, <1>6, CutWhole
  <2>2. QED BY <1>1, <2>1
<1>7. QED BY <1>2, <1>4, <1>5, <1>6

------------------------------------------------------------------------------
(* The four things an iteration can do to the error queue.                   *)
NoneRaised == errors' = errors
              /\ (log' = log \/ \E e \in Effect : e.err = {} /\ log' = Append(log, e))
OtherRaised == log' = log
               /\ \E code \in Code \ {"COMMAND"} : errors' = ErrorAdd(errors, code, byte.tag)
Answered == errors # <<>> /\ errors' = Tail(errors)
            /\ \E e \in Effect : e.kind = "errq" /\ e.err = {Head(errors)} /\ log' = Append(log, e)
CommandRaised ==
  errors' = ErrorAdd(errors, "COMMAND", byte.tag)
  /\ \E e \in Effect : e.kind = "cmd" /\ e.err = {[code |-> "COMMAND", tag |-> byte.tag]}
                       /\ log' = Append(log, e)

LEMMA ExecuteErrors ==
  ASSUME IInv, NEW unit \in Seq(Byte), Execute(unit, byte.tag), byte.tag \in Tag
  PROVE  NoneRaised \/ Answered \/ CommandRaised
<1>t. errors \in Seq(Error)
  BY Types
<1>1. CASE UNCHANGED <<errors, log>>
  BY <1>1 DEF NoneRaised
<1>2. CASE Len(unit) = 1 /\ unit[1].c = "errq" /\ ~UNCHANGED <<errors, log>>
  <2> DEFINE e == [kind |-> "errq", len |-> 0, bytes |-> unit,
                   err |-> IF errors = <<>> THEN {} ELSE {Head(errors)}]
  <2>1. log' = Append(log, e) /\ errors' = IF errors = <<>> THEN errors ELSE Tail(errors)
    BY <1>2 DEF Execute
  <2>2. errors # <<>> => Head(errors) \in Error
    BY <1>t, HeadTailProperties
  <2>3. e \in Effect /\ e.kind = "errq" /\ e.err = (IF errors = <<>> THEN {} ELSE {Head(errors)})
    BY <2>2 DEF Effect
  <2> HIDE DEF e
  <2>4. CASE errors = <<>>
    BY <2>1, <2>3, <2>4 DEF NoneRaised
  <2>5. CASE errors # <<>>
    BY <2>1, <2>3, <2>5 DEF Answered
  <2>6. QED BY <2>4, <2>5
<1>3. CASE unit # <<>> /\ ~(Len(unit) = 1 /\ unit[1].c = "errq")
  <2> DEFINE f == [code |-> "COMMAND", tag |-> byte.tag]
             e(x) == [kind |-> "cmd", len |-> 0, bytes |-> unit, err |-> x]
  <2>1. f \in Error
    BY DEF Error, Code
  <2>2. e({}) \in Effect /\ e({f}) \in Effect /\ e({}).err = {} /\ e({f}).err = {f}
        /\ e({f}).kind = "cmd"
    BY <2>1 DEF Effect
  <2>3. \/ log' = Append(log, e({})) /\ errors' = errors
        \/ log' = Append(log, e({f})) /\ errors' = ErrorAdd(errors, "COMMAND", byte.tag)
    BY <1>3 DEF Execute
  <2> HIDE DEF e
  <2>4. CASE log' = Append(log, e({})) /\ errors' = errors
    BY <2>2, <2>4 DEF NoneRaised
  <2>5. CASE log' = Append(log, e({f})) /\ errors' = ErrorAdd(errors, "COMMAND", byte.tag)
    BY <2>2, <2>5 DEF CommandRaised
  <2>6. QED BY <2>3, <2>4, <2>5
<1>4. QED BY <1>1, <1>2, <1>3 DEF Execute

LEMMA FeedErrors ==
  ASSUME IInv, NEW l \in Seq(Byte), l # <<>>, FeedLine(l, byte.tag), byte.tag \in Tag
  PROVE  NoneRaised \/ OtherRaised \/ Answered \/ CommandRaised
<1> DEFINE buf == residue \o l
           unit == SubSeq(buf, 1, Len(buf) - 1)
<1>1. unit \in Seq(Byte)
  BY Types, ConcatProperties, LenProperties
<1>2. \/ errors' = ErrorAdd(errors, "INPUT_BUFFER_OVERRUN", byte.tag) /\ log' = log
      \/ errors' = errors /\ log' = log
      \/ Execute(unit, byte.tag)
  BY DEF FeedLine
<1>3. "INPUT_BUFFER_OVERRUN" \in Code \ {"COMMAND"}
  BY DEF Code
<1> HIDE DEF unit
<1>4. CASE errors' = ErrorAdd(errors, "INPUT_BUFFER_OVERRUN", byte.tag) /\ log' = log
  BY <1>3, <1>4 DEF OtherRaised
<1>5. CASE errors' = errors /\ log' = log
  BY <1>5 DEF NoneRaised
<1>6. CASE Execute(unit, byte.tag)
  BY <1>1, <1>6, ExecuteErrors
<1>7. QED BY <1>2, <1>4, <1>5, <1>6

LEMMA IterateErrors ==
  ASSUME IInv, Iterate
  PROVE  NoneRaised \/ OtherRaised \/ Answered \/ CommandRaised
<1>it. Iterating /\ byte \in Byte /\ byte.tag \in Tag
  BY Consumed, ByteAtHand
<1>1. CASE TextLineEnd
  <2> DEFINE l == Append(line, NewLine(byte.tag))
  <2>1. NewLine(byte.tag) \in Byte
    BY <1>it DEF NewLine, Byte, Class
  <2>2. l \in Seq(Byte) /\ l # <<>>
    BY <2>1, Types, ByteAppended
  <2>3. FeedLine(l, byte.tag)
    BY <1>1 DEF TextLineEnd
  <2> HIDE DEF l
  <2>4. QED BY <1>it, <2>2, <2>3, FeedErrors
<1>2. ASSUME NEW code \in Code \ {"COMMAND"}, NEW st, Fail(code, st), log' = log
      PROVE  OtherRaised
  BY <1>2 DEF Fail, OtherRaised
<1>3. CASE TextOverflow \/ BlockBeginFails \/ BlockEmptyEndFails \/ PayloadEndFails
           \/ PayloadDataFails
  <2>1. "EXECUTION_ERROR" \in Code \ {"COMMAND"}
    BY DEF Code
  <2>2. \E st \in {"OVERFLOW", "CALLBACK"} : Fail("EXECUTION_ERROR", st) /\ log' = log
    BY <1>3 DEF TextOverflow, BlockBeginFails, BlockEmptyEndFails, PayloadEndFails,
                PayloadDataFails, appVars
  <2>3. QED BY <1>2, <2>1, <2>2
<1>4. CASE BlockBadHeader
  <2>1. "INVALID_BLOCK_DATA" \in Code \ {"COMMAND"}
    BY DEF Code
  <2>2. Fail("INVALID_BLOCK_DATA", "PROTOCOL") /\ log' = log
    BY <1>4 DEF BlockBadHeader, appVars
  <2>3. QED BY <1>2, <2>1, <2>2
<1>5. CASE BlockRefused
  <2>1. "TOO_MUCH_DATA" \in Code \ {"COMMAND"}
    BY DEF Code
  <2>2. Fail("TOO_MUCH_DATA", "OVERFLOW") /\ log' = log
    BY <1>5 DEF BlockRefused, appVars
  <2>3. QED BY <1>2, <2>1, <2>2
<1>6. CASE TextBlockStart \/ TextIgnored \/ TextStore \/ BlockDigits \/ BlockLenDigit
           \/ BlockBegins \/ PayloadMore
  <2>1. errors' = errors /\ log' = log
    BY <1>6 DEF TextBlockStart, TextIgnored, TextStore, BlockDigits, BlockLenDigit, BlockBegins,
                PayloadMore, scpiVars, appVars
  <2>2. QED BY <2>1 DEF NoneRaised
<1>7. ASSUME NEW len \in Nat, NEW bytes \in Seq(Byte), Finished(len, bytes), errors' = errors
      PROVE  NoneRaised
  <2> DEFINE e == [kind |-> "block", len |-> len, bytes |-> bytes, err |-> {}]
  <2>1. e \in Effect /\ e.err = {}
    BY DEF Effect
  <2>2. log' = Append(log, e)
    BY <1>7 DEF Finished
  <2> HIDE DEF e
  <2>3. QED BY <1>7, <2>1, <2>2 DEF NoneRaised
<1>8. CASE BlockEmpty
  <2>1. Finished(0, <<>>) /\ errors' = errors
    BY <1>8 DEF BlockEmpty, scpiVars
  <2>2. 0 \in Nat /\ <<>> \in Seq(Byte)
    BY EmptySeq
  <2>3. QED BY <1>7, <2>1, <2>2
<1>9. CASE PayloadEnds
  <2>1. Finished(blockLen, Delivered) /\ errors' = errors /\ InPayload
    BY <1>9 DEF PayloadEnds, scpiVars
  <2>2. Delivered \in Seq(Byte) /\ blockLen \in Nat
    <3>1. blk.bytes \in Seq(Byte) /\ data \in Seq(Byte) /\ blockLen \in Nat
          /\ blockReceived \in Nat
      BY Types DEF Block
    <3>2. blockReceived < blockLen
      BY <2>1, <1>it DEF IInv, BlockContract, InPayload, Iterating
    <3>3. Len(data) \in Nat /\ Chunk \in 0..Len(data)
      BY <3>1, <3>2, LenProperties DEF Chunk
    <3>4. SubSeq(data, 1, Chunk) \in Seq(Byte)
      BY <3>1, <3>3
    <3>5. QED BY <3>1, <3>4, ConcatProperties DEF Delivered
  <2>3. QED BY <1>7, <2>1, <2>2
<1>10. QED BY <1>1, <1>3, <1>4, <1>5, <1>6, <1>8, <1>9 DEF Iterate
------------------------------------------------------------------------------
(* Errors and the effects that raise and answer them.                        *)
LEMMA LogAppended ==
  ASSUME IInv, NEW e \in Effect, log' = Append(log, e)
  PROVE  /\ Len(log) \in Nat /\ Len(log') = Len(log) + 1 /\ log'[Len(log) + 1] = e
         /\ \A i \in 1..Len(log) : log'[i] = log[i]
BY Types, AppendProperties

\* An error is put behind the others, or its place taken by the overflow mark.
LEMMA ErrorAdded ==
  ASSUME IInv, NEW code \in Code, NEW tag \in Tag
  PROVE  LET q == ErrorAdd(errors, code, tag)
         IN /\ Len(q) \in Nat
            /\ \A x \in 1..Len(q) : \/ q[x].tag = tag
                                    \/ x \in 1..Len(errors) /\ q[x] = errors[x]
            /\ \/ /\ Len(q) = Len(errors) + 1 /\ q[Len(q)] = [code |-> code, tag |-> tag]
                  /\ \A x \in 1..Len(errors) : q[x] = errors[x]
               \/ Len(q) \in 1..Len(q) /\ q[Len(q)].code = "QUEUE_OVERFLOW"
            /\ \A x \in 1..Len(errors) :
                 x \in 1..Len(q)
                 /\ (errors[x].code # "COMMAND" => q[x].code # "COMMAND")
            /\ code # "COMMAND" => \E x \in 1..Len(q) : q[x].code # "COMMAND"
<1>t. errors \in Seq(Error) /\ Len(errors) \in Nat /\ Len(errors) <= ErrQueueLen
  BY Types
<1> DEFINE q == ErrorAdd(errors, code, tag)
           f == [code |-> code, tag |-> tag]
           o == [code |-> "QUEUE_OVERFLOW", tag |-> tag]
           n == Len(errors)
<1>1. f \in Error /\ o \in Error /\ f.code = code /\ f.tag = tag /\ o.tag = tag
      /\ o.code = "QUEUE_OVERFLOW"
  BY DEF Error, Code
<1>2. CASE n < ErrQueueLen
  <2>1. q = Append(errors, f)
    BY <1>2 DEF ErrorAdd
  <2> HIDE DEF q, f, o
  <2>2. Len(q) = n + 1 /\ q[n + 1] = f /\ \A x \in 1..n : q[x] = errors[x]
    BY <1>t, <1>1, <2>1, AppendProperties
  <2>3. \A x \in 1..Len(q) : x = n + 1 \/ x \in 1..n
    BY <1>t, <2>2
  <2>4. \A x \in 1..n : x \in 1..Len(q)
    BY <1>t, <2>2
  <2>5. n + 1 \in 1..Len(q)
    BY <1>t, <2>2
  <2>6. Len(q) \in Nat
    BY <1>t, <2>2
  <2>7. QED BY <1>1, <2>2, <2>3, <2>4, <2>5, <2>6 DEF q, f
<1>3. CASE ~(n < ErrQueueLen)
  <2>1. n \in 1..n
    BY <1>t, <1>3, LengthsAssumption
  <2>2. q = [errors EXCEPT ![n] = o]
    BY <1>3 DEF ErrorAdd
  <2> HIDE DEF q, f, o
  <2>3. Len(q) = n /\ \A x \in 1..n : q[x] = IF x = n THEN o ELSE errors[x]
    BY <1>t, <1>1, <2>1, <2>2, ExceptSeq
  <2>4. Len(q) \in 1..Len(q) /\ q[Len(q)] = o
    BY <2>1, <2>3
  <2>5. \A x \in 1..Len(q) : q[x].tag = tag \/ (x \in 1..n /\ q[x] = errors[x])
    BY <1>1, <2>3
  <2>6. \A x \in 1..n : x \in 1..Len(q) /\ (errors[x].code # "COMMAND" => q[x].code # "COMMAND")
    BY <1>1, <2>3
  <2>7. q[Len(q)].code = "QUEUE_OVERFLOW" /\ q[Len(q)].code # "COMMAND"
    BY <1>1, <2>4
  <2>8. QED BY <1>t, <2>3, <2>4, <2>5, <2>6, <2>7 DEF q
<1>4. QED BY <1>2, <1>3

\* The oldest error is taken off.
LEMMA ErrorTaken ==
  ASSUME IInv, errors # <<>>
  PROVE  /\ Len(errors) \in Nat \ {0} /\ Head(errors) = errors[1]
         /\ Len(Tail(errors)) = Len(errors) - 1
         /\ \A x \in 1..(Len(errors) - 1) : Tail(errors)[x] = errors[x + 1]
BY Types, HeadTailProperties

------------------------------------------------------------------------------
(* Every error is of its session.                                            *)
LEMMA OriginStep ==
  ASSUME IInv, ErrorsOfSession, NEW s, s = sess, sess' = s, byte.tag.s = s, byte.tag \in Tag,
         NoneRaised \/ OtherRaised \/ Answered \/ CommandRaised
  PROVE  ErrorsOfSession'
<1>old. /\ \A x \in 1..Len(errors) : errors[x].tag.s = s
        /\ \A i \in 1..Len(log) : \A e \in log[i].err : e.tag.s = s
  BY DEF ErrorsOfSession
<1>1. ASSUME NEW code \in Code, errors' = ErrorAdd(errors, code, byte.tag)
      PROVE  \A x \in 1..Len(errors') : errors'[x].tag.s = s
  <2>1. TAKE x \in 1..Len(errors')
  <2>2. \/ errors'[x].tag = byte.tag
        \/ x \in 1..Len(errors) /\ errors'[x] = errors[x]
    BY <1>1, ErrorAdded
  <2>3. QED BY <1>old, <2>2
<1>2. ASSUME NEW e \in Effect, log' = Append(log, e), \A f \in e.err : f.tag.s = s
      PROVE  \A i \in 1..Len(log') : \A f \in log'[i].err : f.tag.s = s
  <2>1. TAKE i \in 1..Len(log')
  <2>2. i = Len(log) + 1 \/ i \in 1..Len(log)
    BY <1>2, LogAppended
  <2>3. log'[i] = e \/ (i \in 1..Len(log) /\ log'[i] = log[i])
    BY <1>2, <2>2, LogAppended
  <2>4. QED BY <1>old, <1>2, <2>3
<1>3. CASE NoneRaised
  <2>1. \A i \in 1..Len(log') : \A f \in log'[i].err : f.tag.s = s
    BY <1>old, <1>2, <1>3 DEF NoneRaised
  <2>2. QED BY <1>old, <1>3, <2>1 DEF NoneRaised, ErrorsOfSession
<1>4. CASE OtherRaised
  BY <1>old, <1>1, <1>4 DEF OtherRaised, ErrorsOfSession
<1>5. CASE Answered
  <2>1. PICK e \in Effect : e.err = {Head(errors)} /\ log' = Append(log, e)
    BY <1>5 DEF Answered
  <2>2. errors # <<>> /\ errors' = Tail(errors)
    BY <1>5 DEF Answered
  <2>3. 1 \in 1..Len(errors) /\ Head(errors) = errors[1]
    BY <2>2, ErrorTaken
  <2>4. \A i \in 1..Len(log') : \A f \in log'[i].err : f.tag.s = s
    BY <1>old, <1>2, <2>1, <2>3
  <2>5. ASSUME NEW x \in 1..Len(errors') PROVE errors'[x].tag.s = s
    <3>1. x \in 1..(Len(errors) - 1) /\ x + 1 \in 1..Len(errors)
      BY <2>2, ErrorTaken
    <3>2. QED BY <1>old, <2>2, <3>1, ErrorTaken
  <2>6. QED BY <2>4, <2>5 DEF ErrorsOfSession
<1>6. CASE CommandRaised
  <2>1. "COMMAND" \in Code
    BY DEF Code
  <2>2. \A x \in 1..Len(errors') : errors'[x].tag.s = s
    BY <1>1, <1>6, <2>1 DEF CommandRaised
  <2>3. \A i \in 1..Len(log') : \A f \in log'[i].err : f.tag.s = s
    BY <1>2, <1>6 DEF CommandRaised
  <2>4. QED BY <2>2, <2>3 DEF ErrorsOfSession
<1>7. QED BY <1>3, <1>4, <1>5, <1>6

------------------------------------------------------------------------------
(* Ranks among the effects that fail and those that answer.                  *)

\* A set of effects that grows by the next one.
LEMMA RankGrows ==
  ASSUME NEW n \in Nat, NEW S \in SUBSET (1..n)
  PROVE  /\ Cardinality(S) \in Nat
         /\ Cardinality(S \cup {n + 1}) = Cardinality(S) + 1
         /\ \A i \in 1..n : /\ Rank(S, i) \in Nat /\ Rank(S, i) <= Cardinality(S)
                            /\ Rank(S \cup {n + 1}, i) = Rank(S, i)
         /\ Rank(S \cup {n + 1}, n + 1) = Cardinality(S) + 1
<1>1. IsFiniteSet(1..n)
  BY FS_Interval
<1>2. IsFiniteSet(S)
  BY <1>1, FS_Subset
<1>3. Cardinality(S) \in Nat
  BY <1>2, FS_CardinalityType
<1>4. n + 1 \notin S
  OBVIOUS
<1>5. Cardinality(S \cup {n + 1}) = Cardinality(S) + 1
  BY <1>2, <1>4, FS_AddElement
<1>6. ASSUME NEW i \in 1..n
      PROVE  /\ Rank(S, i) \in Nat /\ Rank(S, i) <= Cardinality(S)
             /\ Rank(S \cup {n + 1}, i) = Rank(S, i)
  <2>1. {j \in S : j <= i} \in SUBSET S
    OBVIOUS
  <2>2. IsFiniteSet({j \in S : j <= i})
        /\ Cardinality({j \in S : j <= i}) <= Cardinality(S)
    BY <1>2, <2>1, FS_Subset
  <2>3. {j \in S \cup {n + 1} : j <= i} = {j \in S : j <= i}
    OBVIOUS
  <2>4. QED BY <2>2, <2>3, FS_CardinalityType DEF Rank
<1>7. {j \in S \cup {n + 1} : j <= n + 1} = S \cup {n + 1}
  <2>1. \A j \in S \cup {n + 1} : j <= n + 1
    OBVIOUS
  <2>2. QED BY <2>1, Zenon
<1>8. QED BY <1>3, <1>5, <1>6, <1>7 DEF Rank

\* One more effect in the log.
LEMMA EffectsGrow ==
  ASSUME IInv, NEW e \in Effect, log' = Append(log, e)
  PROVE  /\ Failing \subseteq 1..Len(log) /\ Answering \subseteq 1..Len(log)
         /\ Failing' = IF e.kind = "cmd" /\ e.err # {} THEN Failing \cup {Len(log) + 1}
                       ELSE Failing
         /\ Answering' = IF e.kind = "errq" /\ e.err # {} THEN Answering \cup {Len(log) + 1}
                         ELSE Answering
<1> DEFINE n == Len(log)
<1>1. n \in Nat /\ Len(log') = n + 1 /\ log'[n + 1] = e /\ \A i \in 1..n : log'[i] = log[i]
  BY LogAppended
<1>2. 1..Len(log') = (1..n) \cup {n + 1}
  BY <1>1
<1>3. Failing' = {i \in (1..n) \cup {n + 1} : log'[i].kind = "cmd" /\ log'[i].err # {}}
  BY <1>2 DEF Failing
<1>4. Answering' = {i \in (1..n) \cup {n + 1} : log'[i].kind = "errq" /\ log'[i].err # {}}
  BY <1>2 DEF Answering
<1>5. Failing = {i \in 1..n : log[i].kind = "cmd" /\ log[i].err # {}}
      /\ Answering = {i \in 1..n : log[i].kind = "errq" /\ log[i].err # {}}
  BY DEF Failing, Answering
<1> HIDE DEF n
<1>6. Failing' = IF e.kind = "cmd" /\ e.err # {} THEN Failing \cup {n + 1} ELSE Failing
  BY ONLY <1>1, <1>3, <1>5
<1>7. Answering' = IF e.kind = "errq" /\ e.err # {} THEN Answering \cup {n + 1} ELSE Answering
  BY ONLY <1>1, <1>4, <1>5
<1>8. QED BY <1>5, <1>6, <1>7 DEF n

\* Once an error is not a command's there always is one.
LEMMA OnlyCommandsBefore ==
  ASSUME IInv, byte.tag \in Tag, NoneRaised \/ OtherRaised \/ Answered \/ CommandRaised,
         OnlyCommands'
  PROVE  OnlyCommands /\ ~OtherRaised
<1>new. /\ \A x \in 1..Len(errors') : errors'[x].code = "COMMAND"
        /\ \A i \in 1..Len(log') : \A f \in log'[i].err : f.code = "COMMAND"
  BY DEF OnlyCommands
<1>1. ASSUME NEW code \in Code, errors' = ErrorAdd(errors, code, byte.tag)
      PROVE  code = "COMMAND" /\ \A x \in 1..Len(errors) : errors[x].code = "COMMAND"
  BY <1>new, <1>1, ErrorAdded
<1>2. ~OtherRaised
  BY <1>1 DEF OtherRaised
<1>3. \A i \in 1..Len(log) : \A f \in log[i].err : f.code = "COMMAND"
  <2>1. CASE log' = log
    BY <1>new, <2>1
  <2>2. ASSUME NEW e \in Effect, log' = Append(log, e)
        PROVE  \A i \in 1..Len(log) : \A f \in log[i].err : f.code = "COMMAND"
    <3>1. TAKE i \in 1..Len(log)
    <3>2. i \in 1..Len(log') /\ log'[i] = log[i]
      BY <2>2, LogAppended
    <3>3. QED BY <1>new, <3>2
  <2>3. log' = log \/ \E e \in Effect : log' = Append(log, e)
    BY DEF NoneRaised, OtherRaised, Answered, CommandRaised
  <2>4. QED BY <2>1, <2>2, <2>3
<1>4. \A x \in 1..Len(errors) : errors[x].code = "COMMAND"
  <2>1. CASE errors' = errors
    BY <1>new, <2>1
  <2>2. CASE CommandRaised
    <3>1. "COMMAND" \in Code
      BY DEF Code
    <3>2. QED BY <1>1, <2>2, <3>1 DEF CommandRaised
  <2>3. CASE Answered
    <3>1. PICK e \in Effect : e.err = {Head(errors)} /\ log' = Append(log, e)
      BY <2>3 DEF Answered
    <3>2. errors # <<>> /\ errors' = Tail(errors)
      BY <2>3 DEF Answered
    <3>3. Len(log) + 1 \in 1..Len(log') /\ log'[Len(log) + 1] = e
      BY <3>1, LogAppended
    <3>4. Head(errors).code = "COMMAND"
      BY <1>new, <3>1, <3>3
    <3>5. TAKE x \in 1..Len(errors)
    <3>6. CASE x = 1
      BY <3>2, <3>4, <3>6, ErrorTaken
    <3>7. CASE x # 1
      <4>1. x - 1 \in 1..(Len(errors) - 1) /\ (x - 1) + 1 = x
        BY <3>2, <3>7, ErrorTaken
      <4>2. errors'[x - 1] = errors[x] /\ x - 1 \in 1..Len(errors')
        BY <3>2, <4>1, ErrorTaken
      <4>3. QED BY <1>new, <4>2
    <3>8. QED BY <3>6, <3>7
  <2>4. QED BY <1>2, <2>1, <2>2, <2>3 DEF NoneRaised
<1>5. QED BY <1>2, <1>3, <1>4 DEF OnlyCommands

\* The answers keep to the order of the failures.
LEMMA OrderStep ==
  ASSUME IInv, byte.tag \in Tag, NoneRaised \/ OtherRaised \/ Answered \/ CommandRaised,
         OnlyCommands => AnsweredInOrder, OnlyCommands'
  PROVE  AnsweredInOrder'
<1> DEFINE n == Len(log)
           F == Failing
           A == Answering
           c == Cardinality(A)
<1>t. n \in Nat /\ Len(errors) \in Nat /\ errors \in Seq(Error) /\ Len(errors) <= ErrQueueLen
  BY Types
<1>sub. F \in SUBSET (1..n) /\ A \in SUBSET (1..n)
  BY DEF Failing, Answering
<1>old. /\ ~OtherRaised /\ Cardinality(F) = c + Len(errors)
        /\ \A i \in F :
             /\ \A j \in A : Rank(A, j) = Rank(F, i) => i < j /\ log[j].err = log[i].err
             /\ Rank(F, i) > c => log[i].err = {errors[Rank(F, i) - c]}
  BY OnlyCommandsBefore DEF AnsweredInOrder
<1>card. /\ c \in Nat /\ Cardinality(F) \in Nat
         /\ \A i \in 1..n : /\ Rank(F, i) \in Nat /\ Rank(F, i) <= Cardinality(F)
                            /\ Rank(A, i) \in Nat /\ Rank(A, i) <= c
  BY <1>t, <1>sub, RankGrows
<1> HIDE DEF n, F, A, c
<1>1. CASE NoneRaised
  <2>1. CASE log' = log
    <3>1. Failing' = F /\ Answering' = A
      BY <2>1 DEF Failing, Answering, F, A
    <3>2. errors' = errors
      BY <1>1 DEF NoneRaised
    <3>3. QED BY <1>old, <2>1, <3>1, <3>2 DEF AnsweredInOrder, c
  <2>2. ASSUME NEW e \in Effect, e.err = {}, log' = Append(log, e) PROVE AnsweredInOrder'
    <3>1. Failing' = F /\ Answering' = A
      BY <2>2, EffectsGrow DEF F, A
    <3>2. errors' = errors
      BY <1>1 DEF NoneRaised
    <3>3. \A i \in 1..n : log'[i] = log[i]
      BY <2>2, LogAppended DEF n
    <3>4. \A i \in F : log'[i] = log[i]
      BY <1>sub, <3>3
    <3>5. \A i \in A : log'[i] = log[i]
      BY <1>sub, <3>3
    <3>6. QED BY <1>old, <3>1, <3>2, <3>4, <3>5 DEF AnsweredInOrder, c
  <2>3. QED BY <1>1, <2>1, <2>2 DEF NoneRaised
<1>2. CASE Answered
  <2>1. PICK e \in Effect : e.kind = "errq" /\ e.err = {Head(errors)} /\ log' = Append(log, e)
    BY <1>2 DEF Answered
  <2>2. /\ Len(errors) \in Nat \ {0} /\ Head(errors) = errors[1]
        /\ Len(errors') = Len(errors) - 1
        /\ \A x \in 1..(Len(errors) - 1) : errors'[x] = errors[x + 1]
    BY <1>2, ErrorTaken DEF Answered
  <2>3. Failing' = F /\ Answering' = A \cup {n + 1}
    BY <2>1, EffectsGrow DEF F, A, n
  <2>4. log'[n + 1] = e /\ \A i \in 1..n : log'[i] = log[i]
    BY <2>1, LogAppended DEF n
  <2>5. /\ Cardinality(A \cup {n + 1}) = c + 1 /\ Rank(A \cup {n + 1}, n + 1) = c + 1
        /\ \A j \in 1..n : Rank(A \cup {n + 1}, j) = Rank(A, j)
    BY <1>t, <1>sub, RankGrows DEF c
  <2>6. Cardinality(F) = (c + 1) + Len(errors')
    BY <1>old, <1>card, <2>2
  <2>7. ASSUME NEW i \in F, NEW j \in A \cup {n + 1}, Rank(A \cup {n + 1}, j) = Rank(F, i)
        PROVE  i < j /\ log'[j].err = log'[i].err
    <3>1. i \in 1..n /\ log'[i] = log[i]
      BY <1>sub, <2>4
    <3>2. CASE j \in A
      <4>1. j \in 1..n /\ log'[j] = log[j] /\ Rank(A, j) = Rank(F, i)
        BY <1>sub, <2>4, <2>5, <2>7, <3>2
      <4>2. QED BY <1>old, <3>1, <3>2, <4>1
    <3>3. CASE j = n + 1
      <4>1. Rank(F, i) = c + 1
        BY <2>5, <2>7, <3>3
      <4>2. Rank(F, i) > c /\ Rank(F, i) - c = 1
        BY <1>card, <4>1
      <4>3. log[i].err = {errors[1]}
        BY <1>old, <4>2
      <4>4. i < n + 1
        BY <1>t, <3>1 DEF n
      <4>5. QED BY <2>1, <2>2, <2>4, <3>1, <3>3, <4>3, <4>4
    <3>4. QED BY <3>2, <3>3
  <2>8. ASSUME NEW i \in F, Rank(F, i) > c + 1
        PROVE  log'[i].err = {errors'[Rank(F, i) - (c + 1)]}
    <3>1. i \in 1..n /\ log'[i] = log[i]
      BY <1>sub, <2>4
    <3>2. Rank(F, i) \in Nat /\ Rank(F, i) <= c + Len(errors)
      BY <1>old, <1>card, <3>1
    <3>3. /\ Rank(F, i) > c /\ Rank(F, i) - (c + 1) \in 1..(Len(errors) - 1)
          /\ (Rank(F, i) - (c + 1)) + 1 = Rank(F, i) - c
      BY <1>card, <1>t, <2>8, <3>2
    <3>4. log[i].err = {errors[Rank(F, i) - c]}
      BY <1>old, <3>3
    <3>5. errors'[Rank(F, i) - (c + 1)] = errors[Rank(F, i) - c]
      BY <2>2, <3>3
    <3>6. QED BY <3>1, <3>4, <3>5
  <2>9. QED BY <2>3, <2>5, <2>6, <2>7, <2>8 DEF AnsweredInOrder
<1>3. CASE CommandRaised
  <2> DEFINE f == [code |-> "COMMAND", tag |-> byte.tag]
  <2>1. PICK e \in Effect : e.kind = "cmd" /\ e.err = {f} /\ log' = Append(log, e)
    BY <1>3 DEF CommandRaised
  <2>2. errors' = ErrorAdd(errors, "COMMAND", byte.tag) /\ "COMMAND" \in Code
    BY <1>3 DEF CommandRaised, Code
  <2>3. /\ Len(errors') = Len(errors) + 1 /\ errors'[Len(errors')] = f
        /\ \A x \in 1..Len(errors) : errors'[x] = errors[x]
    <3>1. \/ /\ Len(errors') = Len(errors) + 1 /\ errors'[Len(errors')] = f
             /\ \A x \in 1..Len(errors) : errors'[x] = errors[x]
          \/ Len(errors') \in 1..Len(errors') /\ errors'[Len(errors')].code = "QUEUE_OVERFLOW"
      BY <2>2, ErrorAdded
    <3>2. QED BY <3>1 DEF OnlyCommands
  <2> HIDE DEF f
  <2>4. Failing' = F \cup {n + 1} /\ Answering' = A
    BY <2>1, EffectsGrow DEF F, A, n
  <2>5. log'[n + 1] = e /\ \A i \in 1..n : log'[i] = log[i]
    BY <2>1, LogAppended DEF n
  <2>6. /\ Cardinality(F \cup {n + 1}) = Cardinality(F) + 1
        /\ Rank(F \cup {n + 1}, n + 1) = Cardinality(F) + 1
        /\ \A j \in 1..n : Rank(F \cup {n + 1}, j) = Rank(F, j)
    BY <1>t, <1>sub, RankGrows
  <2>7. Cardinality(F \cup {n + 1}) = c + Len(errors')
    BY <1>old, <1>card, <1>t, <2>3, <2>6
  <2>8. ASSUME NEW i \in F \cup {n + 1}, NEW j \in A, Rank(A, j) = Rank(F \cup {n + 1}, i)
        PROVE  i < j /\ log'[j].err = log'[i].err
    <3>1. j \in 1..n /\ log'[j] = log[j] /\ Rank(A, j) \in Nat /\ Rank(A, j) <= c
      BY <1>sub, <1>card, <2>5
    <3>2. CASE i \in F
      <4>1. i \in 1..n /\ log'[i] = log[i] /\ Rank(A, j) = Rank(F, i)
        BY <1>sub, <2>5, <2>6, <2>8, <3>2
      <4>2. QED BY <1>old, <3>1, <3>2, <4>1
    <3>3. CASE i = n + 1
      <4>1. Rank(A, j) = Cardinality(F) + 1
        BY <2>6, <2>8, <3>3
      <4>2. QED BY <1>old, <1>card, <1>t, <3>1, <4>1
    <3>4. QED BY <3>2, <3>3
  <2>9. ASSUME NEW i \in F \cup {n + 1}, Rank(F \cup {n + 1}, i) > c
        PROVE  log'[i].err = {errors'[Rank(F \cup {n + 1}, i) - c]}
    <3>1. CASE i \in F
      <4>1. i \in 1..n /\ log'[i] = log[i] /\ Rank(F \cup {n + 1}, i) = Rank(F, i)
        BY <1>sub, <2>5, <2>6, <3>1
      <4>2. Rank(F, i) \in Nat /\ Rank(F, i) <= c + Len(errors) /\ Rank(F, i) > c
        BY <1>old, <1>card, <2>9, <4>1
      <4>3. Rank(F, i) - c \in 1..Len(errors)
        BY <1>card, <1>t, <4>2
      <4>4. errors'[Rank(F, i) - c] = errors[Rank(F, i) - c]
        BY <2>3, <4>3
      <4>5. QED BY <1>old, <3>1, <4>1, <4>2, <4>4
    <3>2. CASE i = n + 1
      <4>1. Rank(F \cup {n + 1}, i) = (c + Len(errors)) + 1
        BY <1>old, <2>6, <3>2
      <4>2. Rank(F \cup {n + 1}, i) - c = Len(errors')
        BY <1>card, <1>t, <2>3, <4>1
      <4>3. QED BY <2>1, <2>3, <2>5, <3>2, <4>2
    <3>3. QED BY <3>1, <3>2
  <2>10. QED BY <2>4, <2>7, <2>8, <2>9 DEF AnsweredInOrder, c
<1>4. QED BY <1>old, <1>1, <1>2, <1>3

------------------------------------------------------------------------------
(* The invariant of a session: what is on its way is its own.                *)

\* How much of the stream recv() has returned, and how much is consumed.
Mark == sent - Len(wire)
Pos  == Mark - Len(data)
OfClient == Stream(script, sess)

ServerTypes ==
  /\ conn \in {"none", "open"} /\ sess \in {0, 1} /\ sent \in Nat /\ wire \in Seq(Byte)
  /\ faulted \in BOOLEAN /\ inherited \in BOOLEAN /\ eom = FALSE
  /\ ~inCall => data = <<>>
  /\ conn = "open" => script \in Scripts /\ sent <= Len(script.bytes)

\* Nothing is left of a session when the next client connects, but what
\* libscpi holds.
NothingLeft ==
  conn = "none" => /\ mode = "TEXT" /\ line = <<>> /\ errors = <<>> /\ log = <<>>
                   /\ ~inCall /\ wire = <<>> /\ ~faulted

OnItsWay ==
  /\ conn = "open" => Len(wire) <= sent /\ wire = Cut(OfClient, Mark, sent)
  /\ \A x \in 1..Len(data) : data[x].tag.s = sess

SessionInv ==
  IInv /\ ServerTypes /\ NothingLeft /\ OnItsWay /\ ErrorsReachTheirSession

\* Without errors and effects there is nothing to answer.
LEMMA NothingToAnswer == errors = <<>> /\ log = <<>> => ErrorsReachTheirSession
<1> SUFFICES ASSUME errors = <<>>, log = <<>> PROVE ErrorsReachTheirSession
  OBVIOUS
<1>1. Len(errors) = 0 /\ Len(log) = 0
  BY EmptySeq
<1>2. 1..Len(errors) = {} /\ 1..Len(log) = {}
  BY <1>1
<1>3. Failing = {} /\ Answering = {}
  BY <1>2 DEF Failing, Answering
<1>4. Cardinality(Failing) = 0 /\ Cardinality(Answering) = 0
  BY <1>3, FS_EmptySet
<1>5. Cardinality(Failing) = Cardinality(Answering) + Len(errors)
  BY <1>1, <1>4
<1>6. AnsweredInOrder
  BY <1>3, <1>5 DEF AnsweredInOrder
<1>7. ErrorsOfSession
  BY <1>2 DEF ErrorsOfSession
<1>8. QED BY <1>6, <1>7 DEF ErrorsReachTheirSession

LEMMA ServerStarts == ServerInit => SessionInv
<1> SUFFICES ASSUME ServerInit PROVE SessionInv
  OBVIOUS
<1>1. Init /\ IInv
  BY InitInv DEF ServerInit
<1>2. <<>> \in Seq(Byte) /\ Len(<<>>) = 0 /\ 1..Len(<<>>) = {}
  BY EmptySeq
<1>3. ServerTypes /\ NothingLeft /\ OnItsWay
  BY <1>1, <1>2 DEF ServerInit, Init, ServerTypes, NothingLeft, OnItsWay
<1>4. ErrorsReachTheirSession
  BY <1>1, NothingToAnswer DEF Init
<1>5. QED BY <1>1, <1>3, <1>4 DEF SessionInv

\* What the errors' property is about has not changed.
LEMMA ErrorsSame ==
  ASSUME ErrorsReachTheirSession, UNCHANGED <<errors, log, sess>>
  PROVE  ErrorsReachTheirSession'
<1>1. Failing' = Failing /\ Answering' = Answering
  BY DEF Failing, Answering
<1>2. AnsweredInOrder => AnsweredInOrder'
  BY <1>1 DEF AnsweredInOrder
<1>3. QED BY <1>2 DEF ErrorsReachTheirSession, ErrorsOfSession, OnlyCommands

LEMMA SessionStep == SessionInv /\ [ServerNext]_serverVars => SessionInv'
<1> SUFFICES ASSUME SessionInv, [ServerNext]_serverVars PROVE SessionInv'
  OBVIOUS
<1>old. IInv /\ ServerTypes /\ NothingLeft /\ OnItsWay /\ ErrorsReachTheirSession
  BY DEF SessionInv
<1>t. /\ data \in Seq(Byte) /\ Len(data) \in Nat /\ wire \in Seq(Byte) /\ Len(wire) \in Nat
      /\ sent \in Nat
  BY <1>old, Types, LenProperties DEF ServerTypes
<1>empty. <<>> \in Seq(Byte) /\ Len(<<>>) = 0 /\ 1..Len(<<>>) = {}
  BY EmptySeq
<1>client. ASSUME conn = "open"
      PROVE  /\ OfClient \in Seq(Byte) /\ Len(OfClient) = Len(script.bytes)
             /\ sent <= Len(OfClient) /\ Mark \in Nat /\ Mark <= sent
             /\ sent - Mark = Len(wire)
             /\ \A x \in 1..Len(OfClient) : OfClient[x].tag.s = sess
             /\ Len(OfClient) \in Nat
  <2>1. script \in Scripts /\ sess \in {0, 1} /\ sent <= Len(script.bytes) /\ Len(wire) <= sent
    BY <1>old, <1>client DEF ServerTypes, OnItsWay
  <2>2. /\ OfClient \in Seq(Byte) /\ Len(OfClient) = Len(script.bytes)
        /\ \A x \in 1..Len(OfClient) : OfClient[x].tag.s = sess
        /\ Len(OfClient) \in Nat
    BY <2>1, StreamIs DEF OfClient
  <2>3. Mark \in Nat /\ Mark <= sent /\ sent - Mark = Len(wire)
    BY <1>t, <2>1 DEF Mark
  <2>4. QED BY <2>1, <2>2, <2>3
<1>1. CASE Accept
  <2>1. /\ conn = "none" /\ conn' = "open" /\ sess' = 1 - sess /\ script' \in Scripts
        /\ sent' \in 0..Len(script'.bytes)
        /\ wire' = Cut(Stream(script', sess'), 0, sent')
        /\ inherited' = (residue # <<>>) /\ UNCHANGED vars /\ faulted' = faulted
    BY <1>1 DEF Accept
  <2>2. IInv'
    BY <1>old, <2>1, StepInv
  <2>3. sess' \in {0, 1}
    BY <1>old, <2>1 DEF ServerTypes
  <2>4. /\ Stream(script', sess') \in Seq(Byte)
        /\ Len(Stream(script', sess')) = Len(script'.bytes) /\ Len(script'.bytes) \in Nat
    BY <2>1, <2>3, StreamIs
  <2>5. sent' \in Nat /\ 0 <= sent' /\ sent' <= Len(script'.bytes) /\ sent' - 0 = sent'
    <3>1. \A b \in Nat : \A a \in 0..b : a \in Nat /\ 0 <= a /\ a <= b /\ a - 0 = a
      OBVIOUS
    <3>2. QED BY ONLY <2>1, <2>4, <3>1, Zenon
  <2>6. wire' \in Seq(Byte) /\ Len(wire') = sent'
    BY <2>1, <2>4, <2>5, CutFacts
  <2>7. UNCHANGED <<mode, line, errors, log, inCall, data, eom>>
    BY <2>1 DEF vars, rxVars, scpiVars, callVars, appVars
  <2>8. /\ ~inCall /\ data = <<>> /\ errors = <<>> /\ log = <<>>
    BY <1>old, <2>1 DEF NothingLeft, ServerTypes
  <2>9. ServerTypes'
    <3>1. inherited' \in BOOLEAN /\ faulted' \in BOOLEAN
      BY <1>old, <2>1 DEF ServerTypes
    <3>2. eom' = FALSE /\ data' = <<>>
      BY <1>old, <2>7, <2>8 DEF ServerTypes
    <3>3. QED BY <2>1, <2>3, <2>5, <2>6, <3>1, <3>2 DEF ServerTypes
  <2>10. NothingLeft'
    BY <2>1 DEF NothingLeft
  <2>11. OnItsWay'
    <3>1. Mark' = 0
      <4>1. Mark' = sent' - Len(wire')
        BY DEF Mark
      <4>2. \A a \in Nat : a - a = 0
        OBVIOUS
      <4>3. QED BY ONLY <2>5, <2>6, <4>1, <4>2, Zenon
    <3>2. Len(wire') <= sent' /\ wire' = Cut(OfClient', Mark', sent')
      BY <2>1, <2>5, <2>6, <3>1 DEF OfClient
    <3>3. data' = <<>>
      BY <2>7, <2>8
    <3>4. QED BY <1>empty, <3>2, <3>3 DEF OnItsWay
  <2>12. ErrorsReachTheirSession'
    <3>1. errors' = <<>> /\ log' = <<>>
      BY <2>7, <2>8
    <3>2. (errors = <<>> /\ log = <<>> => ErrorsReachTheirSession)'
      BY NothingToAnswer, PTL
    <3>3. QED BY <3>1, <3>2
  <2>13. QED BY <2>2, <2>9, <2>10, <2>11, <2>12 DEF SessionInv
<1>2. CASE Recv
  <2>0. /\ conn = "open"
        /\ \E n \in 1..(IF Len(wire) < MaxChunk THEN Len(wire) ELSE MaxChunk) :
             /\ OnRxEnter(Cut(wire, 0, n), FALSE)
             /\ wire' = Cut(wire, n, Len(wire))
        /\ UNCHANGED <<sessionVars, faulted>>
    BY <1>2 DEF Recv
  <2>1. PICK n \in 1..(IF Len(wire) < MaxChunk THEN Len(wire) ELSE MaxChunk) :
             /\ OnRxEnter(Cut(wire, 0, n), FALSE)
             /\ wire' = Cut(wire, n, Len(wire))
    BY <2>0
  <2>2. n \in Nat /\ n <= Len(wire) /\ 0 <= n
    BY <1>t, ChunkAssumption
  <2>3. /\ Cut(wire, 0, n) \in Seq(Byte) /\ Len(Cut(wire, 0, n)) = n - 0
        /\ \A x \in 1..(n - 0) : Cut(wire, 0, n)[x] = wire[0 + x]
    BY <1>t, <2>2, CutFacts
  <2>4. IInv'
    BY <1>old, <2>1, <2>3, EnterInv
  <2>5. /\ inCall' = TRUE /\ data' = Cut(wire, 0, n) /\ eom' = FALSE
        /\ UNCHANGED <<errors, log>>
    BY <2>1 DEF OnRxEnter, scpiVars, appVars
  <2>6. UNCHANGED <<conn, sess, script, sent, inherited, faulted>>
    BY <2>0 DEF sessionVars
  <2>7. wire' \in Seq(Byte) /\ Len(wire') = Len(wire) - n
    BY <1>t, <2>1, <2>2, CutEnd
  <2>8. ServerTypes'
    BY <1>old, <2>0, <2>5, <2>6, <2>7 DEF ServerTypes
  <2>9. NothingLeft'
    BY <2>0, <2>6 DEF NothingLeft
  <2>10. wire = Cut(OfClient, Mark, sent)
    BY <1>old, <2>0 DEF OnItsWay
  <2>11. Mark' = Mark + n /\ Len(wire') <= sent' /\ Mark + Len(wire) = sent
    BY <1>t, <1>client, <2>0, <2>2, <2>6, <2>7 DEF Mark
  <2>12. wire' = Cut(OfClient', Mark', sent')
    <3>1. n <= Len(wire) /\ Len(wire) <= sent - Mark
      BY <1>client, <2>0, <2>2, <1>t
    <3>2. Cut(Cut(OfClient, Mark, sent), n, Len(wire)) = Cut(OfClient, Mark + n, Mark + Len(wire))
      BY <1>client, <1>t, <2>0, <2>2, <3>1, CutCut
    <3>3. OfClient' = OfClient
      BY <2>6 DEF OfClient
    <3>4. QED BY <2>1, <2>6, <2>10, <2>11, <3>2, <3>3
  <2>13. ASSUME NEW x \in 1..Len(data') PROVE data'[x].tag.s = sess'
    <3>1. x \in 1..(n - 0) /\ 0 + x = x /\ x \in 1..(sent - Mark) /\ Mark + x \in 1..Len(OfClient)
      BY <1>client, <1>t, <2>0, <2>2, <2>3, <2>5
    <3>2. data'[x] = wire[x]
      BY <2>3, <2>5, <3>1
    <3>3. wire[x] = OfClient[Mark + x]
      <4>1. \A y \in 1..(sent - Mark) : Cut(OfClient, Mark, sent)[y] = OfClient[Mark + y]
        BY <1>client, <1>t, <2>0, CutFacts, ZenonT(30)
      <4>2. QED BY <2>10, <3>1, <4>1, Zenon
    <3>4. QED BY <1>client, <2>0, <2>6, <3>1, <3>2, <3>3
  <2>14. OnItsWay'
    BY <2>11, <2>12, <2>13 DEF OnItsWay
  <2>15. ErrorsReachTheirSession'
    BY <1>old, <2>5, <2>6, ErrorsSame
  <2>16. QED BY <2>4, <2>8, <2>9, <2>14, <2>15 DEF SessionInv
<1>3. CASE OnRxStep
  <2>0. /\ Iterate \/ OnRxReturn
        /\ faulted' = (faulted \/ StreamFault)
        /\ UNCHANGED <<conn, sess, script, sent, inherited, wire>>
    BY <1>3 DEF OnRxStep, sessionVars
  <2>1. IInv'
    BY <1>old, <2>0, StepInv DEF Next
  <2>2. inCall
    BY <1>old, <2>0, Consumed, ByteAtHand DEF OnRxReturn
  <2>3. conn = "open"
    BY <1>old, <2>2 DEF NothingLeft, ServerTypes
  <2>4. NothingLeft'
    BY <2>0, <2>3 DEF NothingLeft
  <2>5. OfClient' = OfClient /\ Mark' = Mark
    BY <2>0 DEF OfClient, Mark
  <2>6. faulted' \in BOOLEAN
    BY <1>old, <2>0 DEF ServerTypes, StreamFault
  <2>7. CASE Iterate
    <3>1. inCall' = inCall /\ eom' = eom /\ Iterating
      BY <1>old, <2>7, Consumed
    <3>2. ServerTypes'
      BY <1>old, <2>0, <2>2, <2>3, <2>6, <3>1 DEF ServerTypes
    <3>3. PICK m \in 0..Len(data) : data' = Cut(data, m, Len(data))
      BY <1>old, <2>7, Consumed
    <3>4. /\ Len(data') = Len(data) - m
          /\ \A x \in 1..(Len(data) - m) : data'[x] = data[m + x]
      BY <1>t, <3>3, CutEnd
    <3>5. ASSUME NEW x \in 1..Len(data') PROVE data'[x].tag.s = sess'
      <4>1. x \in 1..(Len(data) - m) /\ m + x \in 1..Len(data)
        BY <1>t, <3>4
      <4>2. QED BY <1>old, <2>0, <3>4, <4>1 DEF OnItsWay
    <3>6. OnItsWay'
      BY <1>old, <2>0, <2>5, <3>5 DEF OnItsWay
    <3>7. byte.tag \in Tag /\ byte.tag.s = sess
      <4>1. byte.tag \in Tag /\ byte = data[1] /\ 1 \in 1..Len(data)
        BY <1>old, <3>1, ByteAtHand
      <4>2. QED BY <1>old, <4>1 DEF OnItsWay
    <3>8. NoneRaised \/ OtherRaised \/ Answered \/ CommandRaised
      BY <1>old, <2>7, IterateErrors
    <3>9. ErrorsOfSession'
      BY <1>old, <2>0, <3>7, <3>8, OriginStep DEF ErrorsReachTheirSession
    <3>10. OnlyCommands' => AnsweredInOrder'
      BY <1>old, <3>7, <3>8, OrderStep DEF ErrorsReachTheirSession
    <3>11. QED
      BY <2>1, <2>4, <3>2, <3>6, <3>9, <3>10 DEF SessionInv, ErrorsReachTheirSession
  <2>8. CASE OnRxReturn
    <3>1. /\ data' = <<>> /\ inCall' = FALSE /\ eom' = FALSE
      BY <2>8 DEF OnRxReturn
    <3>2. UNCHANGED <<errors, log>>
      BY <1>old, <2>8 DEF OnRxReturn, ServerTypes, scpiVars
    <3>3. ServerTypes'
      BY <1>old, <2>0, <2>3, <2>6, <3>1 DEF ServerTypes
    <3>4. OnItsWay'
      BY <1>old, <1>empty, <2>0, <2>5, <3>1 DEF OnItsWay
    <3>5. ErrorsReachTheirSession'
      BY <1>old, <2>0, <3>2, ErrorsSame
    <3>6. QED BY <2>1, <2>4, <3>3, <3>4, <3>5 DEF SessionInv
  <2>9. QED BY <2>0, <2>7, <2>8
<1>4. CASE Hangup
  <2>0. /\ conn = "open" /\ wire = <<>> /\ Clear
        /\ conn' = "none" /\ script' = NoScript /\ sent' = 0 /\ inherited' = FALSE
        /\ faulted' = FALSE /\ sess' = sess /\ wire' = wire
    BY <1>4 DEF Hangup
  <2>1. IInv'
    BY <1>old, <2>0, StepInv DEF Next
  <2>2. /\ ~inCall /\ mode' = "TEXT" /\ line' = <<>> /\ errors' = <<>> /\ log' = <<>>
        /\ inCall' = inCall /\ eom' = eom /\ data' = data
    BY <2>0 DEF Clear, callVars
  <2>3. data' = <<>>
    BY <1>old, <2>2 DEF ServerTypes
  <2>4. ServerTypes'
    BY <1>old, <1>empty, <2>0, <2>2, <2>3 DEF ServerTypes
  <2>5. NothingLeft'
    BY <2>0, <2>2 DEF NothingLeft
  <2>6. OnItsWay'
    BY <1>empty, <2>0, <2>3 DEF OnItsWay
  <2>7. ErrorsReachTheirSession'
    <3>1. (errors = <<>> /\ log = <<>> => ErrorsReachTheirSession)'
      BY NothingToAnswer, PTL
    <3>2. QED BY <2>2, <3>1
  <2>8. QED BY <2>1, <2>4, <2>5, <2>6, <2>7 DEF SessionInv
<1>5. CASE UNCHANGED serverVars
  <2>1. UNCHANGED <<vars, conn, sess, script, sent, inherited, wire, faulted>>
    BY <1>5 DEF serverVars, sessionVars
  <2>2. UNCHANGED <<mode, line, errors, log, inCall, data, eom>>
    BY <2>1 DEF vars, rxVars, scpiVars, callVars, appVars
  <2>3. IInv'
    BY <1>old, <2>1, StepInv
  <2>4. ServerTypes' /\ NothingLeft'
    BY <1>old, <2>1, <2>2 DEF ServerTypes, NothingLeft
  <2>5. OnItsWay'
    BY <1>old, <2>1, <2>2 DEF OnItsWay, OfClient, Mark
  <2>6. ErrorsReachTheirSession'
    BY <1>old, <2>1, <2>2, ErrorsSame
  <2>7. QED BY <2>3, <2>4, <2>5, <2>6 DEF SessionInv
<1>6. QED BY <1>1, <1>2, <1>3, <1>4, <1>5 DEF ServerNext

LEMMA SessionAlways == ServerSpec => []SessionInv
<1>1. SessionInv /\ [ServerNext]_serverVars => SessionInv'
  BY SessionStep
<1>2. QED BY ServerStarts, <1>1, PTL DEF ServerSpec

\* Every error a client hears of is its own, and as long as only commands fail
\* it reads them one by one in the order they arose (usbscpi_clear between
\* sessions, feed_line, SCPI_ErrorPop), for queues and scripts of any size.
THEOREM ErrorsStayInTheirSession == ServerSpec => []ErrorsReachTheirSession
<1>1. SessionInv => ErrorsReachTheirSession
  BY DEF SessionInv
<1>2. QED BY SessionAlways, <1>1, PTL

------------------------------------------------------------------------------
(* What the device has executed is what the client's script means.           *)

\* The buffer is the part of the stream between what is consumed and what is
\* received, as long as usbscpi_on_rx has not given up.
InStep ==
  conn = "open" /\ ~faulted => /\ status = "OK" /\ Len(data) <= Mark
                               /\ data = Cut(OfClient, Pos, Mark)

\* The effects so far are the first the script means.
LogKept ==
  /\ Len(log) <= Len(script.means)
  /\ \A i \in 1..Len(log) :
       [kind |-> log[i].kind, bytes |-> Bare(log[i].bytes)] = script.means[i]

Fresh == mode = "TEXT" /\ line = <<>> /\ residue = <<>>

\* Within a unit: libscpi holds its complete lines, line_buf the rest of its
\* text so far.
Held(p) == IF Pos < p.from + p.text THEN Pos ELSE p.from + p.text
InUnit(p) ==
  /\ mode = "TEXT"
  /\ \E i \in p.from..Held(p) :
       /\ LineFrom(OfClient, p.from, i, Held(p))
       /\ residue = Cut(OfClient, p.from, i) /\ line = Cut(OfClient, i, Held(p))

\* Within an upload, by the offset from its beginning.
Width(p) == OfClient[p.from + 3].v
AtPrefix(p) == Pos = p.from /\ mode = "TEXT" /\ line = <<>>
AtHash(p) == Pos = p.from + 1 /\ mode = "TEXT" /\ line = Cut(OfClient, p.from, p.from + 1)
AtDigits(p) == Pos = p.from + 2 /\ mode = "BLOCK_DIGITS"
InLength(p) ==
  \E g \in 0..(Width(p) - 1) :
    /\ Pos = p.from + 3 + g /\ mode = "BLOCK_LEN"
    /\ ndigits = Width(p) /\ gotDigits = g /\ blockLen = p.value[g]
InPayloadOf(p) ==
  LET b == p.from + 3 + Width(p)
  IN /\ b <= Pos /\ mode = "BLOCK_PAYLOAD" /\ blockLen = p.value[Width(p)]
     /\ blockReceived = Pos - b /\ blk.bytes = Cut(OfClient, b, Pos)
InBlock(p) ==
  residue = <<>> /\ (AtPrefix(p) \/ AtHash(p) \/ AtDigits(p) \/ InLength(p) \/ InPayloadOf(p))

At(k) ==
  LET p == script.pieces[k]
  IN /\ p.from <= Pos /\ Pos < p.upto /\ Len(log) = p.did
     /\ IF p.block THEN InBlock(p) ELSE InUnit(p)
AtEnd == Fresh /\ Pos = Len(script.bytes) /\ Len(log) = Len(script.means)
Tracked == AtEnd \/ \E k \in 1..Len(script.pieces) : At(k)

ServerInv ==
  /\ SessionInv /\ InStep
  /\ conn = "open" /\ ~faulted /\ ~inherited => LogKept /\ Tracked

------------------------------------------------------------------------------
\* What is known of the script of the session.
LEMMA Client ==
  ASSUME SessionInv, conn = "open"
  PROVE  /\ script \in Scripts /\ sess \in {0, 1}
         /\ OfClient \in Seq(Byte) /\ Len(OfClient) = Len(script.bytes)
         /\ Len(OfClient) \in Nat /\ sent \in Nat /\ sent <= Len(OfClient)
         /\ Mark \in Nat /\ Mark <= sent /\ Mark <= Len(OfClient)
<1>1. /\ script \in Scripts /\ sess \in {0, 1} /\ sent <= Len(script.bytes) /\ Len(wire) <= sent
      /\ sent \in Nat /\ wire \in Seq(Byte)
  BY DEF SessionInv, ServerTypes, OnItsWay
<1>2. OfClient \in Seq(Byte) /\ Len(OfClient) = Len(script.bytes) /\ Len(script.bytes) \in Nat
  BY <1>1, StreamIs DEF OfClient
<1>3. Len(wire) \in Nat
  BY <1>1, LenProperties
<1>4. Mark \in Nat /\ Mark <= sent
  BY <1>1, <1>3 DEF Mark
<1>5. Mark <= Len(script.bytes)
  BY ONLY <1>1, <1>2, <1>4
<1>6. QED BY <1>1, <1>2, <1>4, <1>5

\* The pieces of a script follow one another.
LEMMA ScriptPieces ==
  ASSUME NEW sc \in Scripts, NEW s \in {0, 1}
  PROVE  /\ Len(sc.pieces) \in Nat /\ sc.means \in Seq(Deed) /\ Len(sc.means) \in Nat
         /\ \A k \in 1..Len(sc.pieces) : PieceFits(sc, Stream(sc, s), k)
         /\ Upto(sc, Len(sc.pieces)) = Len(sc.bytes)
         /\ Meant(sc, Len(sc.pieces)) = Len(sc.means)
<1>0. sc \in Scripts /\ s \in {0, 1}
  OBVIOUS
<1>1. ScriptFits(sc, s)
  BY ONLY <1>0, ScriptsFit, Zenon
<1>2. /\ Len(sc.pieces) \in Nat /\ sc.means \in Seq(Deed)
      /\ \A k \in 1..Len(sc.pieces) : PieceFits(sc, Stream(sc, s), k)
      /\ Upto(sc, Len(sc.pieces)) = Len(sc.bytes)
      /\ Meant(sc, Len(sc.pieces)) = Len(sc.means)
  BY <1>1, Zenon DEF ScriptFits
<1>3. Len(sc.means) \in Nat
  BY <1>2, LenProperties
<1>4. QED BY ONLY <1>2, <1>3, Zenon

LEMMA PieceIs ==
  ASSUME NEW sc \in Scripts, NEW s \in {0, 1}, NEW k \in 1..Len(sc.pieces),
         NEW p, p = sc.pieces[k]
  PROVE  /\ p.block \in BOOLEAN /\ p.from \in Nat /\ p.upto \in Nat /\ p.from < p.upto
         /\ p.upto <= Len(sc.bytes) /\ p.from = Upto(sc, k - 1) /\ p.did = Meant(sc, k - 1)
         /\ Upto(sc, k) = p.upto /\ Meant(sc, k) = p.did + (IF Silent(p) THEN 0 ELSE 1)
         /\ IF p.block THEN UploadFits(Stream(sc, s), p) ELSE UnitFits(Stream(sc, s), p)
         /\ ~Silent(p) => p.did + 1 \in 1..Len(sc.means)
                          /\ sc.means[p.did + 1] = Meaning(Stream(sc, s), p)
<1>1. /\ Len(sc.pieces) \in Nat
      /\ \A j \in 1..Len(sc.pieces) : PieceFits(sc, Stream(sc, s), j)
  BY ScriptPieces, Zenon
<1>2. /\ p.block \in BOOLEAN
      /\ p.from = Upto(sc, k - 1) /\ p.from < p.upto /\ p.upto \in 0..Len(sc.bytes)
      /\ p.did = Meant(sc, k - 1)
      /\ IF p.block THEN UploadFits(Stream(sc, s), p) ELSE UnitFits(Stream(sc, s), p)
      /\ ~Silent(p) => p.did + 1 \in 1..Len(sc.means)
                       /\ sc.means[p.did + 1] = Meaning(Stream(sc, s), p)
  BY <1>1, Zenon DEF PieceFits
<1>3. k # 0 /\ (k = 1 \/ k - 1 \in 1..Len(sc.pieces)) /\ (k = 1 => k - 1 = 0)
  BY <1>1
<1>4. Upto(sc, k) = p.upto /\ Meant(sc, k) = p.did + (IF Silent(p) THEN 0 ELSE 1)
  BY <1>3, Zenon DEF Upto, Meant
<1>5. Upto(sc, k - 1) \in Nat
  <2>1. CASE k = 1
    <3>1. Upto(sc, 0) = 0
      BY DEF Upto
    <3>2. QED BY <1>3, <2>1, <3>1
  <2>2. CASE k - 1 \in 1..Len(sc.pieces)
    <3>1. PieceFits(sc, Stream(sc, s), k - 1) /\ k - 1 # 0
      BY <1>1, <2>2
    <3>2. sc.pieces[k - 1].upto \in Nat
      <4>1. sc.pieces[k - 1].upto \in 0..Len(sc.bytes)
        BY <3>1, Zenon DEF PieceFits
      <4>2. QED BY <4>1
    <3>3. QED BY <3>1, <3>2, Zenon DEF Upto
  <2>3. QED BY <1>3, <2>1, <2>2
<1>6. Len(sc.bytes) \in Nat
  BY StreamIs
<1>7. p.upto \in Nat /\ p.upto <= Len(sc.bytes)
  BY <1>2, <1>6
<1>8. QED BY <1>2, <1>4, <1>5, <1>7, Zenon

\* Where one piece is complete the next begins, or the script ends.
LEMMA NextPiece ==
  ASSUME script' \in Scripts, sess' \in {0, 1}, NEW k \in 0..Len(script'.pieces),
         Fresh', Pos' = Upto(script', k), Len(log') = Meant(script', k)
  PROVE  Tracked'
<1>1. /\ Len(script'.pieces) \in Nat
      /\ Upto(script', Len(script'.pieces)) = Len(script'.bytes)
      /\ Meant(script', Len(script'.pieces)) = Len(script'.means)
  BY ScriptPieces, Zenon
<1>2. CASE k = Len(script'.pieces)
  <2>1. Pos' = Len(script'.bytes) /\ Len(log') = Len(script'.means)
    BY <1>1, <1>2
  <2>2. AtEnd'
    BY <2>1 DEF AtEnd
  <2>3. QED BY <2>2 DEF Tracked
<1>3. CASE k # Len(script'.pieces)
  <2>1. k + 1 \in 1..Len(script'.pieces) /\ (k + 1) - 1 = k
    BY <1>1, <1>3
  <2>p. PICK p : p = script'.pieces[k + 1]
    OBVIOUS
  <2>2. /\ p.block \in BOOLEAN /\ p.from \in Nat /\ p.upto \in Nat /\ p.from < p.upto
        /\ p.from = Upto(script', k) /\ p.did = Meant(script', k)
        /\ IF p.block THEN UploadFits(Stream(script', sess'), p)
           ELSE UnitFits(Stream(script', sess'), p)
    <3>1. /\ p.block \in BOOLEAN /\ p.from \in Nat /\ p.upto \in Nat /\ p.from < p.upto
          /\ p.from = Upto(script', (k + 1) - 1) /\ p.did = Meant(script', (k + 1) - 1)
          /\ IF p.block THEN UploadFits(Stream(script', sess'), p)
             ELSE UnitFits(Stream(script', sess'), p)
      BY <2>1, <2>p, PieceIs, Zenon
    <3>2. QED BY <2>1, <3>1
  <2>3. p.from <= Pos' /\ Pos' < p.upto /\ Len(log') = p.did /\ Pos' = p.from
    BY <2>2
  <2>4. CASE p.block
    <3>1. AtPrefix(p)'
      BY <2>3 DEF AtPrefix, Fresh
    <3>2. InBlock(p)'
      BY <3>1 DEF InBlock, Fresh
    <3>3. At(k + 1)'
      BY <2>p, <2>3, <2>4, <3>2 DEF At
    <3>4. QED BY <2>1, <3>3 DEF Tracked
  <2>5. CASE ~p.block
    <3>1. p.text \in Nat
      BY <2>2, <2>5 DEF UnitFits
    <3>2. Held(p)' = p.from /\ p.from \in p.from..p.from
      BY <2>2, <2>3, <3>1 DEF Held
    <3>3. LineFrom(OfClient', p.from, p.from, p.from)
      BY <2>2 DEF LineFrom
    <3>4. Cut(OfClient', p.from, p.from) = <<>>
      BY <2>2, CutEmpty
    <3>5. InUnit(p)'
      BY <3>2, <3>3, <3>4 DEF InUnit, Fresh
    <3>6. At(k + 1)'
      BY <2>p, <2>3, <2>5, <3>5 DEF At
    <3>7. QED BY <2>1, <3>6 DEF Tracked
  <2>6. QED BY <2>4, <2>5
<1>4. QED BY <1>2, <1>3

\* An effect that is the meaning of the piece it completes.
LEMMA PieceExecuted ==
  ASSUME IInv, LogKept, script \in Scripts, sess \in {0, 1}, script' = script,
         NEW k \in 1..Len(script.pieces), Len(log) = script.pieces[k].did,
         ~Silent(script.pieces[k]),
         NEW e \in Effect, log' = Append(log, e),
         [kind |-> e.kind, bytes |-> Bare(e.bytes)] = Meaning(OfClient, script.pieces[k])
  PROVE  LogKept' /\ Len(log') = Meant(script', k)
<1> DEFINE p == script.pieces[k]
           n == Len(log)
<1>1. /\ Meant(script, k) = p.did + (IF Silent(p) THEN 0 ELSE 1)
      /\ ~Silent(p) => p.did + 1 \in 1..Len(script.means)
                       /\ script.means[p.did + 1] = Meaning(OfClient, p)
  BY PieceIs DEF OfClient
<1>2. n \in Nat /\ Len(log') = n + 1 /\ log'[n + 1] = e /\ \A i \in 1..n : log'[i] = log[i]
  BY LogAppended
<1>3. Len(log') = Meant(script', k) /\ n + 1 \in 1..Len(script.means)
      /\ script.means[n + 1] = Meaning(OfClient, p)
  BY <1>1, <1>2
<1>4. Len(script.means) \in Nat
  BY ScriptPieces, Zenon
<1> HIDE DEF n, p
<1>5. Len(log') <= Len(script'.means)
  BY <1>2, <1>3, <1>4
<1>6. ASSUME NEW i \in 1..Len(log')
      PROVE  [kind |-> log'[i].kind, bytes |-> Bare(log'[i].bytes)] = script'.means[i]
  <2>1. CASE i = n + 1
    BY <1>2, <1>3, <2>1 DEF p
  <2>2. CASE i # n + 1
    <3>1. i \in 1..n
      BY <1>2, <2>2
    <3>2. QED BY <1>2, <3>1 DEF LogKept, n
  <2>3. QED BY <2>1, <2>2
<1>7. QED BY <1>3, <1>5, <1>6 DEF LogKept

LEMMA LogKeptSame ==
  ASSUME LogKept, log' = log, script' = script PROVE LogKept'
BY DEF LogKept

\* An iteration takes bytes off the stream one after another.
LEMMA StreamStep ==
  ASSUME SessionInv, InStep, conn = "open", ~faulted, Iterate,
         UNCHANGED <<conn, sess, script, sent, wire>>
  PROVE  /\ Pos \in Nat /\ Pos + 1 <= Mark /\ Mark <= Len(OfClient) /\ Mark \in Nat
         /\ byte = OfClient[Pos + 1] /\ data = Cut(OfClient, Pos, Mark)
         /\ OfClient' = OfClient /\ Mark' = Mark
         /\ Len(data) = Mark - Pos /\ Pos' = Mark - Len(data')
         /\ Len(data') <= Mark' /\ data' = Cut(OfClient', Pos', Mark')
<1>1. IInv /\ Iterating
  BY Consumed DEF SessionInv
<1>2. data \in Seq(Byte) /\ Len(data) \in Nat \ {0} /\ byte = data[1]
  BY <1>1, ByteAtHand, Types
<1>3. /\ OfClient \in Seq(Byte) /\ Len(OfClient) \in Nat /\ Mark \in Nat /\ Mark <= Len(OfClient)
  BY Client
<1>4. Len(data) <= Mark /\ data = Cut(OfClient, Pos, Mark)
  BY DEF InStep
<1>5. Pos \in Nat /\ Pos + 1 <= Mark /\ Len(data) = Mark - Pos /\ Pos <= Mark
  BY <1>2, <1>3, <1>4 DEF Pos
<1>6. OfClient' = OfClient /\ Mark' = Mark
  BY DEF OfClient, Mark
<1>7. byte = OfClient[Pos + 1]
  <2>1. \A x \in 1..(Mark - Pos) : Cut(OfClient, Pos, Mark)[x] = OfClient[Pos + x]
    BY <1>3, <1>5, CutFacts, ZenonT(30)
  <2>2. 1 \in 1..(Mark - Pos)
    BY <1>3, <1>5
  <2>3. QED BY <1>2, <1>4, <2>1, <2>2, Zenon
<1>8. PICK m \in 0..Len(data) : data' = Cut(data, m, Len(data))
  BY <1>1, Consumed
<1>9. Len(data') = Len(data) - m
  BY <1>2, <1>8, CutEnd
<1>10. Pos' = Mark - Len(data')
  BY <1>6 DEF Pos
<1>11. Pos' = Pos + m /\ Pos + Len(data) = Mark /\ Len(data') <= Mark'
  BY <1>2, <1>3, <1>5, <1>6, <1>9, <1>10
<1>12. Cut(Cut(OfClient, Pos, Mark), m, Len(data)) = Cut(OfClient, Pos + m, Pos + Len(data))
  <2>1. /\ m \in Nat /\ Len(data) \in Nat /\ m <= Len(data) /\ Len(data) <= Mark - Pos
        /\ Pos \in Nat /\ Mark \in Nat /\ Pos <= Mark /\ Mark <= Len(OfClient)
    BY <1>2, <1>3, <1>5
  <2>2. OfClient \in Seq(Byte)
    BY <1>3
  <2>3. Cut(Cut(OfClient, Pos, Mark), m, Len(data)) = Cut(OfClient, Pos + m, Pos + Len(data))
    <3> DEFINE Same(w, a, b, i, j) == Cut(Cut(w, a, b), i, j) = Cut(w, a + i, a + j)
    <3>1. \A w \in Seq(Byte), a, b, i, j \in Nat :
             a <= b /\ b <= Len(w) /\ i <= j /\ j <= b - a => Same(w, a, b, i, j)
      BY CutCut
    <3> HIDE DEF Same
    <3>2. Same(OfClient, Pos, Mark, m, Len(data))
      BY ONLY <2>1, <2>2, <3>1, Zenon
    <3>3. QED BY <3>2 DEF Same
  <2>4. QED BY <2>3
<1>13. data' = Cut(OfClient', Pos', Mark')
  BY <1>4, <1>6, <1>8, <1>11, <1>12, Zenon
<1>14. QED BY <1>3, <1>4, <1>5, <1>6, <1>7, <1>10, <1>11, <1>13

\* A byte consumed.
LEMMA OneConsumed ==
  ASSUME SessionInv, InStep, conn = "open", ~faulted, Iterate, Consume,
         UNCHANGED <<conn, sess, script, sent, wire>>
  PROVE  Pos' = Pos + 1
<1>1. IInv /\ Iterating
  BY Consumed DEF SessionInv
<1>2. data \in Seq(Byte) /\ data # <<>> /\ Len(data) \in Nat
  BY <1>1, Types DEF Iterating
<1>3. Len(data') = Len(data) - 1
  BY <1>2, HeadTailProperties DEF Consume
<1>4. Mark \in Nat /\ Len(data) = Mark - Pos /\ Pos' = Mark - Len(data') /\ Pos \in Nat
  BY StreamStep
<1>5. QED BY <1>2, <1>3, <1>4

------------------------------------------------------------------------------
\* What the line does to libscpi's buffer.
LEMMA Fed ==
  ASSUME residue \in Seq(Byte), NEW l \in Seq(Byte), NEW tag, NEW b \in Byte,
         FeedLine(Append(l, b), tag), Len(residue \o l) + 1 <= ScpiBufLen - 1
  PROVE  IF Scan(residue \o l).m = "skip"
         THEN residue' = Append(residue \o l, b) /\ log' = log
         ELSE residue' = <<>> /\ Execute(residue \o l, tag)
<1> DEFINE x == residue \o l
           buf == residue \o Append(l, b)
<1>1. x \in Seq(Byte) /\ Len(x) \in Nat
  BY ConcatProperties, LenProperties
<1>s. \A s \in Seq(Byte), e \in Byte : Append(s, e) = s \o <<e>>
  BY AppendIsConcat
<1>2. buf = Append(x, b)
  <2>1. <<b>> \in Seq(Byte)
    OBVIOUS
  <2>2. Append(l, b) = l \o <<b>>
    BY ONLY <1>s, l \in Seq(Byte), b \in Byte
  <2>3. Append(x, b) = x \o <<b>>
    <3> HIDE DEF x
    <3>1. QED BY ONLY <1>1, <1>s, b \in Byte, Zenon
  <2>4. residue \o (l \o <<b>>) = (residue \o l) \o <<b>>
    BY <2>1, ConcatAssociative
  <2>5. QED BY <2>2, <2>3, <2>4, Zenon
<1>lim. ScpiBufLen \in Nat
  BY LengthsAssumption
<1>len. Len(x) + 1 <= ScpiBufLen - 1
  OBVIOUS
<1>f. FeedLine(Append(l, b), tag)
  OBVIOUS
<1>u. LET bu == residue \o Append(l, b)
      IN \/ /\ Len(bu) > ScpiBufLen - 1
            /\ residue' = <<>>
            /\ errors' = ErrorAdd(errors, "INPUT_BUFFER_OVERRUN", tag)
            /\ UNCHANGED log
         \/ /\ Len(bu) <= ScpiBufLen - 1 /\ ~Terminated(bu)
            /\ residue' = bu
            /\ UNCHANGED <<errors, log>>
         \/ /\ Len(bu) <= ScpiBufLen - 1 /\ Terminated(bu)
            /\ residue' = <<>>
            /\ Execute(SubSeq(bu, 1, Len(bu) - 1), tag)
  BY <1>f, Zenon DEF FeedLine
<1> HIDE DEF x, buf
<1>3. /\ buf \in Seq(Byte) /\ buf # <<>> /\ Len(buf) = Len(x) + 1
      /\ \A j \in 1..Len(x) : buf[j] = x[j]
  <2>1. b \in Byte
    OBVIOUS
  <2>2. QED BY ONLY <1>1, <1>2, <2>1, ByteAppended, ZenonT(30)
<1>4. SubSeq(buf, 1, Len(buf) - 1) = x
  <2>1. Len(buf) - 1 = Len(x) /\ 0 \in Nat /\ 0 <= Len(x) /\ Len(x) <= Len(buf) /\ 0 + 1 = 1
    BY <1>1, <1>3
  <2>2. SubSeq(buf, 1, Len(buf) - 1) = Cut(buf, 0, Len(x))
    BY <2>1 DEF Cut
  <2>3. /\ Cut(buf, 0, Len(x)) \in Seq(Byte) /\ Len(Cut(buf, 0, Len(x))) = Len(x) - 0
        /\ \A j \in 1..(Len(x) - 0) : Cut(buf, 0, Len(x))[j] = buf[0 + j]
    BY <1>1, <1>3, <2>1, CutFacts, ZenonT(30)
  <2>4. Len(x) - 0 = Len(x) /\ \A j \in 1..Len(x) : 0 + j = j
    BY <1>1
  <2>5. \A j \in 1..Len(x) : Cut(buf, 0, Len(x))[j] = x[j]
    BY <1>3, <2>3, <2>4, Zenon
  <2>6. Cut(buf, 0, Len(x)) = x
    BY <1>1, <2>3, <2>4, <2>5, SameBytes, ZenonT(30)
  <2>7. QED BY <2>2, <2>6
<1>5. Terminated(buf) <=> Scan(x).m # "skip"
  BY <1>4, Zenon DEF Terminated
<1>6. Len(buf) <= ScpiBufLen - 1 /\ ~(Len(buf) > ScpiBufLen - 1)
  BY ONLY <1>1, <1>3, <1>len, <1>lim
<1>7. \/ ~Terminated(buf) /\ residue' = buf /\ UNCHANGED <<errors, log>>
      \/ Terminated(buf) /\ residue' = <<>> /\ Execute(x, tag)
  BY <1>4, <1>6, <1>u DEF buf
<1>8. CASE Scan(x).m = "skip"
  BY <1>2, <1>5, <1>7, <1>8 DEF x
<1>9. CASE Scan(x).m # "skip"
  BY <1>5, <1>7, <1>9 DEF x
<1>10. QED BY <1>8, <1>9 DEF x

\* A piece is complete.
LEMMA Completed ==
  ASSUME SessionInv, conn = "open", UNCHANGED <<script, sess>>,
         NEW k \in 1..Len(script.pieces),
         Fresh', Pos' = script.pieces[k].upto, Len(log') = Meant(script, k)
  PROVE  Tracked'
<1>1. script' \in Scripts /\ sess' \in {0, 1}
  BY Client
<1>2. Len(script.pieces) \in Nat
  BY <1>1, ScriptPieces
<1>3. k \in 0..Len(script'.pieces) /\ k # 0
  BY <1>2
<1>4. Pos' = Upto(script', k) /\ Len(log') = Meant(script', k)
  BY <1>3 DEF Upto
<1>5. QED BY <1>1, <1>3, <1>4, NextPiece

\* A piece goes on.
LEMMA Stays ==
  ASSUME LogKept, UNCHANGED <<script, log>>,
         NEW k \in 1..Len(script.pieces), NEW p, p = script.pieces[k], Len(log) = p.did,
         p.from <= Pos', Pos' < p.upto,
         IF p.block THEN InBlock(p)' ELSE InUnit(p)'
  PROVE  LogKept' /\ Tracked'
<1>1. LogKept'
  BY LogKeptSame
<1>2. At(k)'
  BY DEF At
<1>3. k \in 1..Len(script'.pieces)
  OBVIOUS
<1>4. QED BY <1>1, <1>2, <1>3 DEF Tracked

------------------------------------------------------------------------------
(* An iteration in a piece of the script.                                    *)
AtWork(k, p) ==
  /\ SessionInv /\ InStep /\ conn = "open" /\ ~faulted /\ LogKept
  /\ k \in 1..Len(script.pieces) /\ p = script.pieces[k]
  /\ p.from <= Pos /\ Pos < p.upto /\ Len(log) = p.did
  /\ Iterate /\ status' = "OK" /\ UNCHANGED <<conn, sess, script, sent, wire>>

LEMMA Working ==
  ASSUME NEW k, NEW p, AtWork(k, p)
  PROVE  /\ IInv /\ Iterating /\ script \in Scripts /\ sess \in {0, 1}
         /\ OfClient \in Seq(Byte) /\ Len(OfClient) \in Nat
         /\ Pos \in Nat /\ Pos + 1 <= Len(OfClient)
         /\ byte = OfClient[Pos + 1] /\ byte \in Byte /\ byte.tag \in Tag
         /\ OfClient' = OfClient
         /\ p.block \in BOOLEAN /\ p.from \in Nat /\ p.upto \in Nat /\ p.upto <= Len(OfClient)
         /\ p.from <= Pos /\ Pos + 1 <= p.upto /\ Len(log) = p.did
         /\ Meant(script, k) = p.did + (IF Silent(p) THEN 0 ELSE 1)
         /\ (IF p.block THEN UploadFits(OfClient, p) ELSE UnitFits(OfClient, p))
<1>w. /\ SessionInv /\ InStep /\ conn = "open" /\ ~faulted
      /\ k \in 1..Len(script.pieces) /\ p = script.pieces[k]
      /\ p.from <= Pos /\ Pos < p.upto /\ Len(log) = p.did
      /\ Iterate /\ UNCHANGED <<conn, sess, script, sent, wire>>
  BY DEF AtWork
<1>1. IInv /\ Iterating
  BY <1>w, Consumed DEF SessionInv
<1>2. /\ script \in Scripts /\ sess \in {0, 1} /\ OfClient \in Seq(Byte)
      /\ Len(OfClient) = Len(script.bytes) /\ Len(OfClient) \in Nat
  BY <1>w, Client
<1>3. /\ Pos \in Nat /\ Pos + 1 <= Mark /\ Mark <= Len(OfClient) /\ Mark \in Nat
      /\ byte = OfClient[Pos + 1] /\ OfClient' = OfClient
  BY <1>w, StreamStep
<1>4. byte \in Byte /\ byte.tag \in Tag
  BY <1>1, ByteAtHand
<1>5. /\ p.block \in BOOLEAN /\ p.from \in Nat /\ p.upto \in Nat /\ p.upto <= Len(script.bytes)
      /\ Meant(script, k) = p.did + (IF Silent(p) THEN 0 ELSE 1)
      /\ (IF p.block THEN UploadFits(OfClient, p) ELSE UnitFits(OfClient, p))
  BY <1>w, <1>2, PieceIs DEF OfClient
<1>6. Pos + 1 <= Len(OfClient)
  BY <1>2, <1>3
<1>7. Pos + 1 <= p.upto
  BY <1>w, <1>3, <1>5
<1>8. QED BY <1>w, <1>1, <1>2, <1>3, <1>4, <1>5, <1>6, <1>7

LEMMA WorkConsumes ==
  ASSUME NEW k, NEW p, AtWork(k, p), Consume PROVE Pos' = Pos + 1
BY OneConsumed DEF AtWork

LEMMA WorkStays ==
  ASSUME NEW k, NEW p, AtWork(k, p), log' = log, p.from <= Pos', Pos' < p.upto,
         IF p.block THEN InBlock(p)' ELSE InUnit(p)'
  PROVE  LogKept' /\ Tracked'
<1>1. /\ LogKept /\ UNCHANGED <<script, log>> /\ k \in 1..Len(script.pieces)
      /\ p = script.pieces[k] /\ Len(log) = p.did
  BY DEF AtWork
<1>2. QED BY <1>1, Stays

\* What an iteration does in text that does not fail.
LEMMA TextStep ==
  ASSUME NEW k, NEW p, AtWork(k, p), mode = "TEXT"
  PROVE  /\ Consume /\ (TextBlockStart \/ TextIgnored \/ TextLineEnd \/ TextStore)
<1>1. IInv /\ Iterating /\ Iterate /\ status' = "OK"
  BY Working DEF AtWork
<1>2. TextBlockStart \/ TextIgnored \/ TextLineEnd \/ TextOverflow \/ TextStore
  BY <1>1 DEF Iterate, BlockDigits, BlockBadHeader, BlockLenDigit, BlockRefused, BlockBeginFails,
       BlockBegins, BlockEmpty, BlockEmptyEndFails, PayloadMore, PayloadEnds, PayloadEndFails,
       PayloadDataFails, InPayload, LastDigit, LengthDigit
<1>3. ~TextOverflow
  BY <1>1 DEF TextOverflow, Fail
<1>4. Consume
  BY <1>2 DEF TextBlockStart, TextIgnored, TextLineEnd, TextOverflow, TextStore
<1>5. QED BY <1>2, <1>3, <1>4

\* Inside the text of a unit: a newline there is one of an inline block.
LEMMA UnitInside ==
  ASSUME NEW k, NEW p, AtWork(k, p), ~p.block, InUnit(p), Pos < p.from + p.text
  PROVE  LogKept' /\ Tracked'
<1> DEFINE O == OfClient
           f == p.from
           e == p.from + p.text
           h == Pos
<1>w. /\ IInv /\ O \in Seq(Byte) /\ Len(O) \in Nat /\ h \in Nat /\ h + 1 <= Len(O)
      /\ byte = O[h + 1] /\ byte \in Byte /\ OfClient' = O
      /\ f \in Nat /\ p.upto \in Nat /\ f <= h /\ UnitFits(O, p)
  BY Working
<1>1. /\ p.text \in Nat /\ e < p.upto /\ p.text + 1 <= ScpiBufLen - 1
      /\ \A g \in f..(e - 1) : \A i \in f..g : LineFrom(O, f, i, g) => Continues(O, f, i, g)
  BY <1>w, Zenon DEF UnitFits
<1>2. Held(p) = h
  BY DEF Held
<1>3. mode = "TEXT"
  BY DEF InUnit
<1>4. PICK i \in f..h : LineFrom(O, f, i, h) /\ residue = Cut(O, f, i) /\ line = Cut(O, i, h)
  BY <1>2 DEF InUnit
<1>5. Continues(O, f, i, h)
  <2>1. h \in f..(e - 1)
    BY <1>w, <1>1
  <2>2. QED BY <1>1, <1>4, <2>1, Zenon
<1>6. /\ byte.c # "cr"
      /\ byte.c = "nl" => byte.v = 0 /\ Scan(Cut(O, f, h)).m = "skip"
      /\ byte.c = "semi" => ~LineSeparator(line)
      /\ byte.c = "hash" => ~LineIsDataWritePrefix(line)
  BY <1>w, <1>4, <1>5, Zenon DEF Continues
<1>7. Consume /\ (TextBlockStart \/ TextIgnored \/ TextLineEnd \/ TextStore)
  BY <1>3, TextStep
<1>8. Pos' = h + 1
  BY <1>7, WorkConsumes
<1>9. TextLineEnd \/ TextStore
  BY <1>6, <1>7 DEF TextBlockStart, TextIgnored, StartsBlock
<1>at. i \in Nat /\ f <= i /\ i <= h /\ f <= h /\ h <= Len(O) /\ h < Len(O)
  BY <1>w, <1>4
<1>10. h + 1 \in Nat /\ f <= h + 1 /\ h + 1 < p.upto /\ h + 1 <= e /\ h < Len(O) /\ i <= h + 1
  BY <1>w, <1>1, <1>at
<1>11. Append(line, byte) = Cut(O, i, h + 1)
  BY <1>w, <1>4, <1>at, CutAppend, ZenonT(30)
<1>12. Held(p)' = h + 1
  BY ONLY <1>w, <1>1, <1>8, <1>10 DEF Held
<1> HIDE DEF O, f, e, h
<1>13. CASE TextLineEnd
  <2>1. byte.c = "nl"
    BY <1>6, <1>13 DEF TextLineEnd, EndsLine
  <2>2. byte = NewLine(byte.tag)
    BY <1>w, <1>6, <2>1 DEF NewLine, Byte
  <2>3. residue \o line = Cut(O, f, h)
    BY <1>w, <1>4, <1>at, CutJoin, ZenonT(30)
  <2>4. Len(Cut(O, f, h)) = h - f
    BY <1>w, <1>at, CutFacts, ZenonT(30)
  <2>5. Len(residue \o line) + 1 <= ScpiBufLen - 1
    <3>1. ScpiBufLen \in Nat /\ f \in Nat /\ h \in Nat /\ p.text \in Nat
          /\ h + 1 <= f + p.text /\ p.text + 1 <= ScpiBufLen - 1
      BY <1>w, <1>1, <1>10, LengthsAssumption DEF e, f
    <3>2. (h - f) + 1 <= ScpiBufLen - 1
      BY ONLY <3>1
    <3>3. QED BY ONLY <2>3, <2>4, <3>2
  <2>6. FeedLine(Append(line, byte), byte.tag) /\ line' = <<>> /\ mode' = mode
    BY <1>13, <2>2 DEF TextLineEnd
  <2>7. residue \in Seq(Byte) /\ line \in Seq(Byte)
    BY <1>w, Types
  <2>8. residue' = Append(residue \o line, byte) /\ log' = log
    <3>1. Scan(residue \o line).m = "skip"
      BY <1>6, <2>1, <2>3
    <3>2. IF Scan(residue \o line).m = "skip"
          THEN residue' = Append(residue \o line, byte) /\ log' = log
          ELSE residue' = <<>> /\ Execute(residue \o line, byte.tag)
      BY ONLY <1>w, <2>5, <2>6, <2>7, Fed
    <3>3. QED BY <3>1, <3>2
  <2>9. residue' = Cut(O, f, h + 1)
    BY <1>w, <1>at, <2>3, <2>8, CutAppend, ZenonT(30)
  <2>10. O[h + 1].c = "nl" /\ h + 1 \in f..(h + 1)
    BY <1>w, <1>10, <2>1
  <2>11. LineFrom(O, f, h + 1, h + 1)
    BY <1>10, <2>10 DEF LineFrom
  <2>12. line' = Cut(O, h + 1, h + 1)
    BY <1>10, <2>6, CutEmpty
  <2>13. InUnit(p)'
    BY <1>w, <1>3, <1>12, <2>6, <2>9, <2>10, <2>11, <2>12 DEF InUnit, f
  <2>14. QED BY <1>8, <1>10, <2>8, <2>13, WorkStays DEF f
<1>14. CASE TextStore
  <2>1. line' = Append(line, byte) /\ UNCHANGED <<mode, residue, log>> /\ byte.c # "nl"
    BY <1>14 DEF TextStore, Ordinary, EndsLine, scpiVars, appVars
  <2>2. LineFrom(O, f, i, h + 1)
    <3>1. /\ i = f \/ O[i].c = "nl"
          /\ \A x \in (i + 1)..h : O[x].c # "nl"
      BY <1>4 DEF LineFrom
    <3>2. \A x \in (i + 1)..(h + 1) : x = h + 1 \/ x \in (i + 1)..h
      BY <1>w, <1>at
    <3>3. O[h + 1].c # "nl"
      BY <1>w, <2>1
    <3>4. QED BY <3>1, <3>2, <3>3 DEF LineFrom
  <2>3. i \in f..(h + 1)
    BY <1>w, <1>at, <1>10
  <2>4. InUnit(p)'
    BY <1>w, <1>3, <1>4, <1>11, <1>12, <2>1, <2>2, <2>3 DEF InUnit, f
  <2>5. QED BY <1>8, <1>10, <2>1, <2>4, WorkStays DEF f
<1>15. QED BY <1>9, <1>13, <1>14

\* The command that ends a unit is what the unit means.
LEMMA UnitExecuted ==
  ASSUME NEW k, NEW p, AtWork(k, p), ~p.block, ~Silent(p),
         NEW tag \in Tag, Execute(Cut(OfClient, p.from, p.from + p.text), tag)
  PROVE  LogKept' /\ Len(log') = Meant(script, k)
<1> DEFINE u == Cut(OfClient, p.from, p.from + p.text)
<1>w. /\ IInv /\ OfClient \in Seq(Byte) /\ Len(OfClient) \in Nat /\ p.from \in Nat
      /\ p.upto \in Nat /\ p.upto <= Len(OfClient) /\ UnitFits(OfClient, p)
      /\ script \in Scripts /\ sess \in {0, 1}
  BY Working
<1>k. /\ k \in 1..Len(script.pieces) /\ p = script.pieces[k] /\ Len(log) = p.did /\ LogKept
      /\ script' = script
  BY DEF AtWork
<1>1. p.text \in Nat /\ p.text # 0 /\ p.from + p.text < p.upto
  BY <1>w, Zenon DEF Silent, UnitFits
<1>2. u \in Seq(Byte) /\ Len(u) = (p.from + p.text) - p.from
  <2>1. /\ p.from + p.text \in Nat /\ p.from <= p.from + p.text
        /\ p.from + p.text <= Len(OfClient)
    BY <1>w, <1>1
  <2>2. QED BY <1>w, <2>1, CutFacts, ZenonT(30)
<1>3. u # <<>>
  <2>1. Len(u) # 0
    BY ONLY <1>w, <1>1, <1>2
  <2>2. QED BY <2>1, EmptySeq
<1>4. Meaning(OfClient, p) = [kind |-> IF Len(u) = 1 /\ u[1].c = "errq" THEN "errq" ELSE "cmd",
                              bytes |-> Bare(u)]
  BY DEF Meaning
<1>5. Execute(u, tag)
  OBVIOUS
<1>6. errors \in Seq(Error)
  BY <1>w, Types
<1> HIDE DEF u
<1>7. ASSUME NEW e \in Effect, log' = Append(log, e), e.bytes = u,
             e.kind = IF Len(u) = 1 /\ u[1].c = "errq" THEN "errq" ELSE "cmd"
      PROVE  LogKept' /\ Len(log') = Meant(script, k)
  <2>1. [kind |-> e.kind, bytes |-> Bare(e.bytes)] = Meaning(OfClient, p)
    BY <1>4, <1>7
  <2>2. LogKept' /\ Len(log') = Meant(script', k)
    BY <1>w, <1>k, <1>7, <2>1, PieceExecuted
  <2>3. QED BY <1>k, <2>2
<1>8. CASE Len(u) = 1 /\ u[1].c = "errq"
  <2> DEFINE e == [kind |-> "errq", len |-> 0, bytes |-> u,
                   err |-> IF errors = <<>> THEN {} ELSE {Head(errors)}]
  <2>1. log' = Append(log, e)
    BY <1>3, <1>5, <1>8 DEF Execute
  <2>2. errors # <<>> => Head(errors) \in Error
    BY <1>6, HeadTailProperties
  <2>3. e \in Effect /\ e.kind = "errq" /\ e.bytes = u
    BY <1>2, <2>2 DEF Effect
  <2> HIDE DEF e
  <2>4. QED BY <1>7, <1>8, <2>1, <2>3
<1>9. CASE ~(Len(u) = 1 /\ u[1].c = "errq")
  <2> DEFINE g == [code |-> "COMMAND", tag |-> tag]
             e(x) == [kind |-> "cmd", len |-> 0, bytes |-> u, err |-> x]
  <2>1. g \in Error
    BY DEF Error, Code
  <2>2. \A x \in {{}, {g}} : e(x) \in Effect /\ e(x).kind = "cmd" /\ e(x).bytes = u
    BY <1>2, <2>1 DEF Effect
  <2>3. \E x \in {{}, {g}} : log' = Append(log, e(x))
    BY <1>3, <1>5, <1>9 DEF Execute
  <2> HIDE DEF e, g
  <2>4. QED BY <1>7, <1>9, <2>2, <2>3
<1>10. QED BY <1>8, <1>9

\* Behind the text of a unit: carriage returns, and what ends it.
LEMMA UnitEnds ==
  ASSUME NEW k, NEW p, AtWork(k, p), ~p.block, InUnit(p), ~(Pos < p.from + p.text)
  PROVE  LogKept' /\ Tracked'
<1> DEFINE O == OfClient
           f == p.from
           e == p.from + p.text
           h == Pos
<1>w. /\ IInv /\ O \in Seq(Byte) /\ Len(O) \in Nat /\ h \in Nat /\ h + 1 <= Len(O)
      /\ byte = O[h + 1] /\ byte \in Byte /\ byte.tag \in Tag /\ OfClient' = O
      /\ f \in Nat /\ p.upto \in Nat /\ p.upto <= Len(O)
      /\ f <= h /\ h + 1 <= p.upto /\ UnitFits(O, p)
      /\ Meant(script, k) = p.did + (IF Silent(p) THEN 0 ELSE 1) /\ Len(log) = p.did
  BY Working
<1>k. /\ k \in 1..Len(script.pieces) /\ p = script.pieces[k] /\ SessionInv /\ conn = "open"
      /\ UNCHANGED <<script, sess>> /\ LogKept
  BY DEF AtWork
<1>1. /\ p.text \in Nat /\ e < p.upto /\ p.text + 1 <= ScpiBufLen - 1
      /\ \A x \in (e + 1)..(p.upto - 1) : O[x].c = "cr"
      /\ O[p.upto].c \in {"nl", "semi"} /\ Scan(Cut(O, f, e)).m # "skip"
      /\ O[p.upto].c = "semi" =>
           \A i \in f..e : LineFrom(O, f, i, e) => LineSeparator(Cut(O, i, e))
  BY <1>w, Zenon DEF UnitFits
<1>2. Held(p) = e /\ mode = "TEXT"
  BY DEF Held, InUnit
<1>4. PICK i \in f..e : LineFrom(O, f, i, e) /\ residue = Cut(O, f, i) /\ line = Cut(O, i, e)
  BY <1>2 DEF InUnit
<1>7. Consume /\ (TextBlockStart \/ TextIgnored \/ TextLineEnd \/ TextStore)
  BY <1>2, TextStep
<1>8. Pos' = h + 1
  BY <1>7, WorkConsumes
<1>at. i \in Nat /\ f <= i /\ i <= e /\ f <= e /\ e <= Len(O) /\ e \in Nat /\ e <= h
  BY <1>w, <1>1, <1>4
<1> HIDE DEF O, f, e, h
<1>9. CASE h + 1 < p.upto
  <2>1. h + 1 \in (e + 1)..(p.upto - 1)
    BY <1>w, <1>at, <1>9
  <2>2. byte.c = "cr"
    BY <1>w, <1>1, <2>1
  <2>3. TextIgnored
    BY <1>7, <2>2 DEF TextBlockStart, TextLineEnd, TextStore, StartsBlock, EndsLine, Ordinary
  <2>4. UNCHANGED <<mode, line, residue, log>>
    BY <2>3 DEF TextIgnored, rxVars, scpiVars, appVars
  <2>5. Held(p)' = e
    <3>1. ~(h + 1 < e)
      BY <1>w, <1>at
    <3>2. QED BY <1>8, <3>1 DEF Held, e
  <2>6. InUnit(p)'
    BY <1>w, <1>2, <1>4, <2>4, <2>5 DEF InUnit, f
  <2>7. p.from <= Pos' /\ Pos' < p.upto
    BY <1>w, <1>8, <1>9 DEF f
  <2>8. QED BY <2>4, <2>6, <2>7, WorkStays
<1>10. CASE h + 1 = p.upto
  <2>1. byte.c \in {"nl", "semi"} /\ (byte.c = "semi" => LineSeparator(line))
    BY <1>w, <1>1, <1>4, <1>10
  <2>2. TextLineEnd
    BY <1>7, <2>1 DEF TextBlockStart, TextIgnored, TextStore, StartsBlock, EndsLine, Ordinary
  <2>3. FeedLine(Append(line, NewLine(byte.tag)), byte.tag) /\ line' = <<>> /\ mode' = mode
    BY <2>2 DEF TextLineEnd
  <2>4. NewLine(byte.tag) \in Byte
    BY <1>w DEF NewLine, Byte, Class
  <2>5. residue \o line = Cut(O, f, e)
    BY <1>w, <1>4, <1>at, CutJoin, ZenonT(30)
  <2>6. Len(Cut(O, f, e)) = e - f
    BY <1>w, <1>at, CutFacts, ZenonT(30)
  <2>7. Len(residue \o line) + 1 <= ScpiBufLen - 1
    <3>1. ScpiBufLen \in Nat /\ e - f = p.text
      BY <1>w, <1>1, LengthsAssumption DEF e, f
    <3>2. QED BY ONLY <1>1, <2>5, <2>6, <3>1
  <2>8. residue \in Seq(Byte) /\ line \in Seq(Byte)
    BY <1>w, Types
  <2>9. residue' = <<>> /\ Execute(Cut(O, f, e), byte.tag)
    <3>1. IF Scan(residue \o line).m = "skip"
          THEN residue' = Append(residue \o line, NewLine(byte.tag)) /\ log' = log
          ELSE residue' = <<>> /\ Execute(residue \o line, byte.tag)
      BY ONLY <2>3, <2>4, <2>7, <2>8, Fed
    <3>2. QED BY <1>1, <2>5, <3>1
  <2>10. Fresh'
    BY <1>2, <2>3, <2>9 DEF Fresh
  <2>11. CASE Silent(p)
    <3>1. p.text = 0 /\ e = f
      BY <1>w, <2>11 DEF Silent, e, f
    <3>2. Cut(O, f, e) = <<>>
      BY <1>w, <3>1, CutEmpty
    <3>3. log' = log
      BY <2>9, <3>2, EmptySeq DEF Execute
    <3>4. LogKept'
      BY <1>k, <3>3, LogKeptSame
    <3>5. Meant(script, k) = p.did + 0
      BY <1>w, <2>11
    <3>6. Len(log') = Meant(script, k)
      <4>1. Len(log) \in Nat /\ Len(log) = p.did
        BY <1>w, Types
      <4>2. QED BY ONLY <3>3, <3>5, <4>1
    <3>7. QED BY <1>k, <1>8, <1>10, <2>10, <3>4, <3>6, Completed
  <2>12. CASE ~Silent(p)
    <3>1. LogKept' /\ Len(log') = Meant(script, k)
      BY <1>w, <2>9, <2>12, UnitExecuted DEF O, f, e
    <3>2. QED BY <1>k, <1>8, <1>10, <2>10, <3>1, Completed
  <2>13. QED BY <2>11, <2>12
<1>11. QED BY <1>w, <1>9, <1>10

LEMMA UnitStep ==
  ASSUME NEW k, NEW p, AtWork(k, p), ~p.block, InUnit(p) PROVE LogKept' /\ Tracked'
BY UnitInside, UnitEnds

------------------------------------------------------------------------------
\* What is known of an upload.
LEMMA Upload ==
  ASSUME NEW k, NEW p, AtWork(k, p), p.block
  PROVE  /\ Width(p) \in 1..9 /\ Width(p)' = Width(p)
         /\ p.value[Width(p)] \in Nat /\ p.value[0] = 0
         /\ p.upto = p.from + 3 + Width(p) + p.value[Width(p)]
         /\ OfClient[p.from + 1].c = "write" /\ OfClient[p.from + 2].c = "hash"
         /\ OfClient[p.from + 3].c = "digit"
         /\ \A g \in 0..(Width(p) - 1) :
              /\ OfClient[p.from + 4 + g].c = "digit" /\ p.value[g] \in Nat
              /\ p.value[g + 1] = 10 * p.value[g] + OfClient[p.from + 4 + g].v
         /\ p.from \in Nat /\ p.upto \in Nat /\ p.upto <= Len(OfClient)
         /\ p.from + 3 < p.upto /\ p.from + 3 + Width(p) <= p.upto
         /\ OfClient' = OfClient /\ OfClient \in Seq(Byte) /\ Len(OfClient) \in Nat
<1>w. /\ UploadFits(OfClient, p) /\ p.from \in Nat /\ p.upto \in Nat /\ p.upto <= Len(OfClient)
      /\ OfClient' = OfClient /\ OfClient \in Seq(Byte) /\ Len(OfClient) \in Nat
  BY Working
<1>1. /\ Width(p) \in 1..9 /\ p.value \in [0..Width(p) -> Nat] /\ p.value[0] = 0
      /\ p.upto = p.from + 3 + Width(p) + p.value[Width(p)]
      /\ OfClient[p.from + 1].c = "write" /\ OfClient[p.from + 2].c = "hash"
      /\ OfClient[p.from + 3].c = "digit"
      /\ \A g \in 0..(Width(p) - 1) :
           /\ OfClient[p.from + 4 + g].c = "digit"
           /\ p.value[g + 1] = 10 * p.value[g] + OfClient[p.from + 4 + g].v
  BY <1>w, Zenon DEF UploadFits, Width
<1>2. Width(p)' = Width(p)
  BY <1>w DEF Width
<1>3. Width(p) \in 0..Width(p) /\ \A g \in 0..(Width(p) - 1) : g \in 0..Width(p)
  BY <1>1
<1>4. p.value[Width(p)] \in Nat /\ \A g \in 0..(Width(p) - 1) : p.value[g] \in Nat
  BY <1>1, <1>3
<1>5. p.from + 3 < p.upto /\ p.from + 3 + Width(p) <= p.upto
  <2>1. \A f \in Nat, d \in 1..9, v \in Nat : f + 3 < f + 3 + d + v /\ f + 3 + d <= f + 3 + d + v
    OBVIOUS
  <2>2. QED BY ONLY <1>w, <1>1, <1>4, <2>1, Zenon
<1>6. QED BY <1>w, <1>1, <1>2, <1>4, <1>5, Zenon

\* DATA:WRITE and its '#' are text until both are there.
LEMMA UploadBegins ==
  ASSUME NEW k, NEW p, AtWork(k, p), p.block, residue = <<>>, AtPrefix(p)
  PROVE  LogKept' /\ Tracked'
<1>w. byte = OfClient[Pos + 1] /\ byte \in Byte
  BY Working
<1>u. /\ OfClient[p.from + 1].c = "write" /\ p.from \in Nat /\ p.upto \in Nat
      /\ p.from + 3 < p.upto /\ p.upto <= Len(OfClient)
      /\ OfClient' = OfClient /\ OfClient \in Seq(Byte) /\ Len(OfClient) \in Nat
  BY Upload
<1>p. Pos = p.from /\ mode = "TEXT" /\ line = <<>>
  BY DEF AtPrefix
<1>1. byte.c = "write"
  BY <1>w, <1>u, <1>p
<1>2. Consume /\ (TextBlockStart \/ TextIgnored \/ TextLineEnd \/ TextStore)
  BY <1>p, TextStep
<1>3. TextStore
  BY <1>1, <1>2 DEF TextBlockStart, TextIgnored, TextLineEnd, StartsBlock, EndsLine
<1>4. Pos' = p.from + 1
  BY <1>2, <1>p, WorkConsumes
<1>5. line' = Append(line, byte) /\ UNCHANGED <<mode, residue, log>>
  BY <1>3 DEF TextStore, scpiVars, appVars
<1>6. p.from <= p.from /\ p.from < Len(OfClient) /\ p.from + 1 < p.upto /\ p.from <= p.from + 1
  BY ONLY <1>u
<1>7. line = Cut(OfClient, p.from, p.from)
  BY <1>u, <1>p, CutEmpty
<1>8. Append(Cut(OfClient, p.from, p.from), OfClient[p.from + 1]) = Cut(OfClient, p.from, p.from + 1)
  BY <1>u, <1>6, CutAppend, ZenonT(30)
<1>9. line' = Cut(OfClient, p.from, p.from + 1)
  BY <1>5, <1>7, <1>8, <1>w, <1>p, Zenon
<1>10. InBlock(p)'
  BY <1>u, <1>p, <1>4, <1>5, <1>9 DEF InBlock, AtHash
<1>11. p.from <= Pos' /\ Pos' < p.upto /\ log' = log
  BY <1>4, <1>5, <1>6
<1>12. QED BY <1>10, <1>11, WorkStays

LEMMA UploadHash ==
  ASSUME NEW k, NEW p, AtWork(k, p), p.block, residue = <<>>, AtHash(p)
  PROVE  LogKept' /\ Tracked'
<1>w. byte = OfClient[Pos + 1] /\ byte \in Byte
  BY Working
<1>u. /\ OfClient[p.from + 1].c = "write" /\ OfClient[p.from + 2].c = "hash"
      /\ p.from \in Nat /\ p.upto \in Nat /\ p.from + 3 < p.upto /\ p.upto <= Len(OfClient)
      /\ OfClient' = OfClient /\ OfClient \in Seq(Byte) /\ Len(OfClient) \in Nat
  BY Upload
<1>p. Pos = p.from + 1 /\ mode = "TEXT" /\ line = Cut(OfClient, p.from, p.from + 1)
  BY DEF AtHash
<1>1. /\ Pos + 1 = p.from + 2 /\ p.from + 1 \in Nat /\ p.from <= p.from + 1
      /\ p.from + 1 <= Len(OfClient) /\ (p.from + 1) - p.from = 1 /\ p.from + 2 < p.upto
      /\ p.from <= p.from + 2 /\ 1 \in 1..1
  <2>1. /\ p.from \in Nat /\ p.upto \in Nat /\ p.from + 3 < p.upto /\ p.upto <= Len(OfClient)
        /\ Len(OfClient) \in Nat
    BY <1>u
  <2>2. QED BY ONLY <1>p, <2>1
<1>2. byte.c = "hash"
  BY <1>w, <1>u, <1>1
<1>3. LineIsDataWritePrefix(line)
  <2>1. /\ Len(Cut(OfClient, p.from, p.from + 1)) = (p.from + 1) - p.from
        /\ \A x \in 1..((p.from + 1) - p.from) :
             Cut(OfClient, p.from, p.from + 1)[x] = OfClient[p.from + x]
    <3>1. /\ OfClient \in Seq(Byte) /\ p.from \in Nat /\ p.from + 1 \in Nat
          /\ p.from <= p.from + 1 /\ p.from + 1 <= Len(OfClient)
      BY <1>u, <1>1, Zenon
    <3>2. QED BY ONLY <3>1, CutFacts, ZenonT(30)
  <2>2. Len(line) = 1 /\ line[1] = OfClient[p.from + 1]
    BY <1>p, <1>1, <2>1
  <2>3. QED BY <1>u, <2>2 DEF LineIsDataWritePrefix
<1>4. Consume /\ (TextBlockStart \/ TextIgnored \/ TextLineEnd \/ TextStore)
  BY <1>p, TextStep
<1>5. TextBlockStart
  BY <1>2, <1>3, <1>4 DEF TextIgnored, TextLineEnd, TextStore, StartsBlock, EndsLine, Ordinary
<1>6. Pos' = p.from + 2
  BY <1>1, <1>4, WorkConsumes
<1>7. mode' = "BLOCK_DIGITS" /\ UNCHANGED <<residue, log>>
  BY <1>5 DEF TextBlockStart, scpiVars, appVars
<1>8. InBlock(p)'
  BY <1>6, <1>7 DEF InBlock, AtDigits
<1>9. p.from <= Pos' /\ Pos' < p.upto /\ log' = log
  BY <1>1, <1>6, <1>7
<1>10. QED BY <1>8, <1>9, WorkStays

LEMMA UploadDigits ==
  ASSUME NEW k, NEW p, AtWork(k, p), p.block, residue = <<>>, AtDigits(p)
  PROVE  LogKept' /\ Tracked'
<1>w. byte = OfClient[Pos + 1] /\ byte \in Byte /\ Iterating /\ Iterate /\ status' = "OK"
  BY Working DEF AtWork
<1>u. /\ OfClient[p.from + 3].c = "digit"
      /\ p.from \in Nat /\ p.upto \in Nat /\ Width(p) \in 1..9 /\ p.from + 3 < p.upto
      /\ p.value[0] = 0
      /\ Width(p)' = Width(p)
  BY Upload
<1>p. Pos = p.from + 2 /\ mode = "BLOCK_DIGITS"
  BY DEF AtDigits
<1>1. Pos + 1 = p.from + 3 /\ p.from + 3 < p.upto /\ p.from <= p.from + 3 /\ p.from + 3 + 0 = p.from + 3
  BY <1>u, <1>p
<1>2. byte.v = Width(p)
  BY <1>w, <1>1 DEF Width
<1>3. BlockDigits \/ BlockBadHeader
  BY <1>w, <1>p DEF Iterate, TextBlockStart, TextIgnored, TextLineEnd, TextOverflow, TextStore,
       BlockLenDigit, BlockRefused, BlockBeginFails, BlockBegins, BlockEmpty, BlockEmptyEndFails,
       PayloadMore, PayloadEnds, PayloadEndFails, PayloadDataFails, InText, InPayload,
       LastDigit, LengthDigit
<1>4. ~BlockBadHeader
  BY <1>w DEF BlockBadHeader, Fail
<1>5. /\ Consume /\ mode' = "BLOCK_LEN" /\ ndigits' = Width(p) /\ gotDigits' = 0 /\ blockLen' = 0
      /\ UNCHANGED <<residue, log>>
  BY <1>2, <1>3, <1>4 DEF BlockDigits, scpiVars, appVars
<1>6. Pos' = p.from + 3
  BY <1>1, <1>5, WorkConsumes
<1>7. 0 \in 0..(Width(p)' - 1)
  BY <1>u
<1>8. InLength(p)'
  BY <1>u, <1>1, <1>5, <1>6, <1>7 DEF InLength
<1>9. InBlock(p)'
  BY <1>5, <1>8 DEF InBlock
<1>10. p.from <= Pos' /\ Pos' < p.upto /\ log' = log
  BY <1>1, <1>5, <1>6
<1>11. QED BY <1>9, <1>10, WorkStays

\* The digits of the length, and what its last one decides.
LEMMA UploadLength ==
  ASSUME NEW k, NEW p, AtWork(k, p), p.block, residue = <<>>, InLength(p)
  PROVE  LogKept' /\ Tracked'
<1> DEFINE d == Width(p)
           f == p.from
           v == p.value[Width(p)]
<1>w. /\ byte = OfClient[Pos + 1] /\ byte \in Byte /\ Iterating /\ Iterate /\ status' = "OK"
      /\ IInv /\ Meant(script, k) = p.did + (IF Silent(p) THEN 0 ELSE 1) /\ Len(log) = p.did
      /\ script \in Scripts /\ sess \in {0, 1}
  BY Working DEF AtWork
<1>k. /\ k \in 1..Len(script.pieces) /\ p = script.pieces[k] /\ SessionInv /\ conn = "open"
      /\ UNCHANGED <<script, sess>> /\ LogKept
  BY DEF AtWork
<1>u. /\ f \in Nat /\ p.upto \in Nat /\ d \in 1..9 /\ v \in Nat /\ p.upto = f + 3 + d + v
      /\ f + 3 + d <= p.upto /\ p.upto <= Len(OfClient) /\ Width(p)' = d
      /\ \A g \in 0..(d - 1) :
           /\ OfClient[f + 4 + g].c = "digit" /\ p.value[g] \in Nat
           /\ p.value[g + 1] = 10 * p.value[g] + OfClient[f + 4 + g].v
      /\ OfClient' = OfClient
  BY Upload
<1>p. PICK g \in 0..(d - 1) :
        /\ Pos = f + 3 + g /\ mode = "BLOCK_LEN"
        /\ ndigits = d /\ gotDigits = g /\ blockLen = p.value[g]
  BY DEF InLength
<1>d. f \in Nat /\ d \in 1..9
  BY <1>u
<1> HIDE DEF d, f, v
<1>1. Pos + 1 = f + 4 + g /\ f + 4 + g = f + 3 + (g + 1) /\ g \in Nat /\ g + 1 <= d
  <2>1. Pos = f + 3 + g /\ g \in 0..(d - 1)
    BY <1>p
  <2>2. QED BY ONLY <1>d, <2>1
<1>2. byte.c = "digit" /\ Length = p.value[g + 1]
  <2>1. byte = OfClient[f + 4 + g] /\ blockLen = p.value[g]
    BY <1>w, <1>1, <1>p
  <2>2. OfClient[f + 4 + g].c = "digit" /\ p.value[g + 1] = 10 * p.value[g] + OfClient[f + 4 + g].v
    BY <1>u, <1>p, Zenon
  <2>3. QED BY ONLY <2>1, <2>2, Zenon DEF Length
<1>3. ~blockStarted /\ blockReceived = 0
  BY <1>w, <1>p DEF IInv, BlockContract, HeaderInv
<1>4. BlockLenDigit \/ BlockBegins \/ BlockEmpty
  <2>1. BlockLenDigit \/ BlockBegins \/ BlockEmpty \/ BlockBadHeader \/ BlockRefused
        \/ BlockBeginFails \/ BlockEmptyEndFails
    BY <1>w, <1>p DEF Iterate, TextBlockStart, TextIgnored, TextLineEnd, TextOverflow, TextStore,
         BlockDigits, PayloadMore, PayloadEnds, PayloadEndFails, PayloadDataFails, InText,
         InPayload
  <2>2. ~(BlockBadHeader \/ BlockRefused \/ BlockBeginFails \/ BlockEmptyEndFails)
    BY <1>w DEF BlockBadHeader, BlockRefused, BlockBeginFails, BlockEmptyEndFails, Fail
  <2>3. QED BY <2>1, <2>2
<1>5. Consume
  BY <1>4 DEF BlockLenDigit, BlockBegins, BlockEmpty, LastDigit, LengthDigit
<1>6. Pos' = f + 3 + (g + 1)
  BY <1>1, <1>5, WorkConsumes
<1>7. CASE BlockLenDigit
  <2>1. /\ mode' = "BLOCK_LEN" /\ ndigits' = d /\ gotDigits' = g + 1
        /\ blockLen' = p.value[g + 1] /\ g + 1 # d /\ UNCHANGED <<residue, log>>
    BY <1>7, <1>p, <1>2 DEF BlockLenDigit, LengthDigit, AllDigits, rxVars, scpiVars, appVars
  <2>2. g + 1 \in 0..(d - 1)
    BY <1>1, <1>u, <2>1
  <2>3. InLength(p)'
    BY <1>6, <1>u, <2>1, <2>2 DEF InLength, f
  <2>4. InBlock(p)'
    BY <2>1, <2>3 DEF InBlock
  <2>5. f <= Pos' /\ Pos' < p.upto
    BY <1>6, <1>1, <1>u, <2>1
  <2>6. QED BY <2>1, <2>4, <2>5, WorkStays DEF f
<1>8. ASSUME AllDigits
      PROVE  g + 1 = d /\ Length = v /\ Pos' = f + 3 + d
  <2>1. g + 1 = d
    BY <1>8, <1>p DEF AllDigits
  <2>2. QED BY <1>2, <1>6, <2>1 DEF v, d
<1>9. CASE BlockBegins
  <2>1. /\ AllDigits /\ blockLen' = Length /\ Length > 0 /\ mode' = "BLOCK_PAYLOAD"
        /\ blk' = [open |-> TRUE, len |-> Length, bytes |-> <<>>]
        /\ blockReceived' = blockReceived /\ UNCHANGED <<residue, log>>
    BY <1>9, <1>3 DEF BlockBegins, LastDigit, LengthDigit, scpiVars
  <2>2. blk'.bytes = <<>>
    BY <2>1
  <2>3. Length = v /\ Pos' = f + 3 + d
    BY <1>8, <2>1
  <2>4. f + 3 + d \in Nat /\ (f + 3 + d) - (f + 3 + d) = 0 /\ f + 3 + d < p.upto
        /\ f <= f + 3 + d /\ f + 3 + d <= f + 3 + d
    <3>1. /\ f \in Nat /\ d \in 1..9 /\ v \in Nat /\ p.upto = f + 3 + d + v /\ v > 0
      BY <1>u, <2>1, <2>3
    <3>2. QED BY ONLY <3>1
  <2>5. Cut(OfClient, f + 3 + d, f + 3 + d) = <<>>
    BY <2>4, CutEmpty
  <2>6. /\ f + 3 + d <= Pos' /\ blockLen' = v /\ blockReceived' = Pos' - (f + 3 + d)
        /\ blk'.bytes = Cut(OfClient', f + 3 + d, Pos')
    BY <1>3, <1>u, <2>1, <2>2, <2>3, <2>4, <2>5
  <2>7. InPayloadOf(p)'
    BY <1>u, <2>1, <2>6 DEF InPayloadOf, v, d, f
  <2>8. InBlock(p)'
    BY <2>1, <2>7 DEF InBlock
  <2>9. QED BY <2>1, <2>3, <2>4, <2>8, WorkStays DEF f
<1>10. CASE BlockEmpty
  <2> DEFINE e == [kind |-> "block", len |-> 0, bytes |-> <<>>, err |-> {}]
  <2>1. /\ AllDigits /\ Length = 0 /\ mode' = "TEXT" /\ line' = <<>> /\ residue' = residue
        /\ log' = Append(log, e)
    BY <1>10 DEF BlockEmpty, Finished, scpiVars
  <2>2. v = 0 /\ Pos' = f + 3 + d
    BY <1>8, <2>1
  <2>3. Fresh'
    BY <2>1 DEF Fresh
  <2>4. Pos' = p.upto /\ p.upto - v = p.upto
    BY <1>u, <2>2
  <2>5. e \in Effect /\ e.kind = "block" /\ e.bytes = <<>>
    <3>1. <<>> \in Seq(Byte)
      BY EmptySeq
    <3>2. QED BY <3>1 DEF Effect
  <2> HIDE DEF e
  <2>6. Cut(OfClient, p.upto - p.value[OfClient[p.from + 3].v], p.upto) = <<>>
    BY <1>u, <2>4, CutEmpty DEF v, Width
  <2>7. [kind |-> e.kind, bytes |-> Bare(e.bytes)] = Meaning(OfClient, p)
    BY <2>5, <2>6 DEF Meaning
  <2>8. ~Silent(p)
    BY DEF Silent
  <2>9. LogKept' /\ Len(log') = Meant(script', k)
    BY <1>w, <1>k, <2>1, <2>5, <2>7, <2>8, PieceExecuted
  <2>10. QED BY <1>k, <2>3, <2>4, <2>9, Completed
<1>11. QED BY <1>4, <1>7, <1>9, <1>10

LEMMA UploadPayload ==
  ASSUME NEW k, NEW p, AtWork(k, p), p.block, residue = <<>>, InPayloadOf(p)
  PROVE  LogKept' /\ Tracked'
<1> DEFINE O == OfClient
           v == p.value[Width(p)]
           b == p.from + 3 + Width(p)
           h == Pos
<1>w. /\ Iterating /\ Iterate /\ status' = "OK" /\ IInv /\ Len(log) = p.did
      /\ script \in Scripts /\ sess \in {0, 1} /\ h \in Nat /\ h + 1 <= p.upto /\ p.from <= h
  BY Working DEF AtWork
<1>k. /\ k \in 1..Len(script.pieces) /\ p = script.pieces[k] /\ SessionInv /\ conn = "open"
      /\ UNCHANGED <<script, sess>> /\ LogKept
  BY DEF AtWork
<1>u. /\ p.from \in Nat /\ p.upto \in Nat /\ v \in Nat /\ p.upto = b + v
      /\ Width(p) \in 1..9 /\ p.upto <= Len(O) /\ Width(p)' = Width(p)
      /\ OfClient' = O /\ O \in Seq(Byte) /\ Len(O) \in Nat
  BY Upload
<1>b. b \in Nat
  <2>1. p.from \in Nat /\ Width(p) \in 1..9
    BY <1>u
  <2>2. QED BY ONLY <2>1
<1>p. /\ b <= h /\ mode = "BLOCK_PAYLOAD" /\ blockLen = v /\ blockReceived = h - b
      /\ blk.bytes = Cut(O, b, h)
  BY DEF InPayloadOf
<1>s. /\ Mark \in Nat /\ Mark <= Len(O) /\ h + 1 <= Mark /\ data = Cut(O, h, Mark)
      /\ Len(data) = Mark - h /\ Pos' = Mark - Len(data')
  BY StreamStep DEF AtWork
<1>t. data \in Seq(Byte) /\ blk \in Block /\ Len(data) \in Nat
  BY <1>w, Types
<1> HIDE DEF O, v, b, h
<1>1. PayloadMore \/ PayloadEnds
  <2>1. PayloadMore \/ PayloadEnds \/ PayloadEndFails \/ PayloadDataFails
    BY <1>w, <1>p DEF Iterate, TextBlockStart, TextIgnored, TextLineEnd, TextOverflow, TextStore,
         BlockDigits, BlockBadHeader, BlockLenDigit, BlockRefused, BlockBeginFails, BlockBegins,
         BlockEmpty, BlockEmptyEndFails, InText, LastDigit, LengthDigit
  <2>2. ~(PayloadEndFails \/ PayloadDataFails)
    BY <1>w DEF PayloadEndFails, PayloadDataFails, Fail
  <2>3. QED BY <2>1, <2>2
<1>2. Skip
  BY <1>1 DEF PayloadMore, PayloadEnds
<1>3. PICK c \in Nat : c = Chunk /\ c <= p.upto - h /\ c <= Mark - h /\ c <= Len(data)
  <2>1. Chunk = IF blockLen - blockReceived < Len(data) THEN blockLen - blockReceived ELSE Len(data)
    BY DEF Chunk
  <2>2. blockLen - blockReceived = p.upto - h
    BY <1>w, <1>u, <1>b, <1>p
  <2>3. p.upto - h \in Nat
    BY <1>w, <1>u
  <2>4. QED BY <2>1, <2>2, <2>3, <1>s, <1>t
<1>4. Pos' = h + c
  <2>1. data' = Cut(data, c, Len(data))
    BY <1>2, <1>3 DEF Skip, Cut
  <2>2. c \in 0..Len(data)
    BY <1>3, <1>t
  <2>3. Len(data') = Len(data) - c
    BY <1>t, <2>1, <2>2, CutEnd
  <2>4. QED BY ONLY <1>s, <1>w, <1>3, <2>3
<1>5. h + c \in Nat /\ h <= h + c /\ b <= h + c /\ h + c <= p.upto /\ h + c <= Len(O)
      /\ p.from <= h + c /\ h <= Len(O)
  <2>1. /\ h \in Nat /\ b \in Nat /\ p.upto \in Nat /\ p.from \in Nat /\ Len(O) \in Nat
        /\ p.from <= h /\ p.upto <= Len(O) /\ b <= h /\ Mark \in Nat /\ Mark <= Len(O)
        /\ h + 1 <= Mark /\ c <= p.upto - h
    BY <1>w, <1>u, <1>b, <1>p, <1>s, <1>3
  <2>2. QED BY ONLY <2>1
<1>6. Delivered = Cut(O, b, h + c)
  <2>1. SubSeq(data, 1, c) = Cut(data, 0, c)
    BY DEF Cut
  <2>2. Cut(Cut(O, h, Mark), 0, c) = Cut(O, h + 0, h + c)
    <3> DEFINE Same(w, x, y, i, j) == Cut(Cut(w, x, y), i, j) = Cut(w, x + i, x + j)
    <3>1. \A w \in Seq(Byte), x, y, i, j \in Nat :
             x <= y /\ y <= Len(w) /\ i <= j /\ j <= y - x => Same(w, x, y, i, j)
      BY CutCut
    <3> HIDE DEF Same
    <3>2. h <= Mark /\ 0 <= c /\ 0 \in Nat
      BY <1>s, <1>w, <1>3
    <3>3. Same(O, h, Mark, 0, c)
      BY ONLY <1>u, <1>w, <1>s, <1>3, <3>1, <3>2, Zenon
    <3>4. QED BY <3>3 DEF Same
  <2>3. h + 0 = h
    BY <1>w
  <2>4. SubSeq(data, 1, Chunk) = Cut(O, h, h + c)
    BY <1>3, <1>s, <2>1, <2>2, <2>3
  <2>5. Cut(O, b, h) \o Cut(O, h, h + c) = Cut(O, b, h + c)
    <3>1. /\ O \in Seq(Byte) /\ b \in Nat /\ h \in Nat /\ h + c \in Nat /\ b <= h
          /\ h <= h + c /\ h + c <= Len(O)
      BY <1>u, <1>b, <1>w, <1>p, <1>5
    <3>2. QED BY ONLY <3>1, CutJoin, ZenonT(30)
  <2>6. QED BY <1>p, <2>4, <2>5 DEF Delivered
<1>7. Received = (h + c) - b /\ (Received = blockLen <=> h + c = p.upto)
  <2>1. Received = (h - b) + c /\ blockLen = v
    BY <1>3, <1>p DEF Received
  <2>2. QED BY ONLY <2>1, <1>w, <1>u, <1>b, <1>3
<1>8. CASE PayloadMore
  <2>1. /\ Received # blockLen /\ blockReceived' = Received
        /\ blk' = [blk EXCEPT !.bytes = Delivered]
        /\ UNCHANGED <<mode, blockLen, residue, log>>
    BY <1>8 DEF PayloadMore, rxVars, headVars, scpiVars
  <2>2. blk'.bytes = Delivered
    BY <1>t, <2>1 DEF Block
  <2>3. h + c < p.upto
    BY <1>5, <1>7, <1>u, <2>1
  <2>4. /\ b <= Pos' /\ blockLen' = v /\ blockReceived' = Pos' - b /\ mode' = "BLOCK_PAYLOAD"
        /\ blk'.bytes = Cut(OfClient', b, Pos')
    BY <1>p, <1>u, <1>4, <1>5, <1>6, <1>7, <2>1, <2>2
  <2>5. InPayloadOf(p)'
    BY <1>u, <2>4 DEF InPayloadOf, v, b
  <2>6. InBlock(p)'
    BY <2>1, <2>5 DEF InBlock
  <2>7. QED BY <1>4, <1>5, <2>1, <2>3, <2>6, WorkStays
<1>9. CASE PayloadEnds
  <2> DEFINE e == [kind |-> "block", len |-> blockLen, bytes |-> Delivered, err |-> {}]
  <2>1. /\ Received = blockLen /\ mode' = "TEXT" /\ line' = <<>> /\ residue' = residue
        /\ log' = Append(log, e)
    BY <1>9 DEF PayloadEnds, Finished, scpiVars
  <2>2. h + c = p.upto /\ p.upto - v = b
    BY <1>7, <1>u, <1>b, <2>1
  <2>3. Fresh'
    BY <2>1 DEF Fresh
  <2>4. Delivered \in Seq(Byte)
    BY <1>u, <1>b, <1>5, <1>6, CutFacts
  <2>5. e \in Effect /\ e.kind = "block" /\ e.bytes = Delivered
    BY <1>u, <1>p, <2>4 DEF Effect
  <2> HIDE DEF e
  <2>6. Delivered = Cut(O, p.upto - p.value[O[p.from + 3].v], p.upto)
    BY <1>6, <2>2 DEF v, O, Width
  <2>7. [kind |-> e.kind, bytes |-> Bare(e.bytes)] = Meaning(OfClient, p)
    BY <2>5, <2>6 DEF Meaning, O
  <2>8. ~Silent(p)
    BY DEF Silent
  <2>9. LogKept' /\ Len(log') = Meant(script', k)
    BY <1>w, <1>k, <2>1, <2>5, <2>7, <2>8, PieceExecuted
  <2>10. QED BY <1>k, <1>4, <2>2, <2>3, <2>9, Completed
<1>10. QED BY <1>1, <1>8, <1>9

LEMMA BlockStep ==
  ASSUME NEW k, NEW p, AtWork(k, p), p.block, InBlock(p) PROVE LogKept' /\ Tracked'
BY UploadBegins, UploadHash, UploadDigits, UploadLength, UploadPayload DEF InBlock

------------------------------------------------------------------------------
\* An iteration that gives up leaves the error it gave up for.
LEMMA FaultRaised == ASSUME IInv, Iterate, status' # "OK" PROVE StreamFault
<1>1. Iterating /\ byte.tag \in Tag
  BY Consumed, ByteAtHand
<1>2. status = "OK"
  BY <1>1 DEF Iterating
<1>3. \E code \in Code \ {"COMMAND"} : errors' = ErrorAdd(errors, code, byte.tag)
  <2>1. \/ TextOverflow \/ BlockBadHeader \/ BlockRefused \/ BlockBeginFails
        \/ BlockEmptyEndFails \/ PayloadEndFails \/ PayloadDataFails
    BY <1>2 DEF Iterate, TextBlockStart, TextIgnored, TextLineEnd, TextStore, BlockDigits,
         BlockLenDigit, BlockBegins, BlockEmpty, PayloadMore, PayloadEnds
  <2>2. \E code \in {"EXECUTION_ERROR", "INVALID_BLOCK_DATA", "TOO_MUCH_DATA"} :
          errors' = ErrorAdd(errors, code, byte.tag)
    BY <2>1 DEF TextOverflow, BlockBadHeader, BlockRefused, BlockBeginFails, BlockEmptyEndFails,
         PayloadEndFails, PayloadDataFails, Fail
  <2>3. QED BY <2>2 DEF Code
<1>4. PICK code \in Code \ {"COMMAND"} : errors' = ErrorAdd(errors, code, byte.tag)
  BY <1>3
<1>5. \/ /\ Len(errors') = Len(errors) + 1
         /\ errors'[Len(errors')] = [code |-> code, tag |-> byte.tag]
      \/ errors'[Len(errors')].code = "QUEUE_OVERFLOW"
  BY <1>1, <1>4, ErrorAdded
<1>6. errors'[Len(errors')].code # "COMMAND"
  BY <1>4, <1>5
<1>7. QED BY <1>6 DEF StreamFault

\* Nothing the place in the script depends on has changed.
LEMMA TrackedSame ==
  ASSUME LogKept, Tracked,
         UNCHANGED <<mode, line, residue, ndigits, gotDigits, blockLen, blockReceived, blk, log,
                     script, sess>>,
         Pos' = Pos
  PROVE  LogKept' /\ Tracked'
<1>1. LogKept'
  BY LogKeptSame
<1>2. OfClient' = OfClient
  BY DEF OfClient
<1>3. CASE AtEnd
  <2>1. AtEnd'
    BY <1>3 DEF AtEnd, Fresh
  <2>2. QED BY <1>1, <2>1 DEF Tracked
<1>4. ASSUME NEW k \in 1..Len(script.pieces), At(k) PROVE Tracked'
  <2>p. PICK p : p = script.pieces[k]
    OBVIOUS
  <2>1. /\ p.from <= Pos /\ Pos < p.upto /\ Len(log) = p.did
        /\ IF p.block THEN InBlock(p) ELSE InUnit(p)
    BY <1>4, <2>p DEF At
  <2>2. ASSUME InBlock(p) PROVE InBlock(p)'
    BY <1>2, <2>2 DEF InBlock, AtPrefix, AtHash, AtDigits, InLength, InPayloadOf, Width
  <2>3. ASSUME InUnit(p) PROVE InUnit(p)'
    <3>1. Held(p)' = Held(p)
      BY DEF Held
    <3>2. QED BY <1>2, <2>3, <3>1 DEF InUnit
  <2>4. QED BY <2>p, <2>1, <2>2, <2>3, Stays
<1>5. QED BY <1>1, <1>3, <1>4 DEF Tracked

LEMMA TrackedStep ==
  ASSUME ServerInv, conn = "open", ~faulted, ~inherited, Iterate, status' = "OK",
         UNCHANGED <<conn, sess, script, sent, wire>>
  PROVE  LogKept' /\ Tracked'
<1>1. SessionInv /\ InStep /\ LogKept /\ Tracked
  BY DEF ServerInv
<1>2. CASE AtEnd
  <2>1. Pos \in Nat /\ Pos + 1 <= Mark /\ Mark <= Len(OfClient) /\ Mark \in Nat
    BY <1>1, StreamStep
  <2>2. Len(OfClient) = Len(script.bytes) /\ Len(OfClient) \in Nat
    BY <1>1, Client
  <2>3. Pos = Len(OfClient)
    BY <1>2, <2>2 DEF AtEnd
  <2>4. QED BY ONLY <2>1, <2>2, <2>3
<1>3. ASSUME NEW k \in 1..Len(script.pieces), At(k) PROVE LogKept' /\ Tracked'
  <2>p. PICK p : p = script.pieces[k]
    OBVIOUS
  <2>1. /\ p.from <= Pos /\ Pos < p.upto /\ Len(log) = p.did
        /\ IF p.block THEN InBlock(p) ELSE InUnit(p)
    BY <1>3, <2>p DEF At
  <2>2. AtWork(k, p)
    BY <1>1, <2>p, <2>1 DEF AtWork
  <2>3. QED BY <2>1, <2>2, UnitStep, BlockStep
<1>4. QED BY <1>1, <1>2, <1>3 DEF Tracked

LEMMA ScriptStarts == ServerInit => ServerInv
<1>1. ServerInit => conn # "open"
  BY DEF ServerInit
<1>2. QED BY <1>1, ServerStarts DEF ServerInv, InStep

LEMMA ScriptStep == ServerInv /\ [ServerNext]_serverVars => ServerInv'
<1> SUFFICES ASSUME ServerInv, [ServerNext]_serverVars PROVE ServerInv'
  OBVIOUS
<1>old. /\ SessionInv /\ IInv /\ ServerTypes /\ NothingLeft /\ OnItsWay /\ InStep
        /\ conn = "open" /\ ~faulted /\ ~inherited => LogKept /\ Tracked
  BY DEF ServerInv, SessionInv
<1>new. SessionInv'
  BY <1>old, SessionStep
<1>t. /\ data \in Seq(Byte) /\ Len(data) \in Nat /\ wire \in Seq(Byte) /\ Len(wire) \in Nat
      /\ sent \in Nat
  BY <1>old, Types, LenProperties DEF ServerTypes
<1>empty. Len(<<>>) = 0
  BY EmptySeq
<1>same. ASSUME UNCHANGED <<mode, line, residue, ndigits, gotDigits, blockLen, blockReceived,
                            blk, log, script, sess, conn, faulted, inherited>>,
                Pos' = Pos, InStep'
         PROVE  ServerInv'
  <2>1. conn' = "open" /\ ~faulted' /\ ~inherited' => LogKept' /\ Tracked'
    BY <1>old, <1>same, TrackedSame
  <2>2. QED BY <1>new, <1>same, <2>1 DEF ServerInv
<1>1. CASE Accept
  <2>1. /\ conn = "none" /\ conn' = "open" /\ sess' = 1 - sess /\ script' \in Scripts
        /\ sent' \in 0..Len(script'.bytes)
        /\ wire' = Cut(Stream(script', sess'), 0, sent')
        /\ inherited' = (residue # <<>>) /\ UNCHANGED vars /\ faulted' = faulted
    BY <1>1 DEF Accept
  <2>2. UNCHANGED <<mode, line, residue, log, data, status>>
    BY <2>1 DEF vars, rxVars, scpiVars, appVars
  <2>3. ~inCall /\ mode = "TEXT" /\ line = <<>> /\ log = <<>> /\ data = <<>> /\ status = "OK"
    BY <1>old, <2>1 DEF NothingLeft, ServerTypes, IInv, HeaderInv
  <2>4. sess' \in {0, 1}
    BY <1>old, <2>1 DEF ServerTypes
  <2>5. Mark' = 0
    <3>1. /\ Stream(script', sess') \in Seq(Byte)
          /\ Len(Stream(script', sess')) = Len(script'.bytes) /\ Len(script'.bytes) \in Nat
      BY <2>1, <2>4, StreamIs
    <3>2. sent' \in Nat /\ 0 <= sent' /\ sent' <= Len(script'.bytes) /\ sent' - 0 = sent'
      <4>1. \A b \in Nat : \A a \in 0..b : a \in Nat /\ 0 <= a /\ a <= b /\ a - 0 = a
        OBVIOUS
      <4>2. QED BY ONLY <2>1, <3>1, <4>1, Zenon
    <3>3. Len(wire') = sent'
      BY <2>1, <3>1, <3>2, CutFacts
    <3>4. Mark' = sent' - Len(wire')
      BY DEF Mark
    <3>5. \A a \in Nat : a - a = 0
      OBVIOUS
    <3>6. QED BY ONLY <3>2, <3>3, <3>4, <3>5, Zenon
  <2>6. Len(data') = 0 /\ Pos' = 0
    <3>1. Len(data') = 0
      BY <1>empty, <2>2, <2>3
    <3>2. Pos' = Mark' - Len(data') /\ 0 - 0 = 0
      BY DEF Pos
    <3>3. QED BY <2>5, <3>1, <3>2
  <2>7. InStep'
    <3>1. Cut(OfClient', 0, 0) = <<>>
      BY CutEmpty
    <3>2. QED BY <2>2, <2>3, <2>5, <2>6, <3>1 DEF InStep
  <2>8. /\ Len(script'.means) \in Nat /\ Len(script'.pieces) \in Nat
        /\ 0 \in 0..Len(script'.pieces)
    BY <2>1, <2>4, ScriptPieces
  <2>9. Len(log') = 0
    BY <1>empty, <2>2, <2>3
  <2>10. LogKept'
    BY <2>8, <2>9 DEF LogKept
  <2>11. ASSUME ~inherited' PROVE Tracked'
    <3>1. Fresh'
      BY <2>1, <2>2, <2>3, <2>11 DEF Fresh
    <3>2. Pos' = Upto(script', 0) /\ Len(log') = Meant(script', 0)
      BY <2>6, <2>9 DEF Upto, Meant
    <3>3. QED BY <2>1, <2>4, <2>8, <3>1, <3>2, NextPiece
  <2>12. QED BY <1>new, <2>7, <2>10, <2>11 DEF ServerInv
<1>2. CASE Recv
  <2>0. /\ conn = "open"
        /\ \E n \in 1..(IF Len(wire) < MaxChunk THEN Len(wire) ELSE MaxChunk) :
             /\ OnRxEnter(Cut(wire, 0, n), FALSE)
             /\ wire' = Cut(wire, n, Len(wire))
        /\ UNCHANGED <<sessionVars, faulted>>
    BY <1>2 DEF Recv
  <2>1. PICK n \in 1..(IF Len(wire) < MaxChunk THEN Len(wire) ELSE MaxChunk) :
             /\ OnRxEnter(Cut(wire, 0, n), FALSE)
             /\ wire' = Cut(wire, n, Len(wire))
    BY <2>0
  <2>2. n \in Nat /\ n <= Len(wire) /\ 0 <= n /\ n - 0 = n
    BY <1>t, ChunkAssumption
  <2>3. /\ ~inCall /\ data' = Cut(wire, 0, n)
        /\ UNCHANGED <<mode, line, residue, ndigits, gotDigits, blockLen, blockReceived, blk, log,
                       status>>
    BY <2>1 DEF OnRxEnter, rxVars, headVars, bodyVars, scpiVars, appVars
  <2>4. UNCHANGED <<conn, sess, script, sent, inherited, faulted>>
    BY <2>0 DEF sessionVars
  <2>5. OfClient' = OfClient
    BY <2>4 DEF OfClient
  <2>6. /\ OfClient \in Seq(Byte) /\ Mark \in Nat /\ Mark <= sent /\ sent <= Len(OfClient)
        /\ Len(OfClient) \in Nat
    BY <1>old, <2>0, Client
  <2>7. sent - Mark = Len(wire) /\ wire = Cut(OfClient, Mark, sent)
    <3>1. Len(wire) <= sent /\ wire = Cut(OfClient, Mark, sent)
      BY <1>old, <2>0 DEF OnItsWay
    <3>2. QED BY <1>t, <3>1 DEF Mark
  <2>8. Len(wire') = Len(wire) - n
    BY <1>t, <2>1, <2>2, CutEnd
  <2>9. Mark' = Mark + n
    <3>1. Mark' = sent - Len(wire')
      BY <2>4 DEF Mark
    <3>2. /\ n \in Nat /\ n <= Len(wire) /\ Len(wire) \in Nat /\ sent \in Nat /\ Mark \in Nat
          /\ sent - Mark = Len(wire) /\ Len(wire') = Len(wire) - n
      BY <1>t, <2>2, <2>6, <2>7, <2>8
    <3>3. QED BY ONLY <3>1, <3>2
  <2>10. Len(data') = n
    BY <1>t, <2>2, <2>3, CutFacts
  <2>11. Pos = Mark /\ Pos' = Mark
    <3>1. Len(data) = 0
      BY <1>old, <1>empty, <2>3 DEF ServerTypes
    <3>2. Pos = Mark - Len(data) /\ Pos' = Mark' - Len(data')
      BY DEF Pos
    <3>3. QED BY ONLY <2>2, <2>6, <2>9, <2>10, <3>1, <3>2
  <2>12. data' = Cut(OfClient', Pos', Mark')
    <3> DEFINE Same(w, x, y, i, j) == Cut(Cut(w, x, y), i, j) = Cut(w, x + i, x + j)
    <3>1. \A w \in Seq(Byte), x, y, i, j \in Nat :
             x <= y /\ y <= Len(w) /\ i <= j /\ j <= y - x => Same(w, x, y, i, j)
      BY CutCut
    <3> HIDE DEF Same
    <3>2. n <= sent - Mark /\ 0 \in Nat
      BY <2>2, <2>7
    <3>3. Same(OfClient, Mark, sent, 0, n)
      BY ONLY <1>t, <2>2, <2>6, <3>1, <3>2, Zenon
    <3>4. Cut(Cut(OfClient, Mark, sent), 0, n) = Cut(OfClient, Mark + 0, Mark + n)
      BY <3>3 DEF Same
    <3>5. Mark + 0 = Mark
      BY <2>6
    <3>6. QED BY <2>3, <2>5, <2>7, <2>9, <2>11, <3>4, <3>5
  <2>13. n <= Mark + n
    BY <2>2, <2>6
  <2>14. InStep'
    BY <1>old, <2>0, <2>3, <2>4, <2>9, <2>10, <2>12, <2>13 DEF InStep
  <2>15. QED BY <1>same, <2>3, <2>4, <2>11, <2>14
<1>3. CASE OnRxStep
  <2>0. /\ Iterate \/ OnRxReturn
        /\ faulted' = (faulted \/ StreamFault)
        /\ UNCHANGED <<conn, sess, script, sent, inherited, wire>>
    BY <1>3 DEF OnRxStep, sessionVars
  <2>1. CASE Iterate
    <3>1. ASSUME conn' = "open", ~faulted'
          PROVE  conn = "open" /\ ~faulted /\ status' = "OK"
      <4>1. ~faulted /\ ~StreamFault
        BY <2>0, <3>1, Zenon
      <4>2. QED BY <1>old, <2>0, <2>1, <3>1, <4>1, FaultRaised
    <3>2. InStep'
      <4>1. ASSUME conn' = "open", ~faulted'
            PROVE  Len(data') <= Mark' /\ data' = Cut(OfClient', Pos', Mark')
        BY <1>old, <2>0, <2>1, <3>1, <4>1, StreamStep
      <4>2. QED BY <3>1, <4>1 DEF InStep
    <3>3. ASSUME conn' = "open", ~faulted', ~inherited' PROVE LogKept' /\ Tracked'
      BY <2>0, <2>1, <3>1, <3>3, TrackedStep
    <3>4. QED BY <1>new, <3>2, <3>3 DEF ServerInv
  <2>2. CASE OnRxReturn
    <3>1. status' = "OK" /\ data' = <<>> /\ (data = <<>> \/ status # "OK")
      BY <2>2 DEF OnRxReturn
    <3>2. UNCHANGED <<ndigits, gotDigits, blockLen, blockReceived, blk, residue, log>>
      BY <1>old, <2>2 DEF OnRxReturn, ServerTypes, headVars, scpiVars
    <3>3. CASE conn = "open" /\ ~faulted'
      <4>1. ~faulted /\ status = "OK"
        BY <1>old, <2>0, <3>3 DEF InStep
      <4>2. data = <<>> /\ data' = data /\ status' = status
        BY <3>1, <4>1
      <4>3. UNCHANGED <<mode, line>>
        BY <1>old, <2>2, <4>1 DEF OnRxReturn, ServerTypes
      <4>4. Pos' = Pos /\ OfClient' = OfClient /\ Mark' = Mark
        BY <2>0, <4>2 DEF Pos, Mark, OfClient
      <4>5. InStep'
        BY <1>old, <2>0, <4>1, <4>2, <4>4 DEF InStep
      <4>6. faulted' = faulted
        <5>1. faulted \in BOOLEAN /\ faulted' \in BOOLEAN
          BY <1>old, <1>new DEF ServerTypes, SessionInv
        <5>2. QED BY ONLY <3>3, <4>1, <5>1, Zenon
      <4>7. QED BY <1>same, <2>0, <3>2, <4>3, <4>4, <4>5, <4>6
    <3>4. CASE ~(conn = "open" /\ ~faulted')
      BY <1>new, <2>0, <3>4 DEF ServerInv, InStep
    <3>5. QED BY <3>3, <3>4
  <2>3. QED BY <2>0, <2>1, <2>2
<1>4. CASE Hangup
  <2>1. conn' # "open"
    BY <1>4 DEF Hangup
  <2>2. QED BY <1>new, <2>1 DEF ServerInv, InStep
<1>5. CASE UNCHANGED serverVars
  <2>1. UNCHANGED <<vars, conn, sess, script, sent, inherited, wire, faulted>>
    BY <1>5 DEF serverVars, sessionVars
  <2>2. UNCHANGED <<mode, line, residue, ndigits, gotDigits, blockLen, blockReceived, blk, log,
                    data, status>>
    BY <2>1 DEF vars, rxVars, headVars, bodyVars, scpiVars, appVars
  <2>3. Pos' = Pos /\ OfClient' = OfClient /\ Mark' = Mark
    BY <2>1, <2>2 DEF Pos, Mark, OfClient
  <2>4. InStep'
    BY <1>old, <2>1, <2>2, <2>3 DEF InStep
  <2>5. QED BY <1>same, <2>1, <2>2, <2>3, <2>4
<1>6. QED BY <1>1, <1>2, <1>3, <1>4, <1>5 DEF ServerNext

\* What is executed is a beginning of what is meant, and all of it once nothing
\* is on its way.
LEMMA ExecutedAsMeant == ServerInv => ScriptExecuted
<1> SUFFICES ASSUME ServerInv PROVE ScriptExecuted
  OBVIOUS
<1>1. ASSUME conn = "open", ~faulted, ~inherited
      PROVE  /\ Len(Done) <= Len(script.means) /\ Done = SubSeq(script.means, 1, Len(Done))
             /\ wire = <<>> /\ ~inCall /\ whole => Done = script.means
  <2>1. /\ SessionInv /\ IInv /\ ServerTypes /\ LogKept /\ Tracked
    BY <1>1 DEF ServerInv, SessionInv
  <2>2. /\ script \in Scripts /\ sess \in {0, 1} /\ Len(OfClient) = Len(script.bytes)
        /\ Len(OfClient) \in Nat
    BY <1>1, <2>1, Client
  <2>3. script.means \in Seq(Deed) /\ Len(script.means) \in Nat
    BY <2>2, ScriptPieces
  <2> DEFINE n == Len(log)
             m == script.means
  <2>4. /\ n \in Nat /\ n <= Len(m)
        /\ \A i \in 1..n : [kind |-> log[i].kind, bytes |-> Bare(log[i].bytes)] = m[i]
    BY <2>1, Types DEF LogKept
  <2>5. Done = [i \in 1..n |-> m[i]]
    BY <2>4, Zenon DEF Done
  <2> HIDE DEF n, m
  <2>6. \A i \in 1..n : i \in 1..Len(m) /\ m[i] \in Deed
    BY <2>3, <2>4, ElementOfSeq DEF m
  <2>7. [i \in 1..n |-> m[i]] \in Seq(Deed)
    BY <2>4, <2>6, IsASeq
  <2>8. Done \in Seq(Deed) /\ Len(Done) = n /\ \A i \in 1..n : Done[i] = m[i]
    BY <2>4, <2>5, <2>7, LenProperties
  <2>9. /\ SubSeq(m, 1, n) \in Seq(Deed)
        /\ Len(SubSeq(m, 1, n)) = n
        /\ \A i \in 1..n : SubSeq(m, 1, n)[i] = m[i]
    <3>1. \A i \in 1..n : m[i] \in Deed
      BY <2>6
    <3>2. /\ SubSeq(m, 1, n) \in Seq(Deed)
          /\ Len(SubSeq(m, 1, n)) = IF 1 <= n THEN n - 1 + 1 ELSE 0
          /\ \A i \in 1..(n - 1 + 1) : SubSeq(m, 1, n)[i] = m[1 + i - 1]
      BY <2>3, <2>4, <3>1, SubSeqProperties DEF m
    <3>3. n - 1 + 1 = n /\ (~(1 <= n) => n = 0) /\ \A i \in 1..n : 1 + i - 1 = i
      BY <2>4
    <3>4. QED BY ONLY <3>2, <3>3
  <2>10. Done = SubSeq(m, 1, n)
    BY <2>8, <2>9, SeqEqual
  <2>11. ASSUME wire = <<>>, ~inCall, whole PROVE Done = m
    <3>1. Pos = Len(script.bytes) /\ Pos \in Nat
      <4>1. Len(wire) = 0 /\ Len(data) = 0
        BY <2>1, <2>11, EmptySeq DEF ServerTypes
      <4>2. Pos = (sent - 0) - 0 /\ sent = Len(script.bytes)
        BY <2>11, <4>1 DEF Pos, Mark, whole
      <4>3. QED BY ONLY <2>2, <4>2
    <3>2. AtEnd
      <4>1. ASSUME NEW k \in 1..Len(script.pieces), At(k) PROVE FALSE
        <5>p. PICK p : p = script.pieces[k]
          OBVIOUS
        <5>1. Pos < p.upto
          BY <4>1, <5>p DEF At
        <5>2. p.upto \in Nat /\ p.upto <= Len(script.bytes)
          BY <2>2, <5>p, PieceIs
        <5>3. QED BY ONLY <2>2, <3>1, <5>1, <5>2
      <4>2. QED BY <2>1, <4>1 DEF Tracked
    <3>3. Len(m) = n
      BY <3>2 DEF AtEnd, n, m
    <3>4. QED BY <2>3, <2>8, <3>3, SeqEqual DEF m
  <2>12. QED BY <2>4, <2>8, <2>10, <2>11 DEF m
<1>2. QED BY <1>1 DEF ScriptExecuted, ExecutesTheScript, NothingDropped

\* A client's script is executed exactly as it is meant, byte for byte and in
\* order, wherever recv() cuts it, until its stream fails; and a client that
\* stays to send all of it has all of it executed (usbscpi_on_rx, feed_line,
\* line_separator, serve_client): for scripts of any length that keep to the
\* pieces, and buffers of any size.
THEOREM ScriptsExecuted == ServerSpec => []ScriptExecuted
<1>1. ServerInv /\ [ServerNext]_serverVars => ServerInv'
  BY ScriptStep
<1>2. ServerInv => ScriptExecuted
  BY ExecutedAsMeant
<1>3. QED BY ScriptStarts, <1>1, <1>2, PTL DEF ServerSpec
=============================================================================
