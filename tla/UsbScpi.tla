------------------------------- MODULE UsbScpi -------------------------------
(***************************************************************************)
(* The receive path of the component core (src/usbscpi.c): a byte-fed      *)
(* state machine that collects SCPI text lines for libscpi and diverts the *)
(* payload of DATA:WRITE definite-length blocks straight to the            *)
(* application's callbacks.                                                *)
(*                                                                         *)
(* One call of usbscpi_on_rx() runs under the context lock.  It is a       *)
(* sequence of steps here, one per iteration of its loop, between          *)
(* OnRxEnter and OnRxReturn.                                               *)
(*                                                                         *)
(* A byte is the class the code tells apart, the value of a digit, and a   *)
(* tag the code cannot see, which says where the byte came from.  The      *)
(* eleven characters "DATA:WRITE " are one byte of class "write", and      *)
(* "SYST:ERR?" is one byte of class "errq".                                *)
(***************************************************************************)
EXTENDS Integers, Sequences

CONSTANTS
  Tag,          \* provenance of a byte, invisible to the code
  Buffers,      \* the receive buffers a transport may hand over
  Eoms,         \* the values of the end-of-message flag a transport passes
  LineBufLen,   \* cfg.line_buf_len
  ScpiBufLen,   \* USBSCPI_INPUT_BUF_LEN, libscpi's working buffer
  MaxBlockLen,  \* cfg.max_block_len, 0 for no limit
  ErrQueueLen,  \* USBSCPI_ERR_QUEUE_LEN
  MayFail,      \* the application callbacks that may report failure
  MaxLog        \* bound of the exploration: effects before calls stop

Class == {"write", "errq", "hash", "digit", "semi", "nl", "cr", "quote", "char"}
Byte == [c : Class, v : 0..9, tag : Tag]

ASSUME BuffersAssumption == Buffers \subseteq Seq(Byte)
ASSUME EomsAssumption == Eoms \subseteq BOOLEAN
ASSUME LengthsAssumption ==
  /\ LineBufLen \in Nat /\ LineBufLen >= 2
  /\ ScpiBufLen \in Nat \ {0}
  /\ MaxBlockLen \in Nat
  /\ ErrQueueLen \in Nat \ {0}
  /\ MaxLog \in Nat
ASSUME MayFailAssumption == MayFail \subseteq {"begin", "data", "end", "cmd"}

VARIABLES
  mode, line,                       \* text collected so far, without its NUL
  ndigits, gotDigits,               \* length field of a block header
  blockLen, blockReceived, blockStarted,
  residue,                          \* scpi.buffer: fed to libscpi, not parsed yet
  errors,                           \* libscpi's error queue
  inCall, data, eom, status,        \* the usbscpi_on_rx() call in progress
  blk,                              \* the block as the application has seen it
  log                               \* commands executed and blocks completed
                                    \* since the context was last cleared

rxVars    == <<mode, line>>
headVars  == <<ndigits, gotDigits, blockLen>>
bodyVars  == <<blockReceived, blockStarted>>
scpiVars  == <<residue, errors>>
callVars  == <<inCall, eom>>
appVars   == <<blk, log>>
vars == <<rxVars, headVars, bodyVars, scpiVars, callVars, data, status, appVars>>

Mode   == {"TEXT", "BLOCK_DIGITS", "BLOCK_LEN", "BLOCK_PAYLOAD"}
Status == {"OK", "OVERFLOW", "PROTOCOL", "CALLBACK"}
Code   == {"EXECUTION_ERROR", "TOO_MUCH_DATA", "INVALID_BLOCK_DATA",
           "INPUT_BUFFER_OVERRUN", "COMMAND", "QUEUE_OVERFLOW"}
Error  == [code : Code, tag : Tag]
Effect == [kind : {"cmd", "errq", "block"}, len : Nat, bytes : Seq(Byte),
           err : SUBSET Error]   \* the error popped or queued
Block  == [open : BOOLEAN, len : Nat, bytes : Seq(Byte)]
NoBlock == [open |-> FALSE, len |-> 0, bytes |-> <<>>]

------------------------------------------------------------------------------
(* The error queue (libscpi error.c and fifo.c). *)

\* SCPI_ErrorAddInternal: when the queue is full its newest entry becomes the
\* overflow marker.
ErrorAdd(q, code, tag) ==
  IF Len(q) < ErrQueueLen
  THEN Append(q, [code |-> code, tag |-> tag])
  ELSE [q EXCEPT ![Len(q)] = [code |-> "QUEUE_OVERFLOW", tag |-> tag]]

------------------------------------------------------------------------------
(* Lexing of a retained line. *)

ScanState == [m : {"plain", "hash", "digits", "skip", "bad", "quote"},
              n : 0..9, k : Nat]

\* One byte of the scan that line_separator and libscpi's lexer both make:
\* inside quotes, after '#', in the n digits left of an inline block's length
\* k, in its k bytes left, or past a length field with a non-digit in it.
ScanStep[st \in ScanState, b \in Byte] ==
  CASE st.m = "quote"  -> IF b.c = "quote" THEN [st EXCEPT !.m = "plain"] ELSE st
    [] st.m = "skip"   -> IF st.k = 1 THEN [m |-> "plain", n |-> 0, k |-> 0]
                                      ELSE [st EXCEPT !.k = @ - 1]
    [] st.m = "bad"    -> IF st.n = 0 THEN st ELSE [st EXCEPT !.n = @ - 1]
    [] st.m = "digits" ->
         LET k == 10 * st.k + b.v
         IN IF b.c # "digit"            THEN [m |-> "bad", n |-> st.n - 1, k |-> 0]
            ELSE IF st.n > 1            THEN [m |-> "digits", n |-> st.n - 1, k |-> k]
            ELSE IF st.n = 1 /\ k > 0   THEN [m |-> "skip", n |-> 0, k |-> k]
                                        ELSE [m |-> "plain", n |-> 0, k |-> 0]
    [] st.m = "hash" /\ b.c = "digit" /\ b.v > 0
                       -> [m |-> "digits", n |-> b.v, k |-> 0]
    [] OTHER           -> [m |-> CASE b.c = "quote" -> "quote"
                                   [] b.c = "hash"  -> "hash"
                                   [] OTHER         -> "plain",
                           n |-> 0, k |-> 0]

Scan(s) ==
  LET upto[i \in 0..Len(s)] ==
        IF i = 0 THEN [m |-> "plain", n |-> 0, k |-> 0]
                 ELSE ScanStep[upto[i - 1], s[i]]
  IN upto[Len(s)]

\* line_separator: would a ';' after this line end a command?
LineSeparator(l) ==
  LET st == Scan(l) IN st.m \in {"plain", "hash"} \/ (st.m = "bad" /\ st.n = 0)

\* line_is_data_write_prefix
LineIsDataWritePrefix(l) == Len(l) = 1 /\ l[1].c = "write"

\* Does the newline that ends this buffer end a program message for libscpi?
\* Not while it falls among the bytes of an inline arbitrary block.
Terminated(buf) == Scan(SubSeq(buf, 1, Len(buf) - 1)).m # "skip"

------------------------------------------------------------------------------
(* Handing a line to libscpi. *)

\* SCPI_Parse of one terminated program message; an empty one does nothing,
\* the error query pops the queue, any other command may fail, and a failure
\* is queued.
Execute(unit, tag) ==
  \/ /\ unit = <<>>
     /\ UNCHANGED <<errors, log>>
  \/ /\ Len(unit) = 1 /\ unit[1].c = "errq"
     /\ log' = Append(log, [kind |-> "errq", len |-> 0, bytes |-> unit,
                            err |-> IF errors = <<>> THEN {} ELSE {Head(errors)}])
     /\ errors' = IF errors = <<>> THEN errors ELSE Tail(errors)
  \/ /\ unit # <<>> /\ ~(Len(unit) = 1 /\ unit[1].c = "errq")
     /\ \/ /\ log' = Append(log, [kind |-> "cmd", len |-> 0, bytes |-> unit,
                                  err |-> {}])
           /\ UNCHANGED errors
        \/ /\ "cmd" \in MayFail
           /\ log' = Append(log, [kind |-> "cmd", len |-> 0, bytes |-> unit,
                                  err |-> {[code |-> "COMMAND", tag |-> tag]}])
           /\ errors' = ErrorAdd(errors, "COMMAND", tag)

\* feed_line and SCPI_Input: the line joins what libscpi still holds.
\* feed_line ignores the command's result.
FeedLine(l, tag) ==
  LET buf == residue \o l
  IN \/ /\ Len(buf) > ScpiBufLen - 1
        /\ residue' = <<>>
        /\ errors' = ErrorAdd(errors, "INPUT_BUFFER_OVERRUN", tag)
        /\ UNCHANGED log
     \/ /\ Len(buf) <= ScpiBufLen - 1 /\ ~Terminated(buf)
        /\ residue' = buf
        /\ UNCHANGED <<errors, log>>
     \/ /\ Len(buf) <= ScpiBufLen - 1 /\ Terminated(buf)
        /\ residue' = <<>>
        /\ Execute(SubSeq(buf, 1, Len(buf) - 1), tag)

NewLine(tag) == [c |-> "nl", v |-> 0, tag |-> tag]
------------------------------------------------------------------------------
(* usbscpi_on_rx, one iteration of its loop at a time. *)

Init ==
  /\ mode = "TEXT" /\ line = <<>>
  /\ ndigits = 0 /\ gotDigits = 0 /\ blockLen = 0
  /\ blockReceived = 0 /\ blockStarted = FALSE
  /\ residue = <<>> /\ errors = <<>>
  /\ inCall = FALSE /\ data = <<>> /\ eom = FALSE /\ status = "OK"
  /\ blk = NoBlock
  /\ log = <<>>

\* The transport calls usbscpi_on_rx(d, e), which takes the lock.
OnRxEnter(d, e) ==
  /\ ~inCall
  /\ inCall' = TRUE /\ data' = d /\ eom' = e
  /\ UNCHANGED <<rxVars, headVars, bodyVars, scpiVars, status, appVars>>

Iterating == inCall /\ status = "OK" /\ data # <<>>
InText    == Iterating /\ mode = "TEXT"
byte      == Head(data)
Consume   == data' = Tail(data)

\* The iteration queues an error and ends the loop with a failure code.
FailQuietly(code, st) == errors' = errors /\ status' = st  \* fault: not pushed
Fail(code, st) ==
  /\ errors' = ErrorAdd(errors, code, byte.tag)
  /\ status' = st

StartsBlock == byte.c = "hash" /\ LineIsDataWritePrefix(line)
EndsLineAnywhere == byte.c \in {"nl", "semi"}  \* fault: quotes, blocks not seen
EndsLine    == byte.c = "nl" \/ (byte.c = "semi" /\ LineSeparator(line))
LineFullLate == Len(line) + 1 > LineBufLen  \* fault: off by one
LineFull    == Len(line) + 1 >= LineBufLen
Ordinary    == ~StartsBlock /\ byte.c # "cr" /\ ~EndsLine

TextBlockStart ==
  /\ InText /\ StartsBlock /\ Consume
  /\ mode' = "BLOCK_DIGITS" /\ line' = <<>>
  /\ UNCHANGED <<headVars, bodyVars, scpiVars, callVars, status, appVars>>

TextIgnoredInPlace ==  \* fault: the byte is not consumed
  InText /\ byte.c = "cr" /\ UNCHANGED vars
TextIgnored ==
  /\ InText /\ byte.c = "cr" /\ Consume
  /\ UNCHANGED <<rxVars, headVars, bodyVars, scpiVars, callVars, status, appVars>>

TextLineEnd ==
  /\ InText /\ EndsLine /\ Consume
  /\ FeedLine(Append(line, NewLine(byte.tag)), byte.tag)
  /\ line' = <<>>
  /\ UNCHANGED <<mode, headVars, bodyVars, callVars, status, blk>>

TextOverflow ==
  /\ InText /\ Ordinary /\ Consume
  /\ LineFull
  /\ Fail("EXECUTION_ERROR", "OVERFLOW")
  /\ line' = <<>>
  /\ UNCHANGED <<mode, headVars, bodyVars, residue, callVars, appVars>>

TextStore ==
  /\ InText /\ Ordinary /\ Consume
  /\ ~LineFull
  /\ line' = Append(line, byte)
  /\ UNCHANGED <<mode, headVars, bodyVars, scpiVars, callVars, status, appVars>>

BlockDigits ==
  /\ Iterating /\ mode = "BLOCK_DIGITS" /\ Consume
  /\ byte.c = "digit" /\ byte.v > 0
  /\ mode' = "BLOCK_LEN" /\ ndigits' = byte.v
  /\ gotDigits' = 0 /\ blockLen' = 0 /\ blockReceived' = 0
  /\ UNCHANGED <<line, blockStarted, scpiVars, callVars, status, appVars>>

BlockBadHeader ==
  /\ Iterating /\ Consume
  /\ \/ mode = "BLOCK_DIGITS" /\ ~(byte.c = "digit" /\ byte.v > 0)
     \/ mode = "BLOCK_LEN" /\ byte.c # "digit"
  /\ Fail("INVALID_BLOCK_DATA", "PROTOCOL")
  /\ UNCHANGED <<rxVars, headVars, bodyVars, residue, callVars, appVars>>

\* The length with the digit at hand, and whether that digit is the last.
Length       == 10 * blockLen + byte.v
AllDigits    == gotDigits + 1 = ndigits
LengthDigit  == Iterating /\ mode = "BLOCK_LEN" /\ byte.c = "digit" /\ Consume
                /\ blockLen' = Length /\ gotDigits' = gotDigits + 1
LastDigit    == LengthDigit /\ AllDigits

BlockLenDigit ==
  /\ LengthDigit /\ ~AllDigits
  /\ UNCHANGED <<rxVars, ndigits, bodyVars, scpiVars, callVars, status, appVars>>

\* block_begin: the block is larger than the application takes.
BlockRefused ==
  /\ LastDigit /\ ~blockStarted
  /\ MaxBlockLen > 0 /\ Length > MaxBlockLen
  /\ Fail("TOO_MUCH_DATA", "OVERFLOW")
  /\ mode' = "BLOCK_PAYLOAD"
  /\ UNCHANGED <<line, ndigits, bodyVars, residue, callVars, appVars>>

BlockFits == blockStarted \/ MaxBlockLen = 0 \/ Length <= MaxBlockLen

\* block_begin: on_block_begin reports failure.
BlockBeginFails ==
  /\ LastDigit /\ BlockFits /\ ~blockStarted /\ "begin" \in MayFail
  /\ Fail("EXECUTION_ERROR", "CALLBACK")
  /\ mode' = "BLOCK_PAYLOAD" /\ blockStarted' = TRUE
  /\ blk' = NoBlock
  /\ UNCHANGED <<line, ndigits, blockReceived, residue, callVars, log>>

\* block_begin succeeds.  A block that counts as started is not begun again.
BlockBegins ==
  /\ LastDigit /\ BlockFits /\ Length > 0
  /\ mode' = "BLOCK_PAYLOAD" /\ blockStarted' = TRUE
  /\ blk' = IF blockStarted THEN blk
            ELSE [open |-> TRUE, len |-> Length, bytes |-> <<>>]
  /\ UNCHANGED <<line, ndigits, blockReceived, scpiVars, callVars, status, log>>

\* block_finish: on_block_end(len) accepts the bytes delivered, and the
\* parser is back in text.
Finished(len, bytes) ==
  /\ mode' = "TEXT" /\ line' = <<>> /\ ndigits' = 0 /\ gotDigits' = 0
  /\ blockLen' = 0 /\ blockReceived' = 0 /\ blockStarted' = FALSE
  /\ blk' = NoBlock
  /\ log' = Append(log, [kind |-> "block", len |-> len, bytes |-> bytes,
                         err |-> {}])

\* A block of no bytes begins and ends on its last length digit.
BlockEmpty ==
  /\ Iterating /\ mode = "BLOCK_LEN" /\ byte.c = "digit" /\ Consume
  /\ AllDigits /\ BlockFits /\ Length = 0
  /\ Finished(0, <<>>)
  /\ UNCHANGED <<scpiVars, callVars, status>>

BlockEmptyEndFails ==
  /\ LastDigit /\ BlockFits /\ Length = 0 /\ "end" \in MayFail
  /\ Fail("EXECUTION_ERROR", "CALLBACK")
  /\ mode' = "BLOCK_PAYLOAD" /\ blockStarted' = TRUE
  /\ blk' = NoBlock
  /\ UNCHANGED <<line, ndigits, blockReceived, residue, callVars, log>>

\* What on_block_data is handed: all that the block still lacks, or all that
\* this receive buffer still holds.
InPayload == Iterating /\ mode = "BLOCK_PAYLOAD"
ChunkAll == Len(data)  \* fault: what the block still lacks is not asked
ChunkShort == LET remaining == blockLen - blockReceived - 1  \* fault: off by one
              IN IF remaining < Len(data) THEN remaining ELSE Len(data)
Chunk == LET remaining == blockLen - blockReceived
         IN IF remaining < Len(data) THEN remaining ELSE Len(data)
Received  == blockReceived + Chunk
Delivered == blk.bytes \o SubSeq(data, 1, Chunk)
Skip      == data' = SubSeq(data, Chunk + 1, Len(data))

PayloadMore ==
  /\ InPayload /\ Received # blockLen /\ Skip
  /\ blockReceived' = Received
  /\ blk' = [blk EXCEPT !.bytes = Delivered]
  /\ UNCHANGED <<rxVars, headVars, blockStarted, scpiVars, callVars, status, log>>

PayloadEnds ==
  /\ InPayload /\ Received = blockLen /\ Skip
  /\ Finished(blockLen, Delivered)
  /\ UNCHANGED <<scpiVars, callVars, status>>

PayloadEndFails ==
  /\ InPayload /\ Received = blockLen /\ "end" \in MayFail /\ Skip
  /\ Fail("EXECUTION_ERROR", "CALLBACK")
  /\ blockReceived' = Received
  /\ blk' = NoBlock
  /\ UNCHANGED <<rxVars, headVars, blockStarted, residue, callVars, log>>

PayloadDataFails ==
  /\ InPayload /\ Chunk # 0 /\ "data" \in MayFail
  /\ Fail("EXECUTION_ERROR", "CALLBACK")
  /\ blk' = NoBlock
  /\ UNCHANGED <<rxVars, headVars, bodyVars, residue, callVars, data, log>>

Iterate ==
  \/ TextBlockStart \/ TextIgnored \/ TextLineEnd \/ TextOverflow \/ TextStore
  \/ BlockDigits \/ BlockBadHeader \/ BlockLenDigit \/ BlockRefused
  \/ BlockBeginFails \/ BlockBegins \/ BlockEmpty \/ BlockEmptyEndFails
  \/ PayloadMore \/ PayloadEnds \/ PayloadEndFails \/ PayloadDataFails

\* The end of the loop: a line the message ended without terminator is executed
\* (its length check repeats TextOverflow's and cannot fail), a failure resets
\* the parser, and the bytes behind a failure are dropped.
OnRxReturn ==
  /\ inCall /\ (data = <<>> \/ status # "OK")
  /\ LET flush == status = "OK" /\ eom /\ mode = "TEXT" /\ line # <<>>
         reset == status # "OK"
         tag   == line[Len(line)].tag
     IN /\ \/ flush /\ FeedLine(Append(line, NewLine(tag)), tag)
           \/ ~flush /\ UNCHANGED <<scpiVars, log>>
        /\ line' = IF flush \/ reset THEN <<>> ELSE line
        /\ mode' = IF reset THEN "TEXT" ELSE mode
        /\ blockStarted' = IF reset THEN FALSE ELSE blockStarted
  /\ inCall' = FALSE /\ data' = <<>> /\ eom' = FALSE /\ status' = "OK"
  /\ UNCHANGED <<headVars, blockReceived, blk>>

------------------------------------------------------------------------------
\* usbscpi_clear, which a transport calls between sessions.  The application is
\* not told of a block it cuts off: it just never hears of it again.
ClearKeepsErrors ==  \* fault: the error queue survives
  /\ ~inCall
  /\ mode' = "TEXT" /\ line' = <<>> /\ ndigits' = 0 /\ gotDigits' = 0
  /\ blockLen' = 0 /\ blockReceived' = 0 /\ blockStarted' = FALSE
  /\ blk' = NoBlock /\ log' = <<>>
  /\ UNCHANGED <<errors, residue, callVars, data, status>>
Clear ==
  /\ ~inCall
  /\ mode' = "TEXT" /\ line' = <<>> /\ ndigits' = 0 /\ gotDigits' = 0
  /\ blockLen' = 0 /\ blockReceived' = 0 /\ blockStarted' = FALSE
  /\ errors' = <<>>
  /\ blk' = NoBlock /\ log' = <<>>
  /\ UNCHANGED <<residue, callVars, data, status>>

OnRx == Len(log) < MaxLog /\ \E d \in Buffers, e \in Eoms : OnRxEnter(d, e)

Next == OnRx \/ Iterate \/ OnRxReturn \/ Clear

Spec == Init /\ [][Next]_vars

\* The thread inside usbscpi_on_rx runs on; nobody has to call it or clear.
FairSpec == Spec /\ WF_vars(Iterate \/ OnRxReturn)

------------------------------------------------------------------------------
RxTypeOK ==
  /\ mode \in Mode /\ line \in Seq(Byte)
  /\ ndigits \in 0..9 /\ gotDigits \in 0..9 /\ blockLen \in Nat
  /\ blockReceived \in Nat
ScpiTypeOK == residue \in Seq(Byte) /\ errors \in Seq(Error)
CallTypeOK == data \in Seq(Byte) /\ status \in Status
FlagTypeOK == blockStarted \in BOOLEAN /\ inCall \in BOOLEAN /\ eom \in BOOLEAN
AppTypeOK == blk \in Block /\ log \in Seq(Effect)

\* The type invariant.
TypeOK == RxTypeOK /\ ScpiTypeOK /\ CallTypeOK /\ FlagTypeOK /\ AppTypeOK

\* No buffer is written past its end: the next text byte, and the newline that
\* is stored without a check of its own, fit in line_buf; what libscpi holds
\* leaves room for its NUL; the error queue keeps to its array.
BuffersInBounds ==
  /\ Len(line) + 1 <= LineBufLen
  /\ Len(residue) <= ScpiBufLen - 1
  /\ Len(errors) <= ErrQueueLen

\* While the parser expects payload the application has been told of exactly
\* this block, has received exactly the bytes counted, and lacks at least one,
\* so the loop always makes progress; no block counts as begun outside payload,
\* which would make block_begin skip the next one's on_block_begin.
BlockContract ==
  /\ mode = "BLOCK_PAYLOAD" /\ status = "OK" =>
       /\ blockStarted /\ blk.open /\ blk.len = blockLen
       /\ Len(blk.bytes) = blockReceived /\ blockReceived < blockLen
  /\ mode # "BLOCK_PAYLOAD" => ~blockStarted

\* A block that reaches on_block_end delivered every byte it announced and no
\* more, and no larger one than the application allows ever gets there.
BlocksWhole ==
  \A i \in 1..Len(log) : log[i].kind = "block" =>
    /\ Len(log[i].bytes) = log[i].len
    /\ MaxBlockLen > 0 => log[i].len <= MaxBlockLen

\* The application hears of one whole block after another: begun once, with
\* its true length, and ended only when every byte has been delivered.
BlocksKept == BlockContract /\ BlocksWhole

\* A call that gives up on its buffer leaves an error for the host to read.
FailureIsQueued == status # "OK" => errors # <<>>

\* Every call of usbscpi_on_rx releases the lock: no byte sequence keeps the
\* loop from advancing.
CallReturns == inCall ~> ~inCall
==============================================================================
