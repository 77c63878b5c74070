----------------------------- MODULE ScpiServer -----------------------------
(***************************************************************************)
(* The receive path of UsbScpi behind its TCP transport                    *)
(* (glue/usbscpi_socket.c): one client at a time sends SCPI messages on a  *)
(* byte stream that recv() cuts anywhere, may die after any byte, and the  *)
(* next client finds the context usbscpi_clear() left.                     *)
(*                                                                         *)
(* A client's script is fixed when it connects: how fast it writes shows   *)
(* only in where recv() cuts the stream.                                   *)
(***************************************************************************)
EXTENDS UsbScpi, FiniteSets

CONSTANTS
  Scripts,      \* what a client may send: [bytes, means, pieces]
  MaxChunk      \* USBSCPI_SOCKET_RX_BUF

VARIABLES
  conn,         \* "none" in accept(), "open" in serve_client()
  sess,         \* 0 or 1, alternating from one session to the next
  script,       \* what this session's client has to say
  sent,         \* how many bytes of it the client lives to send
  wire,         \* bytes sent that recv() has not returned
  faulted,      \* usbscpi_on_rx lost step with this session's stream
  inherited     \* libscpi still held bytes when this session began

sessionVars == <<conn, sess, script, sent, inherited>>
serverVars  == <<vars, sessionVars, wire, faulted>>

\* A tag says which session sent a byte, and as what.
Origin == [s : {0, 1}, role : {"text", "payload"}]
Symbol == [c : Class, v : 0..9, role : {"text", "payload"}]
Deed   == [kind : {"cmd", "errq", "block"}, bytes : Seq([c : Class, v : 0..9])]

\* The bytes of a script on the stream of session s.
Stream(sc, s) ==
  [i \in 1..Len(sc.bytes) |->
     [c |-> sc.bytes[i].c, v |-> sc.bytes[i].v,
      tag |-> [s |-> s, role |-> sc.bytes[i].role]]]

\* What lies between two offsets, and bytes without their origin.
Cut(w, a, b) == SubSeq(w, a + 1, b)
Bare(x) == [j \in 1..Len(x) |-> [c |-> x[j].c, v |-> x[j].v]]

------------------------------------------------------------------------------
(* Scripts a client may rely on.  A script is cut into pieces, at the offsets  *)
(* from and upto: a program message unit of so much text with its terminator,  *)
(* or the upload of a block.                                                   *)

Silent(p) == ~p.block /\ p.text = 0          \* a unit without a command
Upto(sc, k) == IF k = 0 THEN 0 ELSE sc.pieces[k].upto
Meant(sc, k) ==
  IF k = 0 THEN 0 ELSE sc.pieces[k].did + (IF Silent(sc.pieces[k]) THEN 0 ELSE 1)

\* Offset i begins the line that reaches to offset h, in text from offset f.
LineFrom(w, f, i, h) ==
  (i = f \/ w[i].c = "nl") /\ \A x \in (i + 1)..h : w[x].c # "nl"

\* A byte inside a unit ends nothing and starts no block, and its line is not
\* full.
Continues(w, f, i, h) ==
  LET l == Cut(w, i, h)
      b == w[h + 1]
  IN /\ b.c # "cr"
     /\ b.c = "nl" => b.v = 0 /\ Scan(Cut(w, f, h)).m = "skip"
     /\ b.c = "semi" => ~LineSeparator(l)
     /\ b.c = "hash" => ~LineIsDataWritePrefix(l)
     /\ b.c # "nl" => Len(l) + 1 < LineBufLen

\* A program message unit that fits libscpi's buffer: its text, carriage
\* returns, and a newline or semicolon that ends it.
UnitFits(w, p) ==
  LET f == p.from
      e == p.from + p.text
  IN /\ p.text \in Nat /\ e < p.upto /\ p.text + 1 <= ScpiBufLen - 1
     /\ \A h \in f..(e - 1) : \A i \in f..h :
          LineFrom(w, f, i, h) => Continues(w, f, i, h)
     /\ \A x \in (e + 1)..(p.upto - 1) : w[x].c = "cr"
     /\ w[p.upto].c \in {"nl", "semi"} /\ Scan(Cut(w, f, e)).m # "skip"
     /\ w[p.upto].c = "semi" =>
          \A i \in f..e : LineFrom(w, f, i, e) => LineSeparator(Cut(w, i, e))

\* DATA:WRITE #, the digits of the length, and that many bytes.
UploadFits(w, p) ==
  LET f == p.from
      d == w[f + 3].v
  IN /\ f + 3 <= p.upto
     /\ w[f + 1].c = "write" /\ w[f + 2].c = "hash" /\ w[f + 3].c = "digit"
     /\ d \in 1..9 /\ p.value \in [0..d -> Nat] /\ p.value[0] = 0
     /\ p.upto = f + 3 + d + p.value[d]
     /\ \A g \in 0..(d - 1) :
          /\ w[f + 4 + g].c = "digit"
          /\ p.value[g + 1] = 10 * p.value[g] + w[f + 4 + g].v

\* What the device is to do about a piece.
Meaning(w, p) ==
  IF p.block
  THEN [kind |-> "block",
        bytes |-> Bare(Cut(w, p.upto - p.value[w[p.from + 3].v], p.upto))]
  ELSE LET u == Cut(w, p.from, p.from + p.text)
       IN [kind |-> IF Len(u) = 1 /\ u[1].c = "errq" THEN "errq" ELSE "cmd",
           bytes |-> Bare(u)]

PieceFits(sc, w, k) ==
  LET p == sc.pieces[k]
  IN /\ p.block \in BOOLEAN
     /\ p.from = Upto(sc, k - 1) /\ p.from < p.upto /\ p.upto \in 0..Len(sc.bytes)
     /\ p.did = Meant(sc, k - 1)
     /\ IF p.block THEN UploadFits(w, p) ELSE UnitFits(w, p)
     /\ ~Silent(p) => p.did + 1 \in 1..Len(sc.means)
                      /\ sc.means[p.did + 1] = Meaning(w, p)

ScriptFits(sc, s) ==
  /\ sc.bytes \in Seq(Symbol)
  /\ sc.means \in Seq(Deed)
  /\ Len(sc.pieces) \in Nat
  /\ \A k \in 1..Len(sc.pieces) : PieceFits(sc, Stream(sc, s), k)
  /\ Upto(sc, Len(sc.pieces)) = Len(sc.bytes)
  /\ Meant(sc, Len(sc.pieces)) = Len(sc.means)

ASSUME OriginAssumption == Origin \subseteq Tag
ASSUME ChunkAssumption == MaxChunk \in Nat \ {0}
ASSUME ScriptsFit == \A sc \in Scripts : \A s \in {0, 1} : ScriptFits(sc, s)

NoScript == [bytes |-> <<>>, means |-> <<>>, pieces |-> <<>>]

------------------------------------------------------------------------------
ServerInit ==
  /\ Init
  /\ conn = "none" /\ sess = 0 /\ script = NoScript /\ sent = 0 /\ wire = <<>>
  /\ faulted = FALSE /\ inherited = FALSE

\* accept() returns a client that sends so many bytes of its script.
Accept ==
  /\ conn = "none"
  /\ conn' = "open" /\ sess' = 1 - sess
  /\ script' \in Scripts
  /\ sent' \in 0..Len(script'.bytes)
  /\ wire' = Cut(Stream(script', sess'), 0, sent')
  /\ inherited' = (residue # <<>>)
  /\ UNCHANGED <<vars, faulted>>

\* recv() returns bytes, which go to usbscpi_on_rx with eom false.
Recv ==
  /\ conn = "open"
  /\ \E n \in 1..(IF Len(wire) < MaxChunk THEN Len(wire) ELSE MaxChunk) :
       /\ OnRxEnter(Cut(wire, 0, n), FALSE)
       /\ wire' = Cut(wire, n, Len(wire))
  /\ UNCHANGED <<sessionVars, faulted>>

\* The stream is out of step, which a command that merely failed is not.
StreamFault == status' # "OK" /\ errors'[Len(errors')].code # "COMMAND"

\* The call in progress; serve_client ignores what it returns.
OnRxStep ==
  /\ Iterate \/ OnRxReturn
  /\ faulted' = (faulted \/ StreamFault)
  /\ UNCHANGED <<sessionVars, wire>>

\* recv() reports the end of the stream: clear, close, back to accept().
Hangup ==
  /\ conn = "open" /\ wire = <<>>
  /\ Clear
  /\ conn' = "none" /\ script' = NoScript /\ sent' = 0 /\ inherited' = FALSE
  /\ faulted' = FALSE
  /\ UNCHANGED <<sess, wire>>

ServerNext == Accept \/ Recv \/ OnRxStep \/ Hangup

ServerSpec == ServerInit /\ [][ServerNext]_serverVars

\* The server thread keeps running; a client need not come or go.
ServerFairSpec == ServerSpec /\ WF_serverVars(Recv) /\ WF_serverVars(OnRxStep)

------------------------------------------------------------------------------
\* What the device has done, in the vocabulary of scripts.
Done == [i \in 1..Len(log) |->
          [kind |-> log[i].kind, bytes |-> Bare(log[i].bytes)]]

whole == sent = Len(script.bytes)

\* Until its stream fails, a session that started clean executes exactly the
\* commands its client sent and completes exactly its blocks, byte for byte
\* and in order, wherever recv() cut them.
ExecutesTheScript ==
  conn = "open" /\ ~faulted /\ ~inherited =>
    /\ Len(Done) <= Len(script.means)
    /\ Done = SubSeq(script.means, 1, Len(Done))

\* Nothing sent is left unexecuted: a failing command does not take those
\* pipelined behind it along (feed_line's comment).
NothingDropped ==
  conn = "open" /\ wire = <<>> /\ ~inCall /\ whole /\ ~faulted /\ ~inherited =>
    Done = script.means

\* A pipelined session is executed as if its client had sent one message at a
\* time: exactly its commands and blocks, in order, and all of them.
ScriptExecuted == ExecutesTheScript /\ NothingDropped

\* The effects that queued an error of a command, and those that popped one.
Failing   == {i \in 1..Len(log) : log[i].kind = "cmd" /\ log[i].err # {}}
Answering == {i \in 1..Len(log) : log[i].kind = "errq" /\ log[i].err # {}}
Rank(S, i) == Cardinality({j \in S : j <= i})

\* No error but those of commands was ever queued: none of the stream's own,
\* and no marker of a queue that overflowed.
OnlyCommands ==
  /\ \A x \in 1..Len(errors) : errors[x].code = "COMMAND"
  /\ \A i \in 1..Len(log) : \A e \in log[i].err : e.code = "COMMAND"

\* The k-th answer is the error of the k-th failure, and what is left in the
\* queue are the errors of the failures after those.
AnsweredInOrder ==
  /\ Cardinality(Failing) = Cardinality(Answering) + Len(errors)
  /\ \A i \in Failing :
       /\ \A j \in Answering :
            Rank(Answering, j) = Rank(Failing, i) => i < j /\ log[j].err = log[i].err
       /\ Rank(Failing, i) > Cardinality(Answering) =>
            log[i].err = {errors[Rank(Failing, i) - Cardinality(Answering)]}

\* Every error a client reads, or would read next, is of its own session.
ErrorsOfSession ==
  /\ \A x \in 1..Len(errors) : errors[x].tag.s = sess
  /\ \A i \in 1..Len(log) : \A e \in log[i].err : e.tag.s = sess

\* An error query answers with the oldest error of its own session not yet
\* read, also when it is pipelined behind the failing command.
ErrorsReachTheirSession == ErrorsOfSession /\ (OnlyCommands => AnsweredInOrder)

\* A client that stays to send its script gets all of it executed, or its
\* stream fails.
ScriptServed ==
  (conn = "open" /\ whole /\ ~inherited) ~> (faulted \/ Done = script.means)

------------------------------------------------------------------------------
\* What the repository says and the code does not do.

\* "A new connection clears the context, so a host that disconnected
\* mid-command cannot poison the next session" (glue/usbscpi_nimble.h).
CommandOfOneSession ==
  \A i \in 1..Len(log) : \A j \in 1..Len(log[i].bytes) :
    log[i].bytes[j].tag.s = sess

\* "Binary blocks bypass the text parser" (README.md).
PayloadNeverExecuted ==
  ~inherited =>
    \A i \in 1..Len(log) : log[i].kind # "block" =>
      \A j \in 1..Len(log[i].bytes) : log[i].bytes[j].tag.role = "text"
==============================================================================
