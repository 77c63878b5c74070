--------------------------- MODULE MCScpiServer ---------------------------
(* Clients' messages for ScpiServer: each way the receive path can treat    *)
(* bytes, with separators and newlines where they must not count; and the   *)
(* scripts of a few of them one after the other.                            *)
EXTENDS ScpiServer, SequencesExt

CONSTANTS
  Messages,     \* what scripts are made of: [bytes, means, pieces]
  MaxMessages   \* bound: messages of a session

T(k) == [c |-> k, v |-> 0, role |-> "text"]
N(n) == [c |-> "digit", v |-> n, role |-> "text"]
P(k) == [c |-> k, v |-> 0, role |-> "payload"]
Cmd(s) == [kind |-> "cmd", bytes |-> Bare(s)]
Query == [kind |-> "errq", bytes |-> Bare(<<T("errq")>>)]

\* The pieces of one message, counted from its beginning.
Unit(from, text, upto, did) ==
  [block |-> FALSE, from |-> from, text |-> text, upto |-> upto, did |-> did,
   value |-> <<>>]
Blk(len) == [block |-> TRUE, from |-> 0, text |-> 0, upto |-> len + 4, did |-> 0,
             value |-> (0 :> 0 @@ 1 :> len)]

Line(s) == [bytes |-> s \o <<T("nl")>>, means |-> <<Cmd(s)>>,
            pieces |-> <<Unit(0, Len(s), Len(s) + 1, 0)>>]
Upload(p) ==
  [bytes |-> <<T("write"), T("hash"), N(1), N(Len(p))>> \o p \o <<T("nl")>>,
   means |-> <<[kind |-> "block", bytes |-> Bare(p)]>>,
   pieces |-> <<Blk(Len(p)), Unit(Len(p) + 4, 0, Len(p) + 5, 1)>>]

Single  == Line(<<T("char")>>)
Quoted  == Line(<<T("quote"), T("semi"), T("quote")>>)
Inline  == Line(<<T("char"), T("hash"), N(1), N(2), T("semi"), T("nl")>>)
Batch   == [bytes |-> <<T("char"), T("semi"), T("errq"), T("cr"), T("nl")>>,
            means |-> <<Cmd(<<T("char")>>), Query>>,
            pieces |-> <<Unit(0, 1, 2, 0), Unit(2, 1, 5, 1)>>]
Empty   == Upload(<<>>)
Pair    == Upload(<<P("nl"), P("semi")>>)
TooLong == Upload(<<P("char"), P("nl"), P("char")>>)

WithBlocks == {Single, Pair, Empty, TooLong}
WithText   == {Single, Batch, Quoted, Inline}
Everything == WithBlocks \cup WithText

\* One message after another.
Together(ms) ==
  LET at(i)  == Len(FlattenSeq([j \in 1..(i - 1) |-> ms[j].bytes]))
      did(i) == Len(FlattenSeq([j \in 1..(i - 1) |-> ms[j].means]))
      moved(i) == [k \in 1..Len(ms[i].pieces) |->
                    [ms[i].pieces[k] EXCEPT !.from = @ + at(i), !.upto = @ + at(i),
                                            !.did = @ + did(i)]]
  IN [bytes |-> FlattenSeq([i \in DOMAIN ms |-> ms[i].bytes]),
      means |-> FlattenSeq([i \in DOMAIN ms |-> ms[i].means]),
      pieces |-> FlattenSeq([i \in DOMAIN ms |-> moved(i)])]
Conversations == {Together(ms) : ms \in UNION {[1..n -> Messages] : n \in 0..MaxMessages}}
===========================================================================
