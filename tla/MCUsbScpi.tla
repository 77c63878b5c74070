----------------------------- MODULE MCUsbScpi -----------------------------
(* Receive buffers for UsbScpi: every short buffer over the byte classes    *)
(* that matter in the state the parser may be in, cut at every place.       *)
EXTENDS UsbScpi, CoreQueries

B(k) == [c |-> k, v |-> 0, tag |-> "host"]
D(n) == [c |-> "digit", v |-> n, tag |-> "host"]

\* The bytes of a block header and its payload, of a terminator and of text.
Alphabet == {B("write"), B("hash"), D(1), D(2), B("nl"), B("char")}
Short == {<<>>} \cup {<<b>> : b \in Alphabet}
\* Buffers with a whole header, so that several blocks fit in few calls.
Header(n) == <<B("write"), B("hash"), D(1), D(n)>>
Whole == {Header(n) \o p : n \in 0..2, p \in {<<>>, <<B("char")>>,
             <<B("nl"), B("semi")>>, <<B("char"), B("char"), B("nl")>>}}
Text == {<<B("errq"), B("nl")>>, <<B("char"), B("semi"), B("errq"), B("nl")>>,
         <<B("quote"), B("semi"), B("quote"), B("semi")>>, <<B("cr")>>,
         <<B("char"), B("hash"), D(1), D(2), B("nl")>>}
\* Nine length digits, the most a header can have, one of them still to come.
Longest == {<<B("write"), B("hash"), D(9)>> \o [i \in 1..8 |-> D(0)]}
MCBuffers == Short \cup Whole \cup Text \cup Longest

------------------------------------------------------------------------------
(* The functions of CoreQueries against what they are to give, for tables of  *)
(* up to 4 cells, lists of up to 3 commands, indices modulo 8 and texts of a  *)
(* few pieces.                                                                *)

Lists == UNION {[1..n -> {"a", "bb"}] : n \in 0..3}
Widths == [p \in {"a", "bb"} |-> IF p = "a" THEN 1 ELSE 2]
Tables == {Registered(Seeded(core, 4), more, 4) : core \in Lists, more \in Lists}
Fetched(table, size, mtu) ==
  LET after[n \in 0..6] ==
        IF n = 0 THEN FetchStart(6)
        ELSE LET s == after[n - 1]
             IN IF s.done THEN s
                ELSE FetchStep(s, HelpHeaders(table, s.offset, size, Widths, mtu, 8), size)
  IN after[6].all

\* usbscpi_init and usbscpi_register leave a table every walk of ends at its count,
\* whether or not all commands fit.
ASSUME TablesEnd ==
  \A core, more \in Lists : \A max \in 1..4 :
    LET table == Registered(Seeded(core, max), more, max)
    IN Ended(table, max) /\ Walk(table) = table.count

\* Page by page, the host gets every header of the table once and in order, or,
\* when a page is refused, those in front of it.
ASSUME PagesMakeTheListing ==
  \A table \in Tables : \A size \in 1..4, mtu \in 0..6 :
    LET got  == Fetched(table, size, mtu)
        next == Page(table, Len(got), size, 8)
    IN /\ got = SubSeq(Listing(table), 1, Len(got))
       /\ got = Listing(table) \/ ~PageFits(next, Widths, mtu)

\* The text of a descriptor is whole and leaves room for its NUL, or there is none.
Optional == {<<>>, <<2>>}
Descriptors ==
  [none : {FALSE}, dev : {1, 3},
   commands : {<<>>} \cup {<<[pattern |-> 2, kind |-> k, summary |-> <<>>, params |-> p, returns |-> r]>> :
                k \in Optional, r \in Optional, p \in {<<>>, <<<<1, 2>>, <<1>>>>}},
   workflows : {<<>>} \cup {<<[name |-> 1, fields |-> f, failed |-> <<1>>, prompts |-> <<<<2>>>>,
                result |-> <<>>, times |-> 3, renamedFrom |-> o]>> : f \in Optional, o \in {<<>>, <<2, 1>>}}]
TextLength(desc) == FoldLeft(LAMBDA a, b : a + b, 0, Pieces(desc))
ASSUME DescriptionIsWhole ==
  \A desc \in Descriptors, cap \in 0..60 :
    EmitDescriptor(desc, cap) = IF TextLength(desc) < cap THEN TextLength(desc) ELSE 0
=============================================================================
