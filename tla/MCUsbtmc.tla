------------------------------ MODULE MCUsbtmc ------------------------------
(* Replies for Usbtmc: short ones, one of several pieces, and the blocks that *)
(* DATA:READ? answers with when cfg.mtu is the transmit buffer's size.        *)
EXTENDS Usbtmc, DataRead

Ends(lens) == [i \in DOMAIN lens |-> FoldLeft(+, 0, SubSeq(lens, 1, i))]
Blocks  == {BlockPieces(ReadLength(count, 12, avail, TxCap)) :
              count \in 1..12, avail \in 0..12}
Fitting == {Ends(lens) : lens \in {<<1>>, <<1, 2, 1>>} \cup Blocks}

ASSUME AllFit == RepliesFit
=============================================================================
