------------------------------ MODULE DataRead ------------------------------
(***************************************************************************)
(* How much a DATA:READ? returns (src/usbscpi.c: block_fit and             *)
(* cmd_data_read).  Reading removes bytes from the application's source,   *)
(* so the block is cut to what one response of cfg.mtu bytes carries       *)
(* before it is read; a transport that turned the response down would lose *)
(* what was read.                                                          *)
(***************************************************************************)
EXTENDS Integers

SizeMax == 2^32 - 1   \* of size_t on the targets

\* The digits of a length: the do-while of block_fit, which runs once for 0.
Digits(n) ==
  IF n < 10 THEN 1 ELSE IF n < 100 THEN 2 ELSE IF n < 1000 THEN 3
  ELSE IF n < 10^4 THEN 4 ELSE IF n < 10^5 THEN 5 ELSE IF n < 10^6 THEN 6
  ELSE IF n < 10^7 THEN 7 ELSE IF n < 10^8 THEN 8 ELSE IF n < 10^9 THEN 9 ELSE 10

\* '#', the count of the digits, the digits, and the newline.
Overhead(n) == Digits(n) + 3

\* One pass of block_fit: what it returns, or goes on with in the next pass.
Carried(want, mtu) == IF Overhead(want) >= mtu THEN 0
                      ELSE IF want + Overhead(want) <= mtu THEN want
                      ELSE mtu - Overhead(want)
Settled(want, mtu) == Overhead(want) >= mtu \/ want + Overhead(want) <= mtu

BlockFit(want, mtu) ==
  IF mtu = 0 THEN want
  ELSE IF Settled(want, mtu) THEN Carried(want, mtu)
  ELSE Carried(Carried(want, mtu), mtu)

Least(a, b) == IF a < b THEN a ELSE b

\* cmd_data_read: what it asks the source for.
ReadLength(count, ioBufLen, avail, mtu) ==
  BlockFit(Least(Least(count, ioBufLen), avail), mtu)

\* SCPI_ResultArbitraryBlock: the header, the payload, and the end of the line.
BlockPieces(n) ==
  IF n = 0 THEN <<2 + Digits(n), 1>> ELSE <<2 + Digits(n), n, 1>>
Encoded(n) == 2 + Digits(n) + n + 1
=============================================================================
