------------------------------ MODULE EspScan -------------------------------
(***************************************************************************)
(* The scanner of the ESP32-S3 application (ble_scan.c): the table of      *)
(* devices the timed scan fills on the host task, and the RSSI stream,     *)
(* which shares the one discovery with it.  Commands of both SCPI contexts *)
(* run on tasks of their own, without a lock.                              *)
(***************************************************************************)
EXTENDS NimbleGap, Sequences

CONSTANT MaxDev   \* BLE_SCAN_MAX_DEV

ASSUME MaxDevAssumption == MaxDev \in Nat \ {0} /\ "none" \notin Addr

VARIABLES
  ready,          \* s_ready
  rows, count,    \* s_devs, s_dev_count
  done,           \* s_done
  on,             \* s_stream_on
  step, seen,     \* where store_device is; what it read of s_dev_count
  spc             \* where each context is in a command of the scanner

scanVars == <<ready, rows, count, done, on, step, seen, spc>>

ScanPc == {"idle", "takeover", "cancel", "discover", "enable", "stop"}

ScanInit ==
  /\ ready = FALSE /\ rows = [i \in 1..MaxDev |-> "none"] /\ count = 0 /\ done = FALSE
  /\ on = FALSE /\ step = "search" /\ seen = 0 /\ spc = [c \in Ctx |-> "idle"]

ScanTypeOK ==
  /\ {ready, done, on} \subseteq BOOLEAN /\ rows \in [1..MaxDev -> Addr \cup {"none"}]
  /\ {count, seen} \subseteq 0..MaxDev
  /\ step \in {"search", "place", "read", "write"} /\ spc \in [Ctx -> ScanPc]

Moves(c, from, to) == spc[c] = from /\ spc' = [spc EXCEPT ![c] = to]

------------------------------------------------------------------------------
(* The host task *)

OnSync == ~ready /\ ready' = TRUE /\ UNCHANGED <<rows, count, done, on, step, seen, spc, gapVars>>

\* store_device: the table is searched, the row past its end is written, and
\* the count is read and written back one higher.  Any of the contexts may
\* reset the count meanwhile.
Return == cb' = NoCb /\ UNCHANGED <<disc, attempt, links, smp, secured>>
StoreUnsearched ==   \* fault: a device that is there is not looked for
  /\ InCall("report") /\ step = "search" /\ step' = "place"
  /\ UNCHANGED <<ready, rows, count, done, on, seen, spc, gapVars>>
StoreSearch ==
  /\ InCall("report") /\ step = "search"
  /\ \/ (\E i \in 1..count : rows[i] = cb.arg) /\ Return /\ UNCHANGED step
     \/ (\A i \in 1..count : rows[i] # cb.arg) /\ step' = "place" /\ UNCHANGED gapVars
  /\ UNCHANGED <<ready, rows, count, done, on, seen, spc>>
StorePlace ==
  /\ InCall("report") /\ step = "place"
  /\ \/ count = MaxDev /\ step' = "search" /\ Return /\ UNCHANGED rows
     \/ /\ count < MaxDev /\ rows' = [rows EXCEPT ![count + 1] = cb.arg]
        /\ step' = "read" /\ UNCHANGED gapVars
  /\ UNCHANGED <<ready, count, done, on, seen, spc>>
StoreRead ==
  /\ InCall("report") /\ step = "read" /\ seen' = count /\ step' = "write"
  /\ UNCHANGED <<ready, rows, count, done, on, spc, gapVars>>
StoreWrite ==
  /\ InCall("report") /\ step = "write" /\ count' = seen + 1 /\ step' = "search" /\ seen' = 0
  /\ Return /\ UNCHANGED <<ready, rows, done, on, spc>>

ScanComplete ==
  /\ InCall("complete") /\ done' = TRUE /\ Return
  /\ UNCHANGED <<ready, rows, count, on, step, seen, spc>>

ScanCallback == StoreSearch \/ StorePlace \/ StoreRead \/ StoreWrite \/ ScanComplete

------------------------------------------------------------------------------
(* Commands.  There is one discovery: a timed scan takes it over from the    *)
(* stream, and a stream started on a timed scan is content with that one.    *)

CancelDiscovery == disc' = "off" /\ UNCHANGED <<attempt, links, smp, secured, cb>>
Discover(kind) == disc' = kind /\ UNCHANGED <<attempt, links, smp, secured, cb>>
MayDiscover == disc = "off" /\ ~attempt

\* BLE:SCAN and BLE:SCAN:STARt: ble_scan_start
ScanStart(c) ==
  /\ ready /\ Moves(c, "idle", "takeover") /\ done' = FALSE /\ count' = 0
  /\ UNCHANGED <<ready, rows, on, step, seen, gapVars>>
TakeOver(c) ==
  /\ Moves(c, "takeover", "cancel") /\ on' = FALSE
  /\ UNCHANGED <<ready, rows, count, done, step, seen, gapVars>>
ScanCancels(c) ==
  /\ Moves(c, "cancel", "discover") /\ CancelDiscovery
  /\ UNCHANGED <<ready, rows, count, done, on, step, seen>>
ScanDiscovers(c) ==
  /\ Moves(c, "discover", "idle") /\ UNCHANGED <<ready, rows, count, done, on, step, seen>>
  /\ (MayDiscover /\ Discover("scan")) \/ UNCHANGED gapVars

\* SYSTem:STReam:STARt and :STOP
StreamStart(c) ==
  /\ ready /\ spc[c] = "idle" /\ UNCHANGED <<ready, rows, count, done, on, step, seen>>
  /\ \/ MayDiscover /\ Discover("stream") /\ spc' = [spc EXCEPT ![c] = "enable"]
     \/ disc # "off" /\ UNCHANGED gapVars /\ spc' = [spc EXCEPT ![c] = "enable"]
     \/ UNCHANGED <<gapVars, spc>>
StreamEnable(c) ==
  /\ Moves(c, "enable", "idle") /\ on' = TRUE
  /\ UNCHANGED <<ready, rows, count, done, step, seen, gapVars>>
StreamStop(c) ==
  /\ Moves(c, "idle", "stop") /\ on' = FALSE
  /\ UNCHANGED <<ready, rows, count, done, step, seen, gapVars>>
StopLeavesDiscovery(c) ==   \* fault: the flag is cleared, the discovery goes on
  /\ Moves(c, "stop", "idle")
  /\ UNCHANGED <<ready, rows, count, done, on, step, seen, gapVars>>
StreamStopCancels(c) ==
  /\ Moves(c, "stop", "idle") /\ CancelDiscovery
  /\ UNCHANGED <<ready, rows, count, done, on, step, seen>>

ScanCommand(c) == ScanStart(c) \/ StreamStart(c) \/ StreamStop(c)
ScanThread(c) ==
  \/ TakeOver(c) \/ ScanCancels(c) \/ ScanDiscovers(c) \/ StreamEnable(c) \/ StreamStopCancels(c)

------------------------------------------------------------------------------
\* The table lists every device once, although the count is reset at any point of
\* the search and insertion on the host task: BLE:SCAN:FETCh? and BLE:CONNect take
\* an index into it.
ResultsDistinct ==
  /\ \A i, j \in 1..count : rows[i] = rows[j] => i = j
  /\ \A i \in 1..count : rows[i] # "none"

\* A stream that was stopped has stopped its endless discovery too, whichever
\* context started and stopped it: one left over would refuse every timed scan
\* for the rest of the boot.
StoppedStreamIsQuiet == (\A c \in Ctx : spc[c] = "idle") /\ ~on => disc # "stream"
=============================================================================
