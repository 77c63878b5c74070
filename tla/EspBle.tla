------------------------------- MODULE EspBle -------------------------------
(***************************************************************************)
(* Bluetooth in the ESP32-S3 application: the scanner and the connection   *)
(* share NimBLE's one radio, and the commands of the USB context and of    *)
(* the TCP context (net_scpi.c) run on tasks of their own beside the       *)
(* host task's callbacks.                                                  *)
(***************************************************************************)
EXTENDS EspScan, EspConn

CONSTANT MaxCommands   \* bound of the exploration: commands the contexts run

ASSUME EspAssumption == MaxCommands \in Nat

VARIABLE commands

espVars == <<gapVars, scanVars, connVars, commands>>

EspInit == GapInit /\ ScanInit /\ ConnInit /\ commands = MaxCommands

Idle(c) == spc[c] = "idle" /\ cpc[c] = "idle"

\* BLE:CONNect takes an index into the table.
Command(c) ==
  /\ Idle(c) /\ commands > 0 /\ commands' = commands - 1
  /\ \/ ScanCommand(c) /\ UNCHANGED connVars
     \/ ConnCommand(c) /\ (cpc'[c] = "state" => count > 0) /\ UNCHANGED scanVars
Thread(c) ==
  /\ (ScanThread(c) /\ UNCHANGED connVars) \/ (ConnThread(c) /\ UNCHANGED scanVars)
  /\ UNCHANGED commands

HostTask ==
  /\ \/ (OnSync \/ ScanCallback) /\ UNCHANGED connVars
     \/ ConnCallback /\ UNCHANGED scanVars
     \/ GapEvent /\ UNCHANGED <<scanVars, connVars>>
  /\ UNCHANGED commands

EspNext == HostTask \/ \E c \in Ctx : Command(c) \/ Thread(c)

EspSpec == EspInit /\ [][EspNext]_espVars

------------------------------------------------------------------------------
\* Every variable keeps its type.
EspTypeOK == GapTypeOK /\ ScanTypeOK /\ ConnTypeOK /\ commands \in 0..MaxCommands

\* The table of results holds one row per device, whichever contexts store into
\* it, read it and start it anew.
TableKept == EspTypeOK /\ ResultsDistinct
=============================================================================
