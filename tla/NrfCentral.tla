----------------------------- MODULE NrfCentral -----------------------------
(***************************************************************************)
(* The central role of the nRF52840 example: the scanner                   *)
(* (ble_scan_handler.c), connecting and pairing (ble_conn_handler.c) and   *)
(* the commands of main.c that drive them.  Commands run on the main       *)
(* thread; events preempt it between any two of its accesses, so a command *)
(* is the steps that pc goes through and a handler is one step.            *)
(***************************************************************************)
EXTENDS SoftDevice

CONSTANT MaxResults   \* MAX_SCAN_RESULTS

ASSUME ResultsAssumption == MaxResults \in Nat \ {0}

VARIABLES
  scanning, found, timed,   \* s_scanning; s_results, of each whether it is
                            \* connectable; m_scan's parameters have a timeout
  connState, pairState,     \* s_conn_state, s_pair_state
  connHandle, autoPair,     \* s_conn_handle, s_auto_pair
  connStatus,               \* s_last_status: "ok" is 0
  secLevel,                 \* s_sec_level: encrypted or not
  autoPhase,                \* s_auto_phase
  connPair,                 \* s_conn_pair of BLE:CONNect:STARt
  pc                        \* where the main thread is

scanVars    == <<scanning, found, timed>>
linkVars    == <<connState, pairState, connHandle, autoPair, connStatus, secLevel>>
centralVars == <<scanVars, linkVars, autoPhase, connPair>>

CentralPc == {"idle", "connect", "refused", "pair", "paired", "unpaired", "key"}

ScanInit == scanning = FALSE /\ found = <<>> /\ timed = FALSE
CentralInit ==
  /\ ScanInit
  /\ connState = "IDLE" /\ pairState = "IDLE" /\ connHandle = NoHandle
  /\ autoPair = FALSE /\ connStatus = "ok" /\ secLevel = "none"
  /\ autoPhase = "IDLE" /\ connPair = FALSE /\ pc = "idle"

CentralTypeOK ==
  /\ scanning \in BOOLEAN /\ timed \in BOOLEAN
  /\ found \in Seq(BOOLEAN) /\ Len(found) <= MaxResults
  /\ connState \in {"IDLE", "CONNECTING", "CONNECTED", "FAILED"}
  /\ pairState \in {"IDLE", "PROGRESS", "INPUT_NEEDED", "DISPLAY_KEY", "DONE", "FAILED"}
  /\ connHandle \in Handle \cup {NoHandle} /\ autoPair \in BOOLEAN
  /\ connStatus \in {"ok", "err"} /\ secLevel \in {"none", "encrypted"}
  /\ autoPhase \in {"IDLE", "SCANNING", "CONNECTING", "FAILED"} /\ connPair \in BOOLEAN

------------------------------------------------------------------------------
(* The scanner *)

\* nrf_ble_scan_start is refused while a connection attempt has the scanner; the
\* caller is not told.
ScanBegins ==
  \/ MayScan /\ radio' = radio \cup {"scan"} /\ scanning' = TRUE
  \/ ~MayScan /\ UNCHANGED <<radio, scanning>>
ScanStart == ScanBegins /\ UNCHANGED <<found, timed>>
\* ble_scan_start_timed keeps its timeout within 1 to 600 s, so that the scan ends.
ScanStartTimed == ScanBegins /\ timed' = TRUE
ScanTimed == found' = <<>> /\ ScanStartTimed

\* BLE:SCAN:START, BLE:SCAN:STARt and its alias, :STOP, :CLEar
ScanCommand ==
  /\ \/ ScanStart
     \/ ScanTimed
     \/ radio' = radio \ {"scan"} /\ scanning' = FALSE /\ UNCHANGED <<found, timed>>
     \/ found' = <<>> /\ UNCHANGED <<radio, scanning, timed>>
  /\ UNCHANGED <<linkVars, autoPhase, connPair, pc>>

\* An advertiser not seen before; the first row gives way once the rows are full.
AdvReport ==
  /\ "scan" \in radio
  /\ \E connectable \in BOOLEAN :
       found' = IF Len(found) < MaxResults THEN Append(found, connectable)
                ELSE [found EXCEPT ![1] = connectable]
  /\ UNCHANGED <<scanning, timed, linkVars, autoPhase, connPair, pc, sdVars>>

ScanTimeoutEvt ==
  /\ "scan" \in radio /\ timed /\ radio' = radio \ {"scan"} /\ scanning' = FALSE
  /\ UNCHANGED <<found, timed, linkVars, autoPhase, connPair, pc, links, dropping, smp, keyBuf>>

------------------------------------------------------------------------------
(* connect_to, in three steps: what it writes before the call, the call, and *)
(* what it writes once the call was refused.                                 *)

ConnectKeepsPairing(pair) ==   \* fault: the prior link's pairing is kept
  /\ radio' = radio \ {"scan"} /\ scanning' = FALSE
  /\ connState' = "CONNECTING" /\ autoPair' = pair
  /\ secLevel' = "none" /\ pc' = "connect"
  /\ UNCHANGED <<pairState, found, timed, connHandle, connStatus>>
ConnectTo(pair) ==
  /\ radio' = radio \ {"scan"} /\ scanning' = FALSE
  /\ connState' = "CONNECTING" /\ pairState' = "IDLE" /\ autoPair' = pair
  /\ secLevel' = "none" /\ pc' = "connect"
  /\ UNCHANGED <<found, timed, connHandle, connStatus>>

ConnectCall ==
  /\ pc = "connect"
  /\ \/ MayConnect /\ radio' = radio \cup {"connect"} /\ pc' = "idle"
     \/ pc' = "refused" /\ UNCHANGED radio
  /\ UNCHANGED <<centralVars, links, dropping, smp, keyBuf>>

ConnectRefused ==
  /\ pc = "refused" /\ pc' = "idle"
  /\ connStatus' = "err" /\ connState' = "FAILED" /\ autoPair' = FALSE
  /\ UNCHANGED <<scanVars, pairState, connHandle, secLevel, autoPhase, connPair, sdVars>>

ScanGetResult(index) == index \in DOMAIN found

\* ble_conn_start and ble_connpair_start: without a row of that index nothing is
\* tried.
ConnStart(index, pair) ==
  \/ ScanGetResult(index) /\ ConnectTo(pair)
  \/ ~ScanGetResult(index) /\ UNCHANGED <<scanVars, linkVars, radio, pc>>

\* BLE:CONNect:STARt, and BLE:CONNect and BLE:CPAIR, which leave s_conn_pair as
\* it is.
ConnectStart ==
  \E pair, job \in BOOLEAN, index \in 1..MaxResults + 1 :
    /\ connPair' = (IF job THEN pair ELSE connPair)
    /\ ConnStart(index, pair) /\ UNCHANGED autoPhase

------------------------------------------------------------------------------
(* BLE:AUTO: scan for a bounded time, then connect to the best row *)

ResetState ==
  /\ connState' = "IDLE" /\ pairState' = "IDLE" /\ connHandle' = NoHandle
  /\ autoPair' = FALSE /\ secLevel' = "none"

AutoUntimed ==   \* fault: the scan of a nothing-found run never ends
  ResetState /\ ScanStart /\ autoPhase' = "SCANNING" /\ UNCHANGED <<connStatus, connPair, pc>>
AutoStart ==
  ResetState /\ ScanTimed /\ autoPhase' = "SCANNING" /\ UNCHANGED <<connStatus, connPair, pc>>

ConnTask ==
  /\ pc = "idle" /\ autoPhase = "SCANNING" /\ ~scanning
  /\ \/ /\ TRUE \in {found[i] : i \in DOMAIN found}
        /\ autoPhase' = "CONNECTING" /\ ConnectTo(TRUE)
     \/ /\ autoPhase' = "FAILED"   \* nothing connectable, or none of that name
        /\ UNCHANGED <<scanVars, linkVars, radio, pc>>
  /\ UNCHANGED <<connPair, links, dropping, smp, keyBuf>>

------------------------------------------------------------------------------
(* BLE:PAIR, BLE:PAIR:PASSKey and BLE:DISConnect *)

PairStart ==
  /\ connState = "CONNECTED" /\ pairState' = "PROGRESS" /\ pc' = "pair"
  /\ UNCHANGED <<scanVars, connState, connHandle, autoPair, connStatus, secLevel, autoPhase,
                 connPair, sdVars>>
PairCall ==
  /\ pc = "pair"
  /\ \/ /\ Live(connHandle) /\ smp[connHandle] = "none" /\ pc' = "paired"
        /\ smp' = [smp EXCEPT ![connHandle] = "begun"]
     \/ pc' = "unpaired" /\ UNCHANGED smp
  /\ UNCHANGED <<centralVars, links, dropping, radio, keyBuf>>
PairReturns ==
  /\ pc \in {"paired", "unpaired"} /\ pc' = "idle"
  /\ connStatus' = (IF pc = "paired" THEN "ok" ELSE "err")
  /\ pairState' = (IF pc = "paired" THEN pairState ELSE "FAILED")
  /\ UNCHANGED <<scanVars, connState, connHandle, autoPair, secLevel, autoPhase, connPair, sdVars>>

PairPasskey ==
  /\ pairState = "INPUT_NEEDED" /\ Live(connHandle) /\ smp[connHandle] = "await"
  /\ smp' = [smp EXCEPT ![connHandle] = "keyed"] /\ pc' = "key"
  /\ UNCHANGED <<centralVars, links, dropping, radio, keyBuf>>
PairPasskeyReturns ==
  /\ pc = "key" /\ pc' = "idle" /\ pairState' = "PROGRESS"
  /\ UNCHANGED <<scanVars, connState, connHandle, autoPair, connStatus, secLevel, autoPhase,
                 connPair, sdVars>>

Disconnect ==
  /\ connState = "CONNECTED" /\ Live(connHandle) /\ dropping' = dropping \cup {connHandle}
  /\ UNCHANGED <<centralVars, pc, links, smp, radio, keyBuf>>

CentralCommand ==
  \/ ScanCommand /\ UNCHANGED <<links, dropping, smp, keyBuf>>
  \/ (ConnectStart \/ AutoStart) /\ UNCHANGED <<links, dropping, smp, keyBuf>>
  \/ PairStart \/ PairPasskey \/ Disconnect

CentralThread ==
  ConnectCall \/ ConnectRefused \/ PairCall \/ PairReturns \/ PairPasskeyReturns

------------------------------------------------------------------------------
(* ble_evt_handler.  A link of the other role, and a link this handler has   *)
(* forgotten, is none of its business; what an event changes besides is the  *)
(* SoftDevice's own state, and is left to the module that composes the roles.*)

Ours(h) == h = connHandle
NotOurs == UNCHANGED linkVars

CentralConnected(role, h) ==
  \/ role # "central" /\ NotOurs /\ UNCHANGED <<smp, dropping>>
  \/ /\ role = "central"
     /\ connHandle' = h /\ connState' = "CONNECTED" /\ autoPair' = FALSE /\ UNCHANGED secLevel
     /\ \/ /\ autoPair /\ pairState' = "PROGRESS" /\ connStatus' = "ok"
           /\ smp' = [smp EXCEPT ![h] = "begun"] /\ UNCHANGED dropping
        \/ /\ autoPair /\ pairState' = "FAILED" /\ connStatus' = "err"
           /\ dropping' = dropping \cup {h} /\ UNCHANGED smp
        \/ ~autoPair /\ connStatus' = "ok" /\ UNCHANGED <<pairState, smp, dropping>>

\* A pairing that was completed keeps its outcome.
CentralDisconnected(h) ==
  \/ /\ Ours(h) /\ connHandle' = NoHandle /\ autoPair' = FALSE /\ connStatus' = "err"
     /\ \/ pairState = "DONE" /\ UNCHANGED <<connState, pairState>>
        \/ pairState # "DONE" /\ connState' = "FAILED" /\ pairState' = "FAILED"
     /\ UNCHANGED secLevel
  \/ ~Ours(h) /\ NotOurs

ConnectTimeoutEvt ==
  /\ "connect" \in radio /\ radio' = radio \ {"connect"}
  /\ connStatus' = "err" /\ connState' = "FAILED" /\ pairState' = "FAILED" /\ autoPair' = FALSE
  /\ UNCHANGED <<scanVars, connHandle, secLevel, autoPhase, connPair, pc, links, dropping, smp, keyBuf>>

Pairs(h, state) ==
  \/ /\ Ours(h) /\ pairState' = state
     /\ UNCHANGED <<connState, connHandle, autoPair, connStatus, secLevel>>
  \/ ~Ours(h) /\ NotOurs
CentralSecUpdate(h) ==
  \/ /\ Ours(h) /\ secLevel' = "encrypted"
     /\ UNCHANGED <<connState, pairState, connHandle, autoPair, connStatus>>
  \/ ~Ours(h) /\ NotOurs
CentralAuthStatus(h, success) ==
  \/ /\ Ours(h)
     /\ connStatus' = (IF success THEN "ok" ELSE "err")
     /\ pairState' = (IF success THEN "DONE" ELSE "FAILED")
     /\ UNCHANGED <<connState, connHandle, autoPair, secLevel>>
  \/ ~Ours(h) /\ NotOurs

------------------------------------------------------------------------------
\* BLE:CONNect:STATe?
PairWord ==
  CASE pairState \in {"IDLE", "PROGRESS"} -> "RUNNING"
    [] pairState = "INPUT_NEEDED" -> "PASSKEY"
    [] pairState = "DISPLAY_KEY" -> "DISPLAY"
    [] OTHER -> pairState
ConnectWord ==
  CASE connState = "CONNECTING" -> "RUNNING"
    [] connState = "CONNECTED" -> (IF connPair THEN PairWord ELSE "DONE")
    [] OTHER -> connState
\* BLE:AUTO:STATe?
AutoWord ==
  IF autoPhase # "CONNECTING" THEN autoPhase
  ELSE CASE connState \in {"IDLE", "CONNECTING"} -> "CONNECTING"
         [] connState = "FAILED" -> "FAILED"
         [] OTHER -> PairWord
\* BLE:PAIR:PASSKey? has a passkey to show; the level BLE:SEC? gives.
PasskeyShown == pairState = "DISPLAY_KEY"
SecInfo == IF connState = "CONNECTED" THEN secLevel ELSE "refused"
=============================================================================
