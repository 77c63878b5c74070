----------------------------- MODULE NrfPeriph ------------------------------
(***************************************************************************)
(* The peripheral role of the nRF52840 example (ble_periph_handler.c):     *)
(* BLE:PERiph:STARt advertises and reports how the central that connects   *)
(* pairs.  A STARt while a link is up drops it and waits for its           *)
(* DISCONNECTED event; handlers preempt the commands between their steps.  *)
(***************************************************************************)
EXTENDS SoftDevice

VARIABLES
  pState, pHandle, pStatus,   \* s_state, s_conn_handle, s_last_status
  restartAfter,               \* s_restart_after
  havePeer,                   \* s_have_peer
  peerParams, sawPasskey,     \* s_have_peer_params, s_saw_passkey
  method, pLevel,             \* s_method, s_sec_level
  haveKeys,                   \* s_have_keys
  ppc, old                    \* where a command of this role is, and its local

linkInfo   == <<havePeer, peerParams, sawPasskey, method, pLevel>>
periphVars == <<pState, pHandle, pStatus, restartAfter, linkInfo, haveKeys>>

PeriphInit ==
  /\ pState = "IDLE" /\ pHandle = NoHandle /\ pStatus = "ok" /\ restartAfter = NoHandle
  /\ havePeer = FALSE /\ peerParams = FALSE /\ sawPasskey = FALSE
  /\ method = "none" /\ pLevel = "none"
  /\ haveKeys = FALSE /\ ppc = "idle" /\ old = NoHandle

PeriphTypeOK ==
  /\ pState \in {"IDLE", "ADVERTISING", "CONNECTED", "PAIRING", "PASSKEY", "DISPLAY", "DONE", "FAILED"}
  /\ {pHandle, restartAfter, old} \subseteq Handle \cup {NoHandle}
  /\ pStatus \in {"ok", "err"} /\ {havePeer, peerParams, sawPasskey, haveKeys} \subseteq BOOLEAN
  /\ method \in {"none", "unknown", "passkey", "derived", "bonded_reencrypt"}
  /\ pLevel \in {"none", "encrypted"}
  /\ ppc \in {"idle", "cleared", "forgotten", "dropped", "stopping", "stopped", "key"}

------------------------------------------------------------------------------
ClearLink == peerParams' = FALSE /\ sawPasskey' = FALSE /\ method' = "none" /\ pLevel' = "none"

\* derive_method knows the association model once the central's request was seen.
DerivedMethod == IF peerParams THEN "derived" ELSE "unknown"

\* adv_start, with the links there are by then
AdvStart(table) ==
  \/ /\ MayAdvertise(table) /\ radio' = radio \cup {"adv"}
     /\ pState' = "ADVERTISING" /\ UNCHANGED pStatus
  \/ pState' = "FAILED" /\ pStatus' = "err" /\ UNCHANGED radio

------------------------------------------------------------------------------
(* BLE:PERiph:STARt and BLE:ADV:STARt *)

PeriphStart ==
  /\ radio' = radio \ {"adv"} /\ pStatus' = "ok" /\ ClearLink /\ havePeer' = FALSE
  /\ ppc' = "cleared"
  /\ UNCHANGED <<pState, pHandle, restartAfter, haveKeys, old, links, dropping, smp, keyBuf>>
PeriphForgets ==
  /\ ppc = "cleared" /\ old' = pHandle /\ pHandle' = NoHandle /\ ppc' = "forgotten"
  /\ UNCHANGED <<pState, pStatus, restartAfter, linkInfo, haveKeys, sdVars>>
PeriphDrops ==
  /\ ppc = "forgotten"
  /\ \/ /\ Live(old) /\ dropping' = dropping \cup {old} /\ ppc' = "dropped"
        /\ UNCHANGED <<pState, pStatus, radio, old>>
     \/ AdvStart(links) /\ ppc' = "idle" /\ old' = NoHandle /\ UNCHANGED dropping
  /\ UNCHANGED <<pHandle, restartAfter, linkInfo, haveKeys, links, smp, keyBuf>>
PeriphWaits ==
  /\ ppc = "dropped" /\ restartAfter' = old /\ pState' = "ADVERTISING"
  /\ ppc' = "idle" /\ old' = NoHandle
  /\ UNCHANGED <<pHandle, pStatus, linkInfo, haveKeys, sdVars>>

(* BLE:PERiph:STOP *)

PeriphStop ==
  /\ radio' = radio \ {"adv"} /\ ppc' = "stopping"
  /\ UNCHANGED <<periphVars, old, links, dropping, smp, keyBuf>>
PeriphStopForgets ==
  /\ ppc = "stopping" /\ restartAfter' = NoHandle
  /\ old' = pHandle /\ pHandle' = NoHandle /\ ppc' = "stopped"
  /\ UNCHANGED <<pState, pStatus, linkInfo, haveKeys, sdVars>>
PeriphStopDrops ==
  /\ ppc = "stopped" /\ ppc' = "idle" /\ old' = NoHandle /\ pState' = "IDLE"
  /\ dropping' = dropping \cup {h \in {old} : Live(h)}
  /\ UNCHANGED <<pHandle, pStatus, restartAfter, linkInfo, haveKeys, links, smp, radio, keyBuf>>

(* BLE:PERiph:PASSKey *)

PeriphPasskey ==
  /\ pState = "PASSKEY" /\ Live(pHandle) /\ smp[pHandle] = "await"
  /\ smp' = [smp EXCEPT ![pHandle] = "keyed"] /\ ppc' = "key"
  /\ UNCHANGED <<periphVars, old, links, dropping, radio, keyBuf>>
PeriphPasskeyReturns ==
  /\ ppc = "key" /\ ppc' = "idle" /\ pState' = "PAIRING"
  /\ UNCHANGED <<pHandle, pStatus, restartAfter, linkInfo, haveKeys, old, sdVars>>

PeriphCommand == PeriphStart \/ PeriphStop \/ PeriphPasskey
PeriphThread ==
  \/ PeriphForgets \/ PeriphDrops \/ PeriphWaits
  \/ PeriphStopForgets \/ PeriphStopDrops \/ PeriphPasskeyReturns

------------------------------------------------------------------------------
(* ble_evt_handler *)

Mine(h) == h = pHandle
NotMine == UNCHANGED periphVars

\* The central is asked to pair, which starts no procedure by itself.
PeriphConnected(role, h) ==
  \/ role # "periph" /\ NotMine
  \/ /\ role = "periph" /\ pHandle' = h /\ pStatus' = "ok" /\ pState' = "CONNECTED" /\ ClearLink
     /\ havePeer' = TRUE
     /\ UNCHANGED <<restartAfter, haveKeys>>

RestartTwice(h) ==             \* fault: the link waited for is not forgotten
  \/ /\ h = restartAfter /\ AdvStart([links EXCEPT ![h] = "free"])
     /\ UNCHANGED <<pHandle, restartAfter, linkInfo, haveKeys>>
  \/ /\ h # restartAfter /\ Mine(h) /\ pHandle' = NoHandle /\ pStatus' = "err"
     /\ pState' = (IF pState = "DONE" THEN "DONE" ELSE "FAILED")
     /\ UNCHANGED <<restartAfter, linkInfo, haveKeys, radio>>
  \/ h # restartAfter /\ ~Mine(h) /\ UNCHANGED <<periphVars, radio>>
PeriphDisconnected(h) ==
  \/ /\ h = restartAfter /\ restartAfter' = NoHandle
     /\ AdvStart([links EXCEPT ![h] = "free"])
     /\ UNCHANGED <<pHandle, linkInfo, haveKeys>>
  \/ /\ h # restartAfter /\ Mine(h) /\ pHandle' = NoHandle /\ pStatus' = "err"
     /\ pState' = (IF pState = "DONE" THEN "DONE" ELSE "FAILED")
     /\ UNCHANGED <<restartAfter, linkInfo, haveKeys, radio>>
  \/ h # restartAfter /\ ~Mine(h) /\ UNCHANGED <<periphVars, radio>>

SecParamsKeepsKeys(h) ==   \* fault: the old key is still offered
  \/ /\ Mine(h) /\ peerParams' = TRUE /\ pState' = "PAIRING"
     /\ UNCHANGED <<pHandle, pStatus, restartAfter, haveKeys, havePeer, sawPasskey, method, pLevel>>
  \/ ~Mine(h) /\ NotMine
\* The reply hands the SoftDevice the keyset, whose keys are no longer whole.
PeriphSecParams(h) ==
  \/ /\ Mine(h) /\ peerParams' = TRUE /\ haveKeys' = FALSE
     /\ \/ pState' = "PAIRING" /\ UNCHANGED pStatus
        \/ pState' = "FAILED" /\ pStatus' = "err"
     /\ UNCHANGED <<pHandle, restartAfter, havePeer, sawPasskey, method, pLevel>>
  \/ ~Mine(h) /\ NotMine

PeriphKeyEvent(h, state) ==
  \/ /\ Mine(h) /\ sawPasskey' = TRUE /\ pState' = state
     /\ UNCHANGED <<pHandle, pStatus, restartAfter, havePeer, peerParams, method, pLevel, haveKeys>>
  \/ ~Mine(h) /\ NotMine

\* Encrypted without a pairing on this link: the key of an earlier one.
PeriphSecUpdate(h) ==
  \/ /\ Mine(h) /\ pLevel' = "encrypted"
     /\ \/ pState = "CONNECTED" /\ method' = "bonded_reencrypt" /\ pState' = "DONE"
        \/ pState # "CONNECTED" /\ UNCHANGED <<method, pState>>
     /\ UNCHANGED <<pHandle, pStatus, restartAfter, havePeer, peerParams, sawPasskey, haveKeys>>
  \/ ~Mine(h) /\ NotMine

PeriphAuthStatus(h, success, bonded) ==
  \/ /\ Mine(h) /\ success
     /\ pState' = "DONE" /\ pStatus' = "ok" /\ haveKeys' = bonded
     /\ method' = (IF sawPasskey THEN "passkey" ELSE DerivedMethod)
     /\ UNCHANGED <<pHandle, restartAfter, havePeer, peerParams, sawPasskey, pLevel>>
  \/ /\ Mine(h) /\ ~success /\ pState' = "FAILED" /\ pStatus' = "err"
     /\ UNCHANGED <<pHandle, restartAfter, linkInfo, haveKeys>>
  \/ ~Mine(h) /\ NotMine

------------------------------------------------------------------------------
\* BLE:PERiph:STATe?
PeriphWord ==
  CASE pState \in {"ADVERTISING", "CONNECTED", "PAIRING"} -> "RUNNING"
    [] OTHER -> pState
\* BLE:PERiph:PASSKey? has a passkey to show; the level BLE:PERiph:SEC? gives.
PeriphPasskeyShown == pState = "DISPLAY"
PeriphSecInfo == IF havePeer THEN pLevel ELSE "refused"
=============================================================================
