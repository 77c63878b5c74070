----------------------------- MODULE SoftDevice -----------------------------
(***************************************************************************)
(* What the nRF52840 example sees of the SoftDevice (s140): a table of     *)
(* links, one per role, whose handles both roles draw from; the procedures *)
(* its radio runs; and the pairing procedure of each link.  External: the  *)
(* example calls it and is called back, and this is what the calls and the *)
(* events it handles rely on.                                              *)
(***************************************************************************)
EXTENDS Naturals, Sequences

CONSTANTS
  Handle,     \* connection handles
  NoHandle    \* BLE_CONN_HANDLE_INVALID

ASSUME HandleAssumption == NoHandle \notin Handle

VARIABLES
  links,      \* what each handle is in use for
  dropping,   \* links sd_ble_gap_disconnect was accepted for
  smp,        \* how far the pairing procedure of each link is
  radio,      \* procedures that run
  keyBuf      \* the peripheral keyset the SoftDevice fills while pairing

sdVars == <<links, dropping, smp, radio, keyBuf>>

SmpStage == {"none", "begun", "exch", "await", "keyed", "secured", "reenc"}

SdInit ==
  /\ links = [h \in Handle |-> "free"] /\ dropping = {} /\ radio = {}
  /\ smp = [h \in Handle |-> "none"] /\ keyBuf = "none"

SdTypeOK ==
  /\ links \in [Handle -> {"free", "central", "periph"}] /\ dropping \subseteq Handle
  /\ smp \in [Handle -> SmpStage] /\ radio \subseteq {"scan", "connect", "adv"}
  /\ keyBuf \in {"none", "partial", "whole"}

NoLink(table, role) == \A h \in Handle : table[h] # role
Live(h) == h \in Handle /\ links[h] # "free" /\ h \notin dropping

(* The outcomes of calls: accepted only where the SoftDevice can, and        *)
(* anything may be refused.                                                  *)
MayConnect == radio \cap {"scan", "connect"} = {} /\ NoLink(links, "central")
MayAdvertise(table) == "adv" \notin radio /\ NoLink(table, "periph")
MayScan == "connect" \notin radio

(* Changes of the link table that come as events.                            *)
LinkUp(role, h) ==
  LET procedure == IF role = "central" THEN "connect" ELSE "adv"
  IN /\ procedure \in radio /\ radio' = radio \ {procedure}
     /\ links[h] = "free" /\ links' = [links EXCEPT ![h] = role]
LinkDown(h) ==
  /\ links[h] # "free" /\ links' = [links EXCEPT ![h] = "free"]
  /\ dropping' = dropping \ {h} /\ smp' = [smp EXCEPT ![h] = "none"]
=============================================================================
