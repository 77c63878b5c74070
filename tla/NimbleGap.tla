----------------------------- MODULE NimbleGap ------------------------------
(***************************************************************************)
(* What the ESP32-S3 application sees of the NimBLE host: one discovery    *)
(* and one connection attempt at a time, the links, the pairing procedure  *)
(* of each, and the host task, which changes its own state first and calls *)
(* the application back afterwards.  External.                             *)
(***************************************************************************)
EXTENDS Naturals

CONSTANTS
  Ctx,        \* tasks that run SCPI commands: the USB one and the TCP one
  Handle,     \* connection handles
  Addr        \* addresses of advertisers

VARIABLES
  disc,       \* the discovery: that of a scan, or of the stream, which has no end
  attempt,    \* a connection attempt is under way
  links,      \* links that are up
  smp,        \* how far the pairing of each link is
  secured,    \* links that are encrypted
  cb          \* the callback the host task is in

gapVars == <<disc, attempt, links, smp, secured, cb>>

Stage == {"none", "begun", "input", "compare", "keyed"}
NoCb == [type |-> "none", arg |-> "none", ok |-> FALSE]
Callback(type, arg, ok) == [type |-> type, arg |-> arg, ok |-> ok]
Calls(type, arg, ok) == cb = NoCb /\ cb' = Callback(type, arg, ok)
InCall(type) == cb.type = type

GapInit ==
  /\ disc = "off" /\ attempt = FALSE /\ links = {} /\ secured = {}
  /\ smp = [h \in Handle |-> "none"] /\ cb = NoCb

GapTypeOK ==
  /\ disc \in {"off", "scan", "stream"} /\ attempt \in BOOLEAN /\ links \subseteq Handle /\ secured \subseteq links
  /\ smp \in [Handle -> Stage]
  /\ cb = NoCb \/ cb.type \in {"report", "complete", "connect", "disconnect", "enc", "passkey"}

(* The outcomes of calls: a call may be refused for want of memory too.      *)
MayConnect == ~attempt /\ disc = "off" /\ links # Handle
MayPair(h) == h \in links /\ smp[h] = "none"

------------------------------------------------------------------------------
(* Events *)

Reports == disc # "off" /\ (\E a \in Addr : Calls("report", a, TRUE))
           /\ UNCHANGED <<disc, attempt, links, smp, secured>>
DiscoveryEnds == disc = "scan" /\ disc' = "off" /\ Calls("complete", "none", TRUE)
                 /\ UNCHANGED <<attempt, links, smp, secured>>
AttemptEnds ==
  /\ attempt /\ attempt' = FALSE
  /\ \/ \E h \in Handle \ links : links' = links \cup {h} /\ Calls("connect", h, TRUE)
     \/ Calls("connect", "none", FALSE) /\ UNCHANGED links
  /\ UNCHANGED <<disc, smp, secured>>
\* The peer leaves, or BLE:DISConnect made the link end.
LinkEnds(h) ==
  /\ h \in links /\ links' = links \ {h} /\ smp' = [smp EXCEPT ![h] = "none"]
  /\ secured' = secured \ {h} /\ Calls("disconnect", h, TRUE) /\ UNCHANGED <<disc, attempt>>
\* The peer asks for a key, or for the comparison of two numbers, or is shown one.
AsksFor(h) ==
  /\ h \in links /\ smp[h] \in {"none", "begun"}
  /\ \E stage \in {"input", "compare", "keyed"} :
       smp' = [smp EXCEPT ![h] = stage] /\ Calls("passkey", h, TRUE)
  /\ UNCHANGED <<disc, attempt, links, secured>>
PairingEnds(h) ==
  /\ h \in links /\ smp[h] # "none" /\ smp' = [smp EXCEPT ![h] = "none"]
  /\ \E ok \in {o \in BOOLEAN : o => smp[h] = "keyed"} :
       Calls("enc", h, ok) /\ secured' = (IF ok THEN secured \cup {h} ELSE secured)
  /\ UNCHANGED <<disc, attempt, links>>

GapEvent ==
  \/ Reports \/ DiscoveryEnds \/ AttemptEnds
  \/ \E h \in Handle : LinkEnds(h) \/ AsksFor(h) \/ PairingEnds(h)
=============================================================================
