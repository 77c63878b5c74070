------------------------------- MODULE NrfBle -------------------------------
(***************************************************************************)
(* The nRF52840 example: both Bluetooth roles on one main thread and one   *)
(* SoftDevice.  An event is dispatched to the handlers of both roles, from *)
(* an interrupt that preempts the main thread wherever it is.              *)
(***************************************************************************)
EXTENDS NrfCentral, NrfPeriph

CONSTANTS
  MaxCommands,   \* bound of the exploration: commands the host sends
  MaxPreempts,   \* bound of the exploration: events that preempt one command,
                 \* which takes microseconds where events are milliseconds apart
  LostWhileDropped  \* a link may be lost by itself just as it is being dropped,
                    \* before the command that drops it returns

ASSUME BoundsAssumption ==
  {MaxCommands, MaxPreempts} \subseteq Nat /\ LostWhileDropped \in BOOLEAN

VARIABLES
  commands,      \* commands still to be sent
  preempts       \* events that may still preempt this one

nrfVars == <<sdVars, centralVars, pc, periphVars, ppc, old, commands, preempts>>

NrfInit ==
  /\ SdInit /\ CentralInit /\ PeriphInit
  /\ commands = MaxCommands /\ preempts = MaxPreempts

MainIdle == pc = "idle" /\ ppc = "idle"
PeriphKept  == UNCHANGED <<periphVars, ppc, old>>
CentralKept == UNCHANGED <<centralVars, pc>>

------------------------------------------------------------------------------
(* The main loop: a command, or ble_conn_task, at a time *)

Command ==
  /\ MainIdle /\ commands > 0 /\ commands' = commands - 1 /\ UNCHANGED preempts
  /\ \/ CentralCommand /\ PeriphKept
     \/ PeriphCommand /\ CentralKept
Thread ==
  /\ \/ CentralThread /\ PeriphKept
     \/ PeriphThread /\ CentralKept
     \/ MainIdle /\ ConnTask /\ PeriphKept
  /\ preempts' = (IF pc' = "idle" /\ ppc' = "idle" THEN MaxPreempts ELSE preempts)
  /\ UNCHANGED commands

------------------------------------------------------------------------------
(* Events of the air.  The part of the handlers that is a call of the        *)
(* SoftDevice is here: both handlers may answer an event, by its handle.     *)

Answered(h) == Ours(h) \/ Mine(h)
Advances(h, from, to) == h \notin dropping /\ smp[h] \in from /\ smp' = [smp EXCEPT ![h] = to]
Kept == UNCHANGED <<scanVars, autoPhase, connPair, pc, ppc, old>>

Connected(h) ==
  \E role \in {"central", "periph"} :
    /\ LinkUp(role, h) /\ CentralConnected(role, h) /\ PeriphConnected(role, h)
    /\ UNCHANGED keyBuf

Disconnected(h) ==
  /\ LostWhileDropped \/ ppc # "dropped" \/ h # old
  /\ LinkDown(h) /\ CentralDisconnected(h) /\ PeriphDisconnected(h) /\ UNCHANGED keyBuf

\* The central starts a pairing on a peripheral link, the example on its own.
SecParamsRequest(h) ==
  /\ \/ links[h] = "periph" /\ smp[h] = "none"
     \/ links[h] = "central" /\ smp[h] = "begun"
  /\ Advances(h, {"none", "begun"}, IF Answered(h) THEN "exch" ELSE "begun")
  /\ keyBuf' = (IF Mine(h) THEN "partial" ELSE keyBuf)
  /\ PeriphSecParams(h)
  /\ UNCHANGED <<linkVars, links, dropping, radio>>

AuthKeyRequest(h) ==
  /\ Advances(h, {"exch"}, "await")
  /\ Pairs(h, "INPUT_NEEDED") /\ PeriphKeyEvent(h, "PASSKEY")
  /\ UNCHANGED <<links, dropping, radio, keyBuf>>

PasskeyDisplay(h) ==
  /\ Advances(h, {"exch"}, "keyed")
  /\ Pairs(h, "DISPLAY_KEY") /\ PeriphKeyEvent(h, "DISPLAY")
  /\ UNCHANGED <<links, dropping, radio, keyBuf>>

\* A bonded central asks for the key it was given; without it nothing follows.
SecInfoRequest(h) ==
  /\ links[h] = "periph" /\ Mine(h) /\ haveKeys /\ Advances(h, {"none"}, "reenc")
  /\ UNCHANGED <<linkVars, periphVars, links, dropping, radio, keyBuf>>

ConnSecUpdate(h) ==
  /\ \/ Advances(h, {"exch", "keyed"}, "secured")
     \/ Advances(h, {"reenc"}, "none")
  /\ CentralSecUpdate(h) /\ PeriphSecUpdate(h)
  /\ UNCHANGED <<links, dropping, radio, keyBuf>>

\* The central handler drops a link whose pairing failed.
AuthStatus(h) ==
  \E success, bonded \in BOOLEAN :
    /\ Advances(h, IF success THEN {"secured"} ELSE SmpStage \ {"none", "reenc"}, "none")
    /\ dropping' = dropping \cup {x \in {h} : Ours(x) /\ ~success}
    /\ keyBuf' = (IF success /\ links[h] = "periph" THEN "whole" ELSE keyBuf)
    /\ CentralAuthStatus(h, success) /\ PeriphAuthStatus(h, success, bonded)
    /\ UNCHANGED <<links, radio>>

GattTimeout(h) ==
  /\ Live(h) /\ Mine(h) /\ dropping' = dropping \cup {h}
  /\ UNCHANGED <<linkVars, periphVars, links, smp, radio, keyBuf>>

LinkEvent(h) ==
  /\ \/ Connected(h) \/ Disconnected(h) \/ SecParamsRequest(h) \/ AuthKeyRequest(h)
     \/ PasskeyDisplay(h) \/ SecInfoRequest(h) \/ ConnSecUpdate(h) \/ AuthStatus(h)
     \/ GattTimeout(h)
  /\ Kept

RadioEvent ==
  (AdvReport \/ ScanTimeoutEvt \/ ConnectTimeoutEvt) /\ PeriphKept

Event ==
  /\ MainIdle \/ preempts > 0
  /\ preempts' = (IF MainIdle THEN preempts ELSE preempts - 1) /\ UNCHANGED commands
  /\ RadioEvent \/ \E h \in Handle : LinkEvent(h)

NrfNext == Command \/ Thread \/ Event

NrfSpec == NrfInit /\ [][NrfNext]_nrfVars

\* The main loop runs, and the two procedures the code starts with a timeout end.
NrfFairSpec ==
  /\ NrfSpec
  /\ WF_nrfVars(Thread)
  /\ WF_nrfVars(ScanTimeoutEvt /\ Event)
  /\ WF_nrfVars(ConnectTimeoutEvt /\ Event)

------------------------------------------------------------------------------
\* Every variable keeps its type.
NrfTypeOK ==
  /\ SdTypeOK /\ CentralTypeOK /\ PeriphTypeOK /\ pc \in CentralPc
  /\ "idle" \in {pc, ppc} /\ commands \in 0..MaxCommands /\ preempts \in 0..MaxPreempts

\* Each link belongs to the handler of its role: a handle one of them keeps is a
\* link that is up in that role, whatever was dropped and whose handle came back.
LinksHaveOneOwner ==
  /\ connHandle # NoHandle => links[connHandle] = "central"
  /\ pHandle # NoHandle => links[pHandle] = "periph"

\* What a poll reads is true of the radio.
\*   RUNNING waits for something: an attempt the radio still makes, or a link.
RunningIsBacked ==
  /\ ConnectWord = "RUNNING" =>
       \/ connState = "CONNECTING" /\ "connect" \in radio
       \/ connHandle # NoHandle
  /\ AutoWord = "CONNECTING" => "connect" \in radio
\*   DONE was encrypted, on the link it is told of, and what BLE:SEC? and
\*   BLE:PERiph:SEC? say of it can be read: no outcome of an earlier link, and
\*   none of one a command has given up, is left.
DoneMeansSecured ==
  /\ "DONE" \in {AutoWord, PairWord} /\ connState = "CONNECTED" => SecInfo = "encrypted"
  /\ PeriphWord = "DONE" => PeriphSecInfo = "encrypted" /\ method \notin {"none", "unknown"}
\*   A failure has its cause in BLE:PERiph:STATus?.
FailureHasCause == PeriphWord = "FAILED" => pStatus = "err"
\*   A prompt is of a pairing that is under way: one that waits for the passkey, or
\*   one whose passkey the other side may still be typing.
PromptIsAwaited ==
  /\ PairWord = "PASSKEY" => connHandle # NoHandle /\ smp[connHandle] = "await"
  /\ PasskeyShown => connHandle # NoHandle /\ smp[connHandle] \in {"keyed", "secured"}
  /\ PeriphWord = "PASSKEY" => pHandle # NoHandle /\ smp[pHandle] = "await"
  /\ PeriphPasskeyShown => pHandle # NoHandle /\ smp[pHandle] \in {"keyed", "secured"}
StatusIsTrue ==
  MainIdle => RunningIsBacked /\ DoneMeansSecured /\ FailureHasCause /\ PromptIsAwaited

\* The key offered to a central that re-encrypts is one a pairing completed.
OfferedKeyIsWhole == haveKeys => keyBuf = "whole"

\* A STARt while a link was up waits for that link's DISCONNECTED event, and for
\* that of no other link that is given the handle later.
RestartWaits == restartAfter # NoHandle => restartAfter \in dropping

\* Handles are reused; each is still the one link it was kept for.
HandlesOfOneLink == NrfTypeOK /\ LinksHaveOneOwner /\ RestartWaits

\* No central job hangs: a connection attempt ends, refused ones and preempted
\* ones included, and a BLE:AUTO run leaves its scan when there is nothing to find.
CentralJobsEnd ==
  /\ connState = "CONNECTING" ~> connState # "CONNECTING"
  /\ autoPhase = "SCANNING" ~> autoPhase # "SCANNING"

\* What BLE:DISConnect is for: the link of the central role can be dropped, and
\* its slot freed for the next attempt.
LinkCanBeDropped ==
  MainIdle /\ (\E h \in Handle : links[h] = "central" /\ h \notin dropping)
    => connState = "CONNECTED" /\ connHandle # NoHandle

\* A peripheral job that was stopped does not advertise, and nothing is left that
\* would make it.
StoppedIsQuiet == MainIdle /\ pState = "IDLE" => "adv" \notin radio /\ restartAfter = NoHandle
=============================================================================
