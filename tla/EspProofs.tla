----------------------------- MODULE EspProofs ------------------------------
(***************************************************************************)
(* The invariants of the ESP32-S3 application's Bluetooth, for any number  *)
(* of tasks, links, advertisers and commands and a table of any size.      *)
(***************************************************************************)
EXTENDS EspBle, TLAPS

\* A callback is about a device, or about a link that is still up: NimBLE ends
\* a link, too, from the task the callback runs on.
CallbackInv ==
  /\ InCall("report") => cb.arg \in Addr
  /\ InCall("connect") /\ cb.ok => cb.arg \in links
  /\ InCall("passkey") => cb.arg \in links
  /\ InCall("enc") /\ cb.ok => cb.arg \in secured

\* store_device, between its reads and writes of the count.
Distinct(n) ==
  /\ \A i, j \in 1..n : rows[i] = rows[j] => i = j
  /\ \A i \in 1..n : rows[i] # "none"
StoreInv ==
  /\ Distinct(count)
  /\ step # "search" => InCall("report")
  /\ step = "place" => \A i \in 1..count : rows[i] # cb.arg
  /\ step = "read" => count < MaxDev /\ Distinct(count + 1)
  /\ step = "write" => seen < MaxDev /\ Distinct(seen + 1)

\* The endless discovery is wanted, or some context is about to say so or to
\* end it.
StreamInv ==
  disc = "stream" => on \/ \E c \in Ctx : spc[c] \in {"enable", "cancel", "stop"}

EspInv == EspTypeOK /\ CallbackInv /\ StoreInv /\ StreamInv /\ RadioIsSo

USE DEF gapVars, scanVars, stateVars, connVars, Stage, InCall

LEMMA InitInv == EspInit => EspInv
<1> SUFFICES ASSUME EspInit PROVE EspInv
  OBVIOUS
<1> USE DEF EspInit, GapInit, ScanInit, ConnInit
<1>1. GapTypeOK
  BY DEF GapTypeOK
<1>2. ScanTypeOK
  <2>1. 0 \in 0..MaxDev
    BY MaxDevAssumption
  <2>2. rows \in [1..MaxDev -> Addr \cup {"none"}] /\ spc \in [Ctx -> ScanPc]
    BY DEF ScanPc
  <2> QED BY <2>1, <2>2 DEF ScanTypeOK
<1>3. ConnTypeOK
  BY DEF ConnTypeOK, ConnPc
<1>4. commands \in 0..MaxCommands
  BY EspAssumption
<1>5. CallbackInv /\ StoreInv /\ StreamInv
  BY DEF CallbackInv, StoreInv, StreamInv, Distinct, NoCb
<1>6. RadioIsSo
  BY DEF RadioIsSo, AttemptBacked, ConnectedIsUp, PromptIsReal, DoneIsSecured
<1> QED BY <1>1, <1>2, <1>3, <1>4, <1>5, <1>6 DEF EspInv, EspTypeOK

------------------------------------------------------------------------------
\* What each part of a step leaves alone.
LEMMA ScanActionTypes ==
  ASSUME GapTypeOK, ScanTypeOK, NEW c \in Ctx, ScanCommand(c) \/ ScanThread(c)
  PROVE  GapTypeOK' /\ ScanTypeOK' /\ UNCHANGED <<attempt, links, smp, secured, cb, rows, step, seen>>
<1> USE DEF ScanCommand, ScanThread, ScanStart, StreamStart, StreamStop, TakeOver, ScanCancels,
            ScanDiscovers, StreamEnable, StreamStopCancels, Moves, CancelDiscovery, Discover
<1>1. UNCHANGED <<attempt, links, smp, secured, cb, rows, step, seen>>
  OBVIOUS
<1>2. disc' \in {"off", "scan", "stream"}
  BY DEF GapTypeOK
<1>3. spc' \in [Ctx -> ScanPc]
  BY DEF ScanTypeOK, ScanPc
<1>4. ready' = ready /\ (done' = done \/ done' = FALSE) /\ (count' = count \/ count' = 0)
  OBVIOUS
<1>5. on' = on \/ on' = TRUE \/ on' = FALSE
  OBVIOUS
<1>6. 0 \in 0..MaxDev
  BY MaxDevAssumption
<1> HIDE DEF ScanCommand, ScanThread
<1>7. ready' \in BOOLEAN /\ done' \in BOOLEAN /\ on' \in BOOLEAN
  BY <1>4, <1>5 DEF ScanTypeOK
<1>8. count' \in 0..MaxDev /\ seen' \in 0..MaxDev
  BY <1>1, <1>4, <1>6 DEF ScanTypeOK
<1>9. ScanTypeOK'
  BY <1>1, <1>3, <1>7, <1>8 DEF ScanTypeOK
<1> QED BY <1>1, <1>2, <1>9 DEF GapTypeOK

LEMMA ConnActionTypes ==
  ASSUME GapTypeOK, ConnTypeOK, NEW c \in Ctx, ConnCommand(c) \/ ConnThread(c)
  PROVE  GapTypeOK' /\ ConnTypeOK' /\ UNCHANGED <<links, cb>>
<1> USE DEF ConnTypeOK, ConnPc, Goes, Pairs, Answers
<1>1. CASE ConnectStart(c)
  <2>1. connPair' \in BOOLEAN
    BY <1>1, Zenon DEF ConnectStart, Notes
  <2> QED BY <1>1, <2>1 DEF ConnectStart, GapTypeOK
<1>2. CASE ConnectState(c)
  BY <1>2 DEF ConnectState, GapTypeOK
<1>3. CASE ConnectCall(c)
  <2>1. /\ UNCHANGED <<disc, links, smp, secured, cb, stateVars, connPair, arms>>
        /\ attempt' = TRUE \/ attempt' = attempt
    BY <1>3 DEF ConnectCall
  <2>2. cpc' \in [Ctx -> ConnPc]
    BY <1>3 DEF ConnectCall
  <2>3. ConnTypeOK'
    BY <2>1, <2>2
  <2>4. GapTypeOK'
    BY <2>1 DEF GapTypeOK
  <2> QED BY <2>1, <2>3, <2>4
<1>4. CASE ConnectFailed(c)
  BY <1>4 DEF ConnectFailed, GapTypeOK
<1>5. CASE ConnectArm(c)
  BY <1>5 DEF ConnectArm, GapTypeOK
<1>6. CASE PairStart(c)
  BY <1>6 DEF PairStart, GapTypeOK
<1>7. CASE PairInitiate(c)
  BY <1>7 DEF PairInitiate, GapTypeOK
<1>8. CASE PairRefused(c)
  BY <1>8 DEF PairRefused, GapTypeOK
<1>9. CASE PairPasskey(c)
  BY <1>9 DEF PairPasskey, GapTypeOK
<1>10. CASE PairConfirm(c)
  BY <1>10 DEF PairConfirm, GapTypeOK
<1>11. CASE PairAnswered(c)
  BY <1>11 DEF PairAnswered, GapTypeOK
<1>12. CASE ConnectUnknown(c)
  <2>1. connPair' \in BOOLEAN
    BY <1>12, Zenon DEF ConnectUnknown, Notes
  <2> QED BY <1>12, <2>1 DEF ConnectUnknown, GapTypeOK
<1> QED BY <1>1, <1>2, <1>3, <1>4, <1>5, <1>6, <1>7, <1>8, <1>9, <1>10, <1>11, <1>12
        DEF ConnCommand, ConnThread

LEMMA GapEventTypes ==
  ASSUME GapTypeOK, GapEvent, cb = NoCb
  PROVE  GapTypeOK'
<1> USE DEF GapTypeOK, Calls, Callback, Stage
<1>1. CASE Reports
  BY <1>1 DEF Reports
<1>2. CASE DiscoveryEnds
  BY <1>2 DEF DiscoveryEnds
<1>3. CASE AttemptEnds
  <2>1. links' \subseteq Handle
    BY <1>3 DEF AttemptEnds
  <2>2. cb'.type = "connect"
    BY <1>3 DEF AttemptEnds
  <2> QED BY <1>3, <2>1, <2>2 DEF AttemptEnds
<1>4. CASE \E h \in Handle : LinkEnds(h)
  BY <1>4 DEF LinkEnds
<1>5. CASE \E h \in Handle : AsksFor(h)
  BY <1>5 DEF AsksFor
<1>6. CASE \E h \in Handle : PairingEnds(h)
  BY <1>6 DEF PairingEnds
<1> QED BY <1>1, <1>2, <1>3, <1>4, <1>5, <1>6 DEF GapEvent

\* The host task is in one callback at a time.
LEMMA EventsWait == ASSUME GapEvent PROVE cb = NoCb
BY DEF GapEvent, Reports, DiscoveryEnds, AttemptEnds, LinkEnds, AsksFor, PairingEnds, Calls

LEMMA ScanCallbackTypes ==
  ASSUME GapTypeOK, ScanTypeOK, CallbackInv, StoreInv, OnSync \/ ScanCallback
  PROVE  GapTypeOK' /\ ScanTypeOK'
<1> USE DEF ScanTypeOK, GapTypeOK, Return
<1>1. CASE OnSync
  BY <1>1 DEF OnSync
<1>2. CASE StoreSearch
  BY <1>2 DEF StoreSearch
<1>3. CASE StorePlace
  BY <1>3 DEF StorePlace, CallbackInv
<1>4. CASE StoreRead
  BY <1>4 DEF StoreRead
<1>5. CASE StoreWrite
  <2>1. seen + 1 \in 0..MaxDev /\ 0 \in 0..MaxDev
    BY <1>5, MaxDevAssumption DEF StoreWrite, StoreInv
  <2> QED BY <1>5, <2>1 DEF StoreWrite
<1>6. CASE ScanComplete
  BY <1>6 DEF ScanComplete
<1> QED BY <1>1, <1>2, <1>3, <1>4, <1>5, <1>6 DEF ScanCallback

LEMMA ConnCallbackTypes ==
  ASSUME GapTypeOK, ConnTypeOK, CallbackInv, ConnCallback
  PROVE  GapTypeOK' /\ ConnTypeOK'
<1> USE DEF ConnTypeOK, GapTypeOK, Returns, Kept, Stage
<1>1. CASE OnConnect
  BY <1>1 DEF OnConnect, CallbackInv
<1>2. CASE OnDisconnect
  BY <1>2 DEF OnDisconnect
<1>3. CASE OnEncChange
  BY <1>3 DEF OnEncChange
<1>4. CASE OnPasskeyAction
  BY <1>4 DEF OnPasskeyAction
<1> QED BY <1>1, <1>2, <1>3, <1>4 DEF ConnCallback

\* A step is one of a context in the scanner, one of a context in the connection,
\* or one of the host task.
LEMMA StepCases ==
  ASSUME EspNext, EspTypeOK
  PROVE  /\ commands' \in 0..MaxCommands
         /\ \/ \E c \in Ctx : (ScanCommand(c) \/ ScanThread(c)) /\ UNCHANGED connVars
            \/ \E c \in Ctx : (ConnCommand(c) \/ ConnThread(c)) /\ UNCHANGED scanVars
            \/ (OnSync \/ ScanCallback) /\ UNCHANGED connVars
            \/ ConnCallback /\ UNCHANGED scanVars
            \/ GapEvent /\ UNCHANGED <<scanVars, connVars>>
<1> HIDE DEF scanVars, connVars
<1>1. ASSUME NEW c \in Ctx, Command(c)
      PROVE  /\ commands' = commands - 1 /\ commands > 0
             /\ \/ (ScanCommand(c) \/ ScanThread(c)) /\ UNCHANGED connVars
                \/ (ConnCommand(c) \/ ConnThread(c)) /\ UNCHANGED scanVars
  BY <1>1 DEF Command
<1>2. ASSUME NEW c \in Ctx, Thread(c)
      PROVE  /\ commands' = commands
             /\ \/ (ScanCommand(c) \/ ScanThread(c)) /\ UNCHANGED connVars
                \/ (ConnCommand(c) \/ ConnThread(c)) /\ UNCHANGED scanVars
  BY <1>2 DEF Thread
<1>3. ASSUME HostTask
      PROVE  /\ commands' = commands
             /\ \/ (OnSync \/ ScanCallback) /\ UNCHANGED connVars
                \/ ConnCallback /\ UNCHANGED scanVars
                \/ GapEvent /\ UNCHANGED <<scanVars, connVars>>
  BY <1>3 DEF HostTask
<1>4. commands' \in 0..MaxCommands
  <2>1. CASE HostTask
    BY <1>3, <2>1 DEF EspTypeOK
  <2>2. CASE \E c \in Ctx : Thread(c)
    BY <1>2, <2>2 DEF EspTypeOK
  <2>3. CASE \E c \in Ctx : Command(c)
    <3>1. commands' = commands - 1 /\ commands > 0
      BY <1>1, <2>3
    <3> QED BY <3>1, EspAssumption DEF EspTypeOK
  <2> QED BY <2>1, <2>2, <2>3 DEF EspNext
<1> QED BY <1>1, <1>2, <1>3, <1>4 DEF EspNext

LEMMA TypesKept == ASSUME EspInv, EspNext PROVE EspTypeOK'
<1> USE DEF EspInv, EspTypeOK
<1>1. CASE \E c \in Ctx : (ScanCommand(c) \/ ScanThread(c)) /\ UNCHANGED connVars
  <2>1. ConnTypeOK'
    BY <1>1 DEF ConnTypeOK
  <2> QED BY <1>1, <2>1, ScanActionTypes, StepCases
<1>2. CASE \E c \in Ctx : (ConnCommand(c) \/ ConnThread(c)) /\ UNCHANGED scanVars
  <2>1. ScanTypeOK'
    BY <1>2 DEF ScanTypeOK
  <2> QED BY <1>2, <2>1, ConnActionTypes, StepCases
<1>3. CASE (OnSync \/ ScanCallback) /\ UNCHANGED connVars
  <2>1. ConnTypeOK'
    BY <1>3 DEF ConnTypeOK
  <2> QED BY <1>3, <2>1, ScanCallbackTypes, StepCases
<1>4. CASE ConnCallback /\ UNCHANGED scanVars
  <2>1. ScanTypeOK'
    BY <1>4 DEF ScanTypeOK
  <2> QED BY <1>4, <2>1, ConnCallbackTypes, StepCases
<1>5. CASE GapEvent /\ UNCHANGED <<scanVars, connVars>>
  <2>1. ScanTypeOK' /\ ConnTypeOK'
    BY <1>5 DEF ScanTypeOK, ConnTypeOK
  <2> QED BY <1>5, <2>1, GapEventTypes, EventsWait, StepCases
<1> QED BY <1>1, <1>2, <1>3, <1>4, <1>5, StepCases

------------------------------------------------------------------------------
(* The parts of the invariant, one after the other.                          *)

\* The commands change neither the links nor the callback the host task is in.
LEMMA ScanActionFrame ==
  ASSUME NEW c \in Ctx, ScanCommand(c) \/ ScanThread(c)
  PROVE  UNCHANGED <<attempt, links, smp, secured, cb, rows, step, seen>> /\ count' \in {count, 0}
BY DEF ScanCommand, ScanThread, ScanStart, StreamStart, StreamStop, TakeOver, ScanCancels,
       ScanDiscovers, StreamEnable, StreamStopCancels, CancelDiscovery, Discover

LEMMA ConnActionFrame ==
  ASSUME NEW c \in Ctx, ConnCommand(c) \/ ConnThread(c)
  PROVE  /\ UNCHANGED <<links, secured, cb>> /\ disc' \in {disc, "off"}
         /\ attempt' = attempt \/ attempt' = TRUE
BY DEF ConnCommand, ConnThread, ConnectStart, ConnectUnknown, ConnectState, ConnectCall, ConnectFailed, ConnectArm,
       PairStart, PairInitiate, PairRefused, PairPasskey, PairConfirm, PairAnswered, Pairs, Answers

\* A callback begins about a device, or about a link that is up.
LEMMA EventBegins ==
  ASSUME GapEvent
  PROVE  /\ cb = NoCb /\ CallbackInv' /\ disc' \in {disc, "off"}
         /\ cb'.type # "none"
<1>0. USE DEF Calls, Callback, CallbackInv
<1>1. CASE Reports
  BY <1>1 DEF Reports
<1>2. CASE DiscoveryEnds
  BY <1>2 DEF DiscoveryEnds
<1>3. CASE AttemptEnds
  BY <1>3 DEF AttemptEnds
<1>4. CASE \E h \in Handle : LinkEnds(h)
  BY <1>4 DEF LinkEnds
<1>5. CASE \E h \in Handle : AsksFor(h)
  BY <1>5 DEF AsksFor
<1>6. CASE \E h \in Handle : PairingEnds(h)
  BY <1>6 DEF PairingEnds
<1> QED BY <1>1, <1>2, <1>3, <1>4, <1>5, <1>6 DEF GapEvent

LEMMA CallbackKept == ASSUME EspInv, EspNext PROVE CallbackInv'
<1> USE DEF EspInv
<1>1. CASE \E c \in Ctx : (ScanCommand(c) \/ ScanThread(c)) /\ UNCHANGED connVars
  BY <1>1, ScanActionFrame DEF CallbackInv
<1>2. CASE \E c \in Ctx : (ConnCommand(c) \/ ConnThread(c)) /\ UNCHANGED scanVars
  <2>1. UNCHANGED <<links, secured, cb>>
    BY <1>2, ConnActionFrame
  <2> QED BY <2>1 DEF CallbackInv
<1>3. CASE (OnSync \/ ScanCallback) /\ UNCHANGED connVars
  <2>1. links' = links /\ secured' = secured /\ cb' \in {cb, NoCb}
    BY <1>3 DEF OnSync, ScanCallback, StoreSearch, StorePlace, StoreRead, StoreWrite, ScanComplete, Return
  <2> QED BY <2>1 DEF CallbackInv, NoCb
<1>4. CASE ConnCallback /\ UNCHANGED scanVars
  <2>1. cb' = NoCb
    BY <1>4 DEF ConnCallback, OnConnect, OnDisconnect, OnEncChange, OnPasskeyAction, Returns
  <2> QED BY <2>1 DEF CallbackInv, NoCb
<1>5. CASE GapEvent
  BY <1>5, EventBegins
<1> QED BY <1>1, <1>2, <1>3, <1>4, <1>5, StepCases

\* A table with fewer rows has no more rows that are alike.
LEMMA FewerDistinct ==
  ASSUME NEW m \in Nat, NEW n \in Nat, m <= n, Distinct(n), UNCHANGED rows
  PROVE  Distinct(m) /\ Distinct(m)'
BY DEF Distinct

LEMMA StoreKept == ASSUME EspInv, EspNext PROVE StoreInv'
<1> USE DEF EspInv
<1>0. count \in Nat /\ seen \in Nat /\ MaxDev \in Nat /\ MaxDev > 0
  BY MaxDevAssumption DEF EspTypeOK, ScanTypeOK
<1>1. ASSUME UNCHANGED <<rows, step, seen, cb>>, count' \in {count, 0}
      PROVE  StoreInv'
  <2>1. count' \in Nat /\ count' <= count
    BY <1>0, <1>1
  <2>2. Distinct(count)'
    BY <1>0, <1>1, <2>1, FewerDistinct DEF StoreInv, Distinct
  <2>3. step' = "read" => count' < MaxDev /\ Distinct(count + 1)'
    <3> SUFFICES ASSUME step' = "read" PROVE count' < MaxDev /\ Distinct(count + 1)'
      OBVIOUS
    <3>1. count < MaxDev /\ Distinct(count + 1)
      BY <1>1 DEF StoreInv
    <3>2. CASE count' = count
      BY <1>1, <3>1, <3>2 DEF Distinct
    <3>3. CASE count' = 0
      <4>1. Distinct(1)
        BY <1>0, <3>1 DEF Distinct
      <4> QED BY <1>0, <1>1, <3>3, <4>1 DEF Distinct
    <3> QED BY <1>1, <3>2, <3>3
  <2>4. step' = "write" => seen' < MaxDev /\ Distinct(seen + 1)'
    BY <1>1 DEF StoreInv, Distinct
  <2>5. step' = "place" => \A i \in 1..count' : rows'[i] # cb'.arg
    BY <1>0, <1>1, <2>1 DEF StoreInv
  <2> QED BY <1>1, <2>2, <2>3, <2>4, <2>5 DEF StoreInv
<1>2. CASE \E c \in Ctx : (ScanCommand(c) \/ ScanThread(c)) /\ UNCHANGED connVars
  BY <1>1, <1>2, ScanActionFrame
<1>3. CASE \E c \in Ctx : (ConnCommand(c) \/ ConnThread(c)) /\ UNCHANGED scanVars
  BY <1>1, <1>3, ConnActionFrame
<1>4. CASE GapEvent /\ UNCHANGED <<scanVars, connVars>>
  BY <1>4, EventBegins DEF StoreInv, Distinct, NoCb
<1>5. CASE ConnCallback /\ UNCHANGED scanVars
  <2>1. ~InCall("report")
    BY <1>5 DEF ConnCallback, OnConnect, OnDisconnect, OnEncChange, OnPasskeyAction
  <2> QED BY <1>5, <2>1 DEF StoreInv, Distinct
<1>6. CASE OnSync
  BY <1>1, <1>6 DEF OnSync
<1>7. CASE StoreSearch
  BY <1>7 DEF StoreSearch, StoreInv, Distinct, Return
<1>8. CASE StorePlace
  <2>1. CASE count = MaxDev
    BY <1>0, <1>8, <2>1 DEF StorePlace, StoreInv, Distinct, Return
  <2>2. CASE count < MaxDev
    <3>1. /\ rows' = [rows EXCEPT ![count + 1] = cb.arg] /\ step' = "read"
          /\ UNCHANGED <<count, seen, cb>> /\ InCall("report")
      BY <1>0, <1>8, <2>2 DEF StorePlace
    <3>2. rows \in [1..MaxDev -> Addr \cup {"none"}] /\ cb.arg \in Addr
      BY <3>1 DEF EspTypeOK, ScanTypeOK, CallbackInv
    <3>3. /\ \A i \in 1..count : rows'[i] = rows[i]
          /\ rows'[count + 1] = cb.arg
      BY <1>0, <2>2, <3>1, <3>2
    <3>4. \A i \in 1..count : rows[i] # cb.arg
      BY <1>8 DEF StorePlace, StoreInv
    <3>5. cb.arg # "none"
      BY <3>2, MaxDevAssumption
    <3>6. Distinct(count)' /\ Distinct(count + 1)'
      BY <1>0, <3>1, <3>3, <3>4, <3>5 DEF StoreInv, Distinct
    <3> QED BY <2>2, <3>1, <3>6 DEF StoreInv
  <2> QED BY <1>8, <2>1, <2>2 DEF StorePlace
<1>9. CASE StoreRead
  BY <1>9 DEF StoreRead, StoreInv, Distinct
<1>10. CASE StoreWrite
  BY <1>10 DEF StoreWrite, StoreInv, Distinct, Return
<1>11. CASE ScanComplete
  <2>1. step = "search"
    BY <1>11 DEF ScanComplete, StoreInv, EspTypeOK, ScanTypeOK
  <2> QED BY <1>11, <2>1 DEF ScanComplete, StoreInv, Distinct, Return
<1> QED BY <1>2, <1>3, <1>4, <1>5, <1>6, <1>7, <1>8, <1>9, <1>10, <1>11, StepCases DEF ScanCallback

LEMMA StreamKept == ASSUME EspInv, EspNext PROVE StreamInv'
<1> USE DEF EspInv
<1>0. spc \in [Ctx -> ScanPc]
  BY DEF EspTypeOK, ScanTypeOK
<1>1. ASSUME disc' \in {disc, "off"}, UNCHANGED <<on, spc>>
      PROVE  StreamInv'
  BY <1>1 DEF StreamInv
<1>2. ASSUME NEW c \in Ctx, ScanCommand(c) \/ ScanThread(c)
      PROVE  StreamInv'
  <2> USE <1>0 DEF Moves, StreamInv
  <2>1. CASE ScanStart(c)
    BY <2>1 DEF ScanStart
  <2>2. CASE StreamStart(c)
    BY <2>2 DEF StreamStart, Discover
  <2>3. CASE StreamStop(c)
    BY <2>3 DEF StreamStop
  <2>4. CASE TakeOver(c)
    BY <2>4 DEF TakeOver
  <2>5. CASE ScanCancels(c)
    BY <2>5 DEF ScanCancels, CancelDiscovery
  <2>6. CASE ScanDiscovers(c)
    BY <2>6 DEF ScanDiscovers, Discover
  <2>7. CASE StreamEnable(c)
    BY <2>7 DEF StreamEnable
  <2>8. CASE StreamStopCancels(c)
    BY <2>8 DEF StreamStopCancels, CancelDiscovery
  <2> QED BY <1>2, <2>1, <2>2, <2>3, <2>4, <2>5, <2>6, <2>7, <2>8 DEF ScanCommand, ScanThread
<1>3. CASE \E c \in Ctx : (ConnCommand(c) \/ ConnThread(c)) /\ UNCHANGED scanVars
  BY <1>1, <1>3, ConnActionFrame
<1>4. CASE (OnSync \/ ScanCallback) /\ UNCHANGED connVars
  <2>1. UNCHANGED <<disc, on, spc>>
    BY <1>4 DEF OnSync, ScanCallback, StoreSearch, StorePlace, StoreRead, StoreWrite, ScanComplete, Return
  <2> QED BY <1>1, <2>1
<1>5. CASE ConnCallback /\ UNCHANGED scanVars
  <2>1. UNCHANGED disc
    BY <1>5 DEF ConnCallback, OnConnect, OnDisconnect, OnEncChange, OnPasskeyAction, Kept
  <2> QED BY <1>1, <1>5, <2>1
<1>6. CASE GapEvent /\ UNCHANGED <<scanVars, connVars>>
  BY <1>1, <1>6, EventBegins
<1> QED BY <1>2, <1>3, <1>4, <1>5, <1>6, StepCases

------------------------------------------------------------------------------
\* What the scanner does is nothing to the connection.
LEMMA ScannerApart ==
  ASSUME RadioIsSo, UNCHANGED connVars,
         attempt' = attempt, links' = links, smp' = smp, secured' = secured,
         cb' = cb \/ (cb.type \in {"report", "complete"} /\ cb' = NoCb)
  PROVE  RadioIsSo'
<1>1. \A t \in {"connect", "disconnect", "enc", "passkey"} : cb.type = t <=> cb'.type = t
  BY DEF NoCb
<1>2. AttemptBacked'
  BY <1>1 DEF RadioIsSo, AttemptBacked
<1>3. ConnectedIsUp'
  BY <1>1 DEF RadioIsSo, ConnectedIsUp
<1>4. PromptIsReal' /\ DoneIsSecured'
  BY <1>1 DEF RadioIsSo, PromptIsReal, DoneIsSecured
<1> QED BY <1>2, <1>3, <1>4 DEF RadioIsSo

LEMMA CommandsAreTrue ==
  ASSUME EspInv, NEW c \in Ctx, ConnCommand(c) \/ ConnThread(c)
  PROVE  RadioIsSo'
<1>0. /\ cpc \in [Ctx -> ConnPc] /\ smp \in [Handle -> Stage] /\ links \subseteq Handle
      /\ AttemptBacked /\ ConnectedIsUp /\ PromptIsReal /\ DoneIsSecured
  BY DEF EspInv, EspTypeOK, ConnTypeOK, GapTypeOK, RadioIsSo
<1> USE <1>0 DEF Goes, Pairs
<1>1. CASE ConnectStart(c)
  BY <1>1 DEF ConnectStart, RadioIsSo, AttemptBacked, ConnectedIsUp, PromptIsReal, DoneIsSecured
<1>2. CASE ConnectState(c)
  BY <1>2 DEF ConnectState, RadioIsSo, AttemptBacked, ConnectedIsUp, PromptIsReal, DoneIsSecured
<1>3. CASE ConnectCall(c)
  <2>1. AttemptBacked'
    BY <1>3 DEF ConnectCall, AttemptBacked
  <2>2. ConnectedIsUp' /\ PromptIsReal' /\ DoneIsSecured'
    BY <1>3 DEF ConnectCall, ConnectedIsUp, PromptIsReal, DoneIsSecured
  <2> QED BY <2>1, <2>2 DEF RadioIsSo
<1>4. CASE ConnectFailed(c)
  BY <1>4 DEF ConnectFailed, RadioIsSo, AttemptBacked, ConnectedIsUp, PromptIsReal, DoneIsSecured
<1>5. CASE ConnectArm(c)
  BY <1>5 DEF ConnectArm, RadioIsSo, AttemptBacked, ConnectedIsUp, PromptIsReal, DoneIsSecured
<1>6. CASE PairStart(c)
  BY <1>6 DEF PairStart, RadioIsSo, AttemptBacked, ConnectedIsUp, PromptIsReal, DoneIsSecured
<1>7. CASE PairInitiate(c)
  <2>1. AttemptBacked' /\ ConnectedIsUp' /\ DoneIsSecured'
    BY <1>7 DEF PairInitiate, AttemptBacked, ConnectedIsUp, DoneIsSecured
  <2>2. \A h \in links, stage \in {"input", "compare"} : smp[h] = stage => smp'[h] = stage
    BY <1>7 DEF PairInitiate, MayPair
  <2>3. PromptIsReal'
    BY <1>7, <2>2 DEF PairInitiate, PromptIsReal
  <2> QED BY <2>1, <2>3 DEF RadioIsSo
<1>8. CASE PairRefused(c)
  BY <1>8 DEF PairRefused, RadioIsSo, AttemptBacked, ConnectedIsUp, PromptIsReal, DoneIsSecured
<1>9. CASE PairPasskey(c)
  BY <1>9 DEF PairPasskey, Answers, RadioIsSo, AttemptBacked, ConnectedIsUp, PromptIsReal, DoneIsSecured
<1>10. CASE PairConfirm(c)
  BY <1>10 DEF PairConfirm, Answers, RadioIsSo, AttemptBacked, ConnectedIsUp, PromptIsReal, DoneIsSecured
<1>11. CASE PairAnswered(c)
  BY <1>11 DEF PairAnswered, RadioIsSo, AttemptBacked, ConnectedIsUp, PromptIsReal, DoneIsSecured
<1>12. CASE ConnectUnknown(c)
  BY <1>12 DEF ConnectUnknown, RadioIsSo, AttemptBacked, ConnectedIsUp, PromptIsReal, DoneIsSecured
<1> QED BY <1>1, <1>2, <1>3, <1>4, <1>5, <1>6, <1>7, <1>8, <1>9, <1>10, <1>11, <1>12
        DEF ConnCommand, ConnThread

LEMMA CallbacksAreTrue == ASSUME EspInv, ConnCallback PROVE RadioIsSo'
<1>0. /\ smp \in [Handle -> Stage] /\ links \subseteq Handle
      /\ AttemptBacked /\ ConnectedIsUp /\ PromptIsReal /\ DoneIsSecured /\ CallbackInv
  BY DEF EspInv, EspTypeOK, GapTypeOK, RadioIsSo
<1> USE <1>0 DEF Returns, Kept, NoCb
<1>1. CASE OnConnect
  <2>1. AttemptBacked' /\ ConnectedIsUp' /\ DoneIsSecured'
    BY <1>1 DEF OnConnect, AttemptBacked, ConnectedIsUp, DoneIsSecured, CallbackInv
  <2>2. \A h \in links, stage \in {"input", "compare"} : smp[h] = stage => smp'[h] = stage
    BY <1>1 DEF OnConnect, MayPair
  <2>3. pairState' \in {pairState, "PROGRESS", "FAILED"}
    BY <1>1 DEF OnConnect
  <2>4. PromptIsReal'
    BY <1>1, <2>2, <2>3 DEF OnConnect, PromptIsReal
  <2> QED BY <2>1, <2>4 DEF RadioIsSo
<1>2. CASE OnDisconnect
  BY <1>2 DEF OnDisconnect, RadioIsSo, AttemptBacked, ConnectedIsUp, PromptIsReal, DoneIsSecured
<1>3. CASE OnEncChange
  BY <1>3 DEF OnEncChange, CallbackInv, RadioIsSo, AttemptBacked, ConnectedIsUp, PromptIsReal, DoneIsSecured
<1>4. CASE OnPasskeyAction
  <2>1. AttemptBacked' /\ ConnectedIsUp' /\ DoneIsSecured'
    BY <1>4 DEF OnPasskeyAction, AttemptBacked, ConnectedIsUp, DoneIsSecured
  <2>2. cb.arg \in links /\ UNCHANGED <<smp, links>>
    BY <1>4 DEF OnPasskeyAction, CallbackInv
  <2>3. /\ pairState' = "INPUT_NEEDED" => smp[cb.arg] = "input"
        /\ pairState' = "NUMCMP_NEEDED" => smp[cb.arg] = "compare"
    BY <1>4 DEF OnPasskeyAction
  <2>4. PromptIsReal'
    BY <2>2, <2>3 DEF PromptIsReal
  <2> QED BY <2>1, <2>4 DEF RadioIsSo
<1> QED BY <1>1, <1>2, <1>3, <1>4 DEF ConnCallback

LEMMA EventsAreTrue == ASSUME EspInv, GapEvent, UNCHANGED connVars PROVE RadioIsSo'
<1>0. /\ smp \in [Handle -> Stage] /\ cb = NoCb
      /\ AttemptBacked /\ ConnectedIsUp /\ PromptIsReal /\ DoneIsSecured
  BY EventsWait DEF EspInv, EspTypeOK, GapTypeOK, RadioIsSo
<1> USE <1>0 DEF NoCb, Calls, Callback
<1>1. CASE Reports
  BY <1>1 DEF Reports, RadioIsSo, AttemptBacked, ConnectedIsUp, PromptIsReal, DoneIsSecured
<1>2. CASE DiscoveryEnds
  BY <1>2 DEF DiscoveryEnds, RadioIsSo, AttemptBacked, ConnectedIsUp, PromptIsReal, DoneIsSecured
<1>3. CASE AttemptEnds
  <2>1. InCall("connect")' /\ links \subseteq links' /\ UNCHANGED <<smp, secured>>
    BY <1>3 DEF AttemptEnds
  <2> QED BY <2>1 DEF RadioIsSo, AttemptBacked, ConnectedIsUp, PromptIsReal, DoneIsSecured
<1>4. CASE \E h \in Handle : LinkEnds(h)
  BY <1>4 DEF LinkEnds, RadioIsSo, AttemptBacked, ConnectedIsUp, PromptIsReal, DoneIsSecured
<1>5. CASE \E h \in Handle : AsksFor(h)
  BY <1>5 DEF AsksFor, RadioIsSo, AttemptBacked, ConnectedIsUp, PromptIsReal, DoneIsSecured
<1>6. CASE \E h \in Handle : PairingEnds(h)
  BY <1>6 DEF PairingEnds, RadioIsSo, AttemptBacked, ConnectedIsUp, PromptIsReal, DoneIsSecured
<1> QED BY <1>1, <1>2, <1>3, <1>4, <1>5, <1>6 DEF GapEvent

LEMMA ConnectionKept == ASSUME EspInv, EspNext PROVE RadioIsSo'
<1> USE DEF EspInv
<1>1. CASE \E c \in Ctx : (ScanCommand(c) \/ ScanThread(c)) /\ UNCHANGED connVars
  <2>1. attempt' = attempt /\ links' = links /\ smp' = smp /\ secured' = secured /\ cb' = cb
    BY <1>1, ScanActionFrame
  <2> QED BY <1>1, <2>1, ScannerApart
<1>2. CASE \E c \in Ctx : (ConnCommand(c) \/ ConnThread(c)) /\ UNCHANGED scanVars
  BY <1>2, CommandsAreTrue
<1>3. CASE (OnSync \/ ScanCallback) /\ UNCHANGED connVars
  <2>1. attempt' = attempt /\ links' = links /\ smp' = smp /\ secured' = secured
    BY <1>3 DEF OnSync, ScanCallback, StoreSearch, StorePlace, StoreRead, StoreWrite, ScanComplete, Return
  <2>2. cb' = cb \/ (cb.type \in {"report", "complete"} /\ cb' = NoCb)
    <3>1. CASE OnSync \/ StoreRead
      BY <3>1 DEF OnSync, StoreRead
    <3>2. CASE StoreSearch \/ StorePlace \/ StoreWrite \/ ScanComplete
      BY <3>2 DEF StoreSearch, StorePlace, StoreWrite, ScanComplete, Return
    <3> QED BY <1>3, <3>1, <3>2 DEF ScanCallback
  <2> QED BY <1>3, <2>1, <2>2, ScannerApart
<1>4. CASE ConnCallback
  BY <1>4, CallbacksAreTrue
<1>5. CASE GapEvent /\ UNCHANGED <<scanVars, connVars>>
  BY <1>5, EventsAreTrue
<1> QED BY <1>1, <1>2, <1>3, <1>4, <1>5, StepCases

LEMMA Stutter == ASSUME EspInv, UNCHANGED espVars PROVE EspInv'
<1> USE DEF EspInv, espVars
<1>1. EspTypeOK'
  BY DEF EspTypeOK, GapTypeOK, ScanTypeOK, ConnTypeOK
<1>2. CallbackInv' /\ StoreInv' /\ StreamInv'
  BY DEF CallbackInv, StoreInv, StreamInv, Distinct
<1>3. RadioIsSo'
  <2>1. attempt' = attempt /\ links' = links /\ smp' = smp /\ secured' = secured /\ cb' = cb /\ UNCHANGED connVars
    OBVIOUS
  <2> QED BY <2>1, ScannerApart
<1> QED BY <1>1, <1>2, <1>3

------------------------------------------------------------------------------
\* Everything above holds in every state, for any tasks, links and advertisers.
THEOREM EspInvariant == EspSpec => []EspInv
<1>1. EspInit => EspInv
  BY InitInv
<1>2. EspInv /\ [EspNext]_espVars => EspInv'
  BY TypesKept, CallbackKept, StoreKept, StreamKept, ConnectionKept, Stutter DEF EspInv
<1> QED BY <1>1, <1>2, PTL DEF EspSpec

\* ble_scan.c, store_device: the table has one row per device, however the resets
\* of the count fall between its search, its write and its increment.
THEOREM TableAlwaysKept == EspSpec => []TableKept
<1>1. EspInv => TableKept
  BY DEF EspInv, TableKept, StoreInv, Distinct, ResultsDistinct
<1> QED BY <1>1, EspInvariant, PTL

\* ble_scan.c: no order of two contexts' stream and scan commands leaves an
\* endless discovery nobody wants.
THEOREM StoppedStreamAlwaysQuiet == EspSpec => []StoppedStreamIsQuiet
<1>1. EspInv => StoppedStreamIsQuiet
  BY DEF EspInv, StreamInv, StoppedStreamIsQuiet
<1> QED BY <1>1, EspInvariant, PTL

\* ble_conn.c: what the contexts read of the connection is true of the radio.
THEOREM ConnectionAlwaysTrue == EspSpec => []ConnectionIsTrue
<1>1. ASSUME EspInv PROVE ConnectionIsTrue
  <2>1. /\ connState \in {"IDLE", "CONNECTING", "CONNECTED", "FAILED"} /\ secured \subseteq links
        /\ AttemptBacked /\ ConnectedIsUp /\ DoneIsSecured /\ RadioIsSo
    BY <1>1 DEF EspInv, EspTypeOK, GapTypeOK, ConnTypeOK, RadioIsSo
  <2>2. SUFFICES ASSUME ~InCall("disconnect") PROVE WordIsTrue
    BY <2>1 DEF ConnectionIsTrue, WordIsTrue
  <2>3. ConnectStateWord = "RUNNING" => connState \in {"CONNECTING", "CONNECTED"}
    BY <2>1 DEF ConnectStateWord, ConnPairState
  <2>4. ConnectStateWord \in {"PASSKEY", "CONFIRM", "DISPLAY", "DONE"} => connState = "CONNECTED"
    BY <2>1 DEF ConnectStateWord, ConnPairState
  <2>5. connPair /\ ConnectStateWord = "DONE" => pairState = "DONE"
    BY <1>1, <2>4 DEF ConnectStateWord, ConnPairState, EspInv, EspTypeOK, ConnTypeOK
  <2>6. ASSUME connPair, ConnectStateWord = "DONE", links = {connHandle},
               NEW authenticated \in BOOLEAN, NEW keySize \in {7, 16}
        PROVE  SecLevel(authenticated, keySize) > 1
    <3>1. connHandle \in secured
      BY <2>1, <2>2, <2>5, <2>6 DEF DoneIsSecured
    <3> QED BY <3>1 DEF SecLevel
  <2> QED BY <2>1, <2>2, <2>3, <2>4, <2>6 DEF WordIsTrue, AttemptBacked, ConnectedIsUp, SecFails
<1> QED BY <1>1, EspInvariant, PTL
=============================================================================
