------------------------------ MODULE NrfProofs ------------------------------
(***************************************************************************)
(* The nRF52840 example: what it tells of its two links is true, for any   *)
(* number of handles, scan rows and commands.                              *)
(***************************************************************************)
EXTENDS NrfBle, SequenceTheorems, TLAPS

\* At most one event preempts a command, and none of them is the loss of the very
\* link the command is dropping: commands take microseconds, events come
\* milliseconds apart.
Paced == MaxPreempts <= 1 /\ ~LostWhileDropped

Unpreempted == preempts = MaxPreempts
Restarting == ppc \in {"cleared", "forgotten", "dropped"}

\* The table of the SoftDevice: a free handle has no pairing and is not being
\* dropped, and a procedure runs only while its role has no link.
TableInv ==
  /\ \A h \in Handle : links[h] = "free" => smp[h] = "none" /\ h \notin dropping
  /\ "adv" \in radio => NoLink(links, "periph")
  /\ "connect" \in radio => NoLink(links, "central")

MainInv ==
  /\ "idle" \in {pc, ppc} /\ commands \in 0..MaxCommands /\ preempts \in 0..MaxPreempts
  /\ MainIdle => Unpreempted

\* The central: an attempt the host still waits for is one the radio makes, or one
\* the main thread is about to make.
AttemptInv ==
  /\ connHandle # NoHandle => links[connHandle] = "central"
  /\ connState = "CONNECTING" => "connect" \in radio \/ pc \in {"connect", "refused"}
  /\ connState = "CONNECTED" /\ connHandle = NoHandle =>
       pairState \in {"DONE", "FAILED"} \/ pc \in {"pair", "unpaired"}
  /\ autoPhase = "CONNECTING" => connState # "IDLE"
\* An outcome outlives its link but not the next attempt, not even one that is
\* preempted before the call it makes.
OutcomeInv ==
  /\ "connect" \in radio => pairState # "DONE"
  /\ pc = "connect" /\ pairState = "DONE" => ~Unpreempted /\ connHandle # NoHandle
  /\ connState = "CONNECTED" /\ pairState = "DONE" => secLevel = "encrypted"
  /\ connState = "CONNECTED" /\ connHandle # NoHandle /\ smp[connHandle] = "secured"
       => secLevel = "encrypted"
PromptInv ==
  /\ pairState = "INPUT_NEEDED" =>
       connHandle # NoHandle /\ (smp[connHandle] = "await" \/ pc = "key")
  /\ pairState = "DISPLAY_KEY" => connHandle # NoHandle /\ smp[connHandle] \in {"keyed", "secured"}
  /\ pc = "key" =>
       /\ Unpreempted => pairState = "INPUT_NEEDED"
       /\ connHandle = NoHandle => connState # "CONNECTED"
CentralInv == CentralTypeOK /\ pc \in CentralPc /\ AttemptInv /\ OutcomeInv /\ PromptInv

\* The peripheral: a restart waits for a link that is being dropped, which the
\* handler has forgotten; no other is taken until the command has returned.
RestartInv ==
  /\ restartAfter # NoHandle => restartAfter \in dropping /\ pHandle # restartAfter
  /\ ppc = "dropped" => old \in dropping
  /\ ppc \in {"forgotten", "dropped"} => pHandle = NoHandle
  /\ Restarting /\ Unpreempted => "adv" \notin radio
\* What is known of the link that is up.
LinkInv ==
  /\ pHandle # NoHandle => links[pHandle] = "periph"
  /\ pHandle # NoHandle /\ ppc # "cleared" =>
       /\ havePeer
       /\ smp[pHandle] \in {"exch", "await", "keyed", "secured"} => peerParams
       /\ smp[pHandle] = "secured" => pLevel = "encrypted"
  /\ OfferedKeyIsWhole
\* What is reported of it; a restart reports nothing until it is done.
ReportInv ==
  ~Restarting =>
    /\ pState = "DONE" => havePeer /\ pLevel = "encrypted" /\ method \notin {"none", "unknown"}
    /\ pState = "FAILED" => pStatus = "err"
    /\ pState = "PASSKEY" /\ ppc # "stopped" =>
         pHandle # NoHandle /\ (smp[pHandle] = "await" \/ ppc = "key")
    /\ pState = "DISPLAY" /\ ppc # "stopped" =>
         pHandle # NoHandle /\ smp[pHandle] \in {"keyed", "secured"}
PeriphInv == PeriphTypeOK /\ RestartInv /\ LinkInv /\ ReportInv

NrfInv == SdTypeOK /\ TableInv /\ MainInv /\ CentralInv /\ PeriphInv

USE HandleAssumption, ResultsAssumption, BoundsAssumption DEF MainIdle, Unpreempted, Restarting, NoLink, Live

LEMMA NrfInitInv == NrfInit => NrfInv
<1> SUFFICES ASSUME NrfInit PROVE NrfInv
  OBVIOUS
<1> USE DEF NrfInit, SdInit, CentralInit, ScanInit, PeriphInit
<1>1. SdTypeOK /\ TableInv
  BY DEF SdTypeOK, SmpStage, TableInv
<1>2. MainInv
  BY DEF MainInv
<1>3. CentralInv
  <2>1. found = <<>> /\ <<>> \in Seq(BOOLEAN) /\ Len(<<>>) = 0
    BY EmptySeq
  <2>2. found \in Seq(BOOLEAN) /\ Len(found) <= MaxResults
    BY <2>1
  <2>3. scanning \in BOOLEAN /\ timed \in BOOLEAN /\ autoPair \in BOOLEAN /\ connPair \in BOOLEAN
    OBVIOUS
  <2>4. CentralTypeOK /\ pc \in CentralPc
    BY <2>2, <2>3 DEF CentralTypeOK, CentralPc
  <2> QED BY <2>4 DEF CentralInv, AttemptInv, OutcomeInv, PromptInv
<1>4. PeriphInv
  BY DEF PeriphInv, PeriphTypeOK, RestartInv, LinkInv, ReportInv, OfferedKeyIsWhole
<1> QED BY <1>1, <1>2, <1>3, <1>4 DEF NrfInv

------------------------------------------------------------------------------
(* A step that leaves a role alone, and its link.                             *)

SameLink(h) == h # NoHandle => links'[h] = links[h] /\ smp'[h] = smp[h]

LEMMA CentralFrame ==
  ASSUME CentralInv, UNCHANGED <<centralVars, pc>>, SameLink(connHandle),
         "connect" \in radio' <=> "connect" \in radio,
         preempts' = preempts \/ ~Unpreempted' \/ pc = "idle"
  PROVE  CentralInv'
BY DEF CentralInv, CentralTypeOK, AttemptInv, OutcomeInv, PromptInv, SameLink,
       centralVars, scanVars, linkVars

LEMMA PeriphFrame ==
  ASSUME PeriphInv, UNCHANGED <<periphVars, ppc, old, keyBuf>>, SameLink(pHandle),
         restartAfter \in dropping => restartAfter \in dropping',
         old \in dropping => old \in dropping' \/ ppc # "dropped",
         "adv" \in radio' => "adv" \in radio,
         preempts' = preempts \/ ~Unpreempted' \/ ppc = "idle"
  PROVE  PeriphInv'
BY DEF PeriphInv, PeriphTypeOK, RestartInv, LinkInv, ReportInv, OfferedKeyIsWhole, SameLink,
       periphVars, linkInfo

------------------------------------------------------------------------------
(* The commands and the main thread.                                          *)

\* A step of the scanner finds another table of rows, of no more than there is room for.
LEMMA ScanTypes ==
  ASSUME CentralTypeOK, SdTypeOK, ScanCommand \/ ScanTimed
  PROVE  /\ scanning' \in BOOLEAN /\ timed' \in BOOLEAN
         /\ found' \in Seq(BOOLEAN) /\ Len(found') <= MaxResults
         /\ radio' \subseteq {"scan", "connect", "adv"}
         /\ "connect" \in radio' <=> "connect" \in radio
         /\ "adv" \in radio' <=> "adv" \in radio
<1>1. <<>> \in Seq(BOOLEAN) /\ Len(<<>>) = 0
  BY EmptySeq
<1>2. found' = found \/ found' = <<>>
  BY DEF ScanCommand, ScanStart, ScanTimed
<1>3. found' \in Seq(BOOLEAN) /\ Len(found') <= MaxResults
  <2>1. found \in Seq(BOOLEAN) /\ Len(found) <= MaxResults
    BY DEF CentralTypeOK
  <2>2. CASE found' = found
    BY <2>1, <2>2
  <2>3. CASE found' = <<>>
    <3>1. Len(found') = 0 /\ 0 <= MaxResults
      BY <1>1, <2>3
    <3> QED BY <1>1, <2>3, <3>1
  <2> QED BY <1>2, <2>2, <2>3
<1>4. timed' \in BOOLEAN /\ scanning' \in BOOLEAN
  BY DEF CentralTypeOK, ScanCommand, ScanStart, ScanTimed, ScanStartTimed, ScanBegins
<1>5. radio' \in {radio, radio \cup {"scan"}, radio \ {"scan"}}
  BY DEF ScanCommand, ScanStart, ScanTimed, ScanStartTimed, ScanBegins
<1> QED BY <1>3, <1>4, <1>5 DEF SdTypeOK

LEMMA CentralCommandKeeps ==
  ASSUME NrfInv, CentralCommand, pc = "idle", UNCHANGED preempts
  PROVE  SdTypeOK' /\ TableInv' /\ CentralInv'
<1> USE DEF NrfInv, CentralInv
<1>1. CASE ScanCommand /\ UNCHANGED <<links, dropping, smp, keyBuf>>
  <2>1. UNCHANGED <<linkVars, autoPhase, connPair, pc>>
    BY <1>1 DEF ScanCommand
  <2>2. SdTypeOK' /\ TableInv'
    BY <1>1, ScanTypes DEF SdTypeOK, TableInv
  <2>3. CentralTypeOK'
    BY <1>1, <2>1, ScanTypes DEF CentralTypeOK, linkVars
  <2> QED BY <1>1, <2>1, <2>2, <2>3, ScanTypes DEF AttemptInv, OutcomeInv, PromptInv, linkVars
<1>2. CASE ConnectStart /\ UNCHANGED <<links, dropping, smp, keyBuf>>
  <2>1. PICK pair \in BOOLEAN, index \in 1..MaxResults + 1 :
          ConnStart(index, pair) /\ connPair' \in BOOLEAN /\ UNCHANGED autoPhase
    BY <1>2 DEF ConnectStart, CentralTypeOK
  <2>2. CASE ConnectTo(pair)
    <3>1. /\ radio' = radio \ {"scan"} /\ pc' = "connect" /\ connState' = "CONNECTING"
          /\ pairState' = "IDLE" /\ UNCHANGED <<connHandle, links, dropping, smp, keyBuf, autoPhase>>
      BY <1>2, <2>1, <2>2 DEF ConnectTo
    <3>2. SdTypeOK' /\ TableInv'
      BY <3>1 DEF SdTypeOK, TableInv
    <3>3. CentralTypeOK'
      BY <2>1, <2>2 DEF ConnectTo, CentralTypeOK
    <3>4. pc' \in CentralPc /\ AttemptInv' /\ OutcomeInv' /\ PromptInv'
      BY <3>1 DEF CentralPc, AttemptInv, OutcomeInv, PromptInv
    <3> QED BY <3>2, <3>3, <3>4
  <2>3. CASE UNCHANGED <<scanVars, linkVars, radio, pc>>
    BY <1>2, <2>1, <2>3 DEF scanVars, linkVars, SdTypeOK, TableInv, CentralTypeOK, AttemptInv,
       OutcomeInv, PromptInv
  <2> QED BY <2>1, <2>2, <2>3 DEF ConnStart
<1>3. CASE AutoStart /\ UNCHANGED <<links, dropping, smp, keyBuf>>
  <2>1. ScanTimed
    BY <1>3 DEF AutoStart
  <2>2. SdTypeOK' /\ TableInv'
    BY <1>3, <2>1, ScanTypes DEF SdTypeOK, TableInv
  <2>3. CentralTypeOK'
    BY <1>3, <2>1, ScanTypes DEF CentralTypeOK, AutoStart, ResetState
  <2> QED BY <1>3, <2>2, <2>3 DEF AutoStart, ResetState, AttemptInv, OutcomeInv, PromptInv
<1>4. CASE PairStart
  BY <1>4 DEF PairStart, scanVars, sdVars, SdTypeOK, TableInv, CentralTypeOK, CentralPc, AttemptInv,
     OutcomeInv, PromptInv
<1>5. CASE PairPasskey
  <2>1. UNCHANGED <<centralVars, links, dropping, radio, keyBuf>> /\ pc' = "key"
    BY <1>5 DEF PairPasskey
  <2>2. /\ connHandle \in Handle /\ links[connHandle] # "free"
        /\ smp' = [smp EXCEPT ![connHandle] = "keyed"] /\ pairState = "INPUT_NEEDED"
    BY <1>5 DEF PairPasskey
  <2>3. SdTypeOK' /\ TableInv'
    BY <2>1, <2>2 DEF SdTypeOK, SmpStage, TableInv
  <2> QED BY <2>1, <2>2, <2>3 DEF centralVars, scanVars, linkVars, SdTypeOK, CentralTypeOK, CentralPc,
             AttemptInv, OutcomeInv, PromptInv
<1>6. CASE Disconnect
  <2>1. UNCHANGED <<centralVars, pc, links, smp, radio, keyBuf>>
    BY <1>6 DEF Disconnect
  <2>2. connHandle \in Handle /\ links[connHandle] # "free" /\ dropping' = dropping \cup {connHandle}
    BY <1>6 DEF Disconnect
  <2>3. CentralInv'
    BY <2>1, CentralFrame DEF SameLink
  <2> QED BY <2>1, <2>2, <2>3 DEF SdTypeOK, TableInv
<1> QED BY <1>1, <1>2, <1>3, <1>4, <1>5, <1>6 DEF CentralCommand

LEMMA CentralThreadKeeps ==
  ASSUME NrfInv, CentralThread \/ ConnTask,
         preempts' = preempts \/ (pc' = "idle" /\ ppc' = "idle")
  PROVE  SdTypeOK' /\ TableInv' /\ CentralInv'
<1> USE DEF NrfInv, CentralInv
<1>1. CASE ConnectCall
  <2>1. UNCHANGED <<centralVars, links, dropping, smp, keyBuf>> /\ pc = "connect"
    BY <1>1 DEF ConnectCall
  <2>2. CASE MayConnect /\ radio' = radio \cup {"connect"} /\ pc' = "idle"
    <3>1. SdTypeOK' /\ TableInv'
      BY <2>1, <2>2 DEF MayConnect, SdTypeOK, TableInv
    <3>2. pairState # "DONE"
      BY <2>1, <2>2 DEF MayConnect, AttemptInv, OutcomeInv, CentralTypeOK
    <3> QED BY <2>1, <2>2, <3>1, <3>2 DEF centralVars, scanVars, linkVars, CentralTypeOK, CentralPc,
               AttemptInv, OutcomeInv, PromptInv
  <2>3. CASE pc' = "refused" /\ UNCHANGED radio
    BY <2>1, <2>3 DEF centralVars, scanVars, linkVars, SdTypeOK, TableInv, CentralTypeOK, CentralPc,
       AttemptInv, OutcomeInv, PromptInv
  <2> QED BY <1>1, <2>2, <2>3 DEF ConnectCall
<1>2. CASE ConnectRefused
  <2>1. SdTypeOK' /\ TableInv'
    BY <1>2 DEF ConnectRefused, sdVars, SdTypeOK, TableInv
  <2>2. CentralTypeOK' /\ pc' \in CentralPc
    BY <1>2 DEF ConnectRefused, scanVars, CentralTypeOK, CentralPc
  <2> QED BY <1>2, <2>1, <2>2 DEF ConnectRefused, sdVars, AttemptInv, OutcomeInv, PromptInv
<1>3. CASE PairCall
  <2>1. UNCHANGED <<centralVars, links, dropping, radio, keyBuf>> /\ pc = "pair"
    BY <1>3 DEF PairCall
  <2>2. \/ /\ connHandle \in Handle /\ links[connHandle] # "free" /\ pc' = "paired"
           /\ smp[connHandle] = "none" /\ smp' = [smp EXCEPT ![connHandle] = "begun"]
        \/ pc' = "unpaired" /\ UNCHANGED smp
    BY <1>3 DEF PairCall
  <2>3. SdTypeOK' /\ TableInv'
    BY <2>1, <2>2 DEF SdTypeOK, SmpStage, TableInv
  <2> QED BY <2>1, <2>2, <2>3 DEF centralVars, scanVars, linkVars, SdTypeOK, CentralTypeOK, CentralPc,
             AttemptInv, OutcomeInv, PromptInv
<1>4. CASE PairReturns
  BY <1>4 DEF PairReturns, scanVars, sdVars, SdTypeOK, TableInv, CentralTypeOK, CentralPc, AttemptInv,
     OutcomeInv, PromptInv
<1>5. CASE PairPasskeyReturns
  <2>1. SdTypeOK' /\ TableInv' /\ CentralTypeOK' /\ pc' \in CentralPc
    BY <1>5 DEF PairPasskeyReturns, scanVars, sdVars, SdTypeOK, TableInv, CentralTypeOK, CentralPc
  <2> QED BY <1>5, <2>1 DEF PairPasskeyReturns, sdVars, AttemptInv, OutcomeInv, PromptInv
<1>6. CASE ConnTask
  <2>1. CASE ConnectTo(TRUE)
    BY <1>6, <2>1 DEF ConnTask, ConnectTo, SdTypeOK, TableInv, CentralTypeOK, CentralPc, AttemptInv,
       OutcomeInv, PromptInv
  <2>2. CASE autoPhase' = "FAILED" /\ UNCHANGED <<scanVars, linkVars, radio, pc>>
    BY <1>6, <2>2 DEF ConnTask, scanVars, linkVars, SdTypeOK, TableInv, CentralTypeOK, AttemptInv,
       OutcomeInv, PromptInv
  <2> QED BY <1>6, <2>1, <2>2 DEF ConnTask
<1> QED BY <1>1, <1>2, <1>3, <1>4, <1>5, <1>6 DEF CentralThread

\* Advertising is started where no link of the role is, or has failed.
LEMMA AdvStarts ==
  ASSUME NEW table, AdvStart(table), SdTypeOK, pStatus \in {"ok", "err"}
  PROVE  /\ radio' \subseteq {"scan", "connect", "adv"}
         /\ "connect" \in radio' <=> "connect" \in radio
         /\ "adv" \in radio' => "adv" \in radio \/ NoLink(table, "periph")
         /\ pStatus' \in {"ok", "err"} /\ pState' \in {"ADVERTISING", "FAILED"}
         /\ pState' = "FAILED" => pStatus' = "err"
<1>1. CASE MayAdvertise(table) /\ radio' = radio \cup {"adv"}
           /\ pState' = "ADVERTISING" /\ UNCHANGED pStatus
  BY <1>1 DEF MayAdvertise, SdTypeOK
<1>2. CASE pState' = "FAILED" /\ pStatus' = "err" /\ UNCHANGED radio
  BY <1>2 DEF SdTypeOK
<1> QED BY <1>1, <1>2 DEF AdvStart

LEMMA PeriphCommandKeeps ==
  ASSUME NrfInv, PeriphCommand, ppc = "idle", UNCHANGED preempts
  PROVE  SdTypeOK' /\ TableInv' /\ PeriphInv'
<1> USE DEF NrfInv, PeriphInv
<1>1. CASE PeriphStart
  <2>1. SdTypeOK' /\ TableInv'
    BY <1>1 DEF PeriphStart, SdTypeOK, TableInv
  <2>2. PeriphTypeOK'
    BY <1>1 DEF PeriphStart, ClearLink, PeriphTypeOK
  <2> QED BY <1>1, <2>1, <2>2 DEF PeriphStart, ClearLink, RestartInv, LinkInv, ReportInv, OfferedKeyIsWhole
<1>2. CASE PeriphStop
  <2>1. SdTypeOK' /\ TableInv'
    BY <1>2 DEF PeriphStop, SdTypeOK, TableInv
  <2>2. PeriphTypeOK'
    BY <1>2 DEF PeriphStop, periphVars, linkInfo, PeriphTypeOK
  <2> QED BY <1>2, <2>1, <2>2 DEF PeriphStop, periphVars, linkInfo, RestartInv, LinkInv, ReportInv,
             OfferedKeyIsWhole
<1>3. CASE PeriphPasskey
  <2>1. /\ UNCHANGED <<periphVars, old, links, dropping, radio, keyBuf>> /\ ppc' = "key"
        /\ pHandle \in Handle /\ links[pHandle] # "free" /\ smp[pHandle] = "await"
        /\ smp' = [smp EXCEPT ![pHandle] = "keyed"] /\ pState = "PASSKEY"
    BY <1>3 DEF PeriphPasskey
  <2>2. SdTypeOK' /\ TableInv'
    BY <2>1 DEF SdTypeOK, SmpStage, TableInv
  <2>3. PeriphTypeOK'
    BY <2>1 DEF periphVars, linkInfo, PeriphTypeOK
  <2> QED BY <2>1, <2>2, <2>3 DEF SdTypeOK, periphVars, linkInfo, RestartInv, LinkInv, ReportInv,
             OfferedKeyIsWhole
<1> QED BY <1>1, <1>2, <1>3 DEF PeriphCommand

LEMMA PeriphThreadKeeps ==
  ASSUME NrfInv, PeriphThread, preempts' = preempts \/ ppc' = "idle"
  PROVE  SdTypeOK' /\ TableInv' /\ PeriphInv'
<1> USE DEF NrfInv, PeriphInv
<1>1. CASE PeriphForgets
  BY <1>1 DEF PeriphForgets, sdVars, linkInfo, SdTypeOK, TableInv, PeriphTypeOK, RestartInv, LinkInv,
     ReportInv, OfferedKeyIsWhole
<1>2. CASE PeriphDrops
  <2>1. /\ ppc = "forgotten"
        /\ UNCHANGED <<pHandle, restartAfter, linkInfo, haveKeys, links, smp, keyBuf>>
    BY <1>2 DEF PeriphDrops
  <2>2. CASE /\ Live(old) /\ dropping' = dropping \cup {old} /\ ppc' = "dropped"
             /\ UNCHANGED <<pState, pStatus, radio, old>>
    <3>1. SdTypeOK' /\ TableInv'
      BY <2>1, <2>2 DEF SdTypeOK, TableInv
    <3> QED BY <2>1, <2>2, <3>1 DEF linkInfo, PeriphTypeOK, RestartInv, LinkInv, ReportInv,
               OfferedKeyIsWhole
  <2>3. CASE AdvStart(links) /\ ppc' = "idle" /\ old' = NoHandle /\ UNCHANGED dropping
    <3>1. pStatus \in {"ok", "err"}
      BY DEF PeriphTypeOK
    <3>2. SdTypeOK' /\ TableInv'
      BY <2>1, <2>3, <3>1, AdvStarts DEF SdTypeOK, TableInv
    <3>3. PeriphTypeOK'
      BY <2>1, <2>3, <3>1, AdvStarts DEF linkInfo, PeriphTypeOK
    <3> QED BY <2>1, <2>3, <3>1, <3>2, <3>3, AdvStarts DEF linkInfo, RestartInv, LinkInv, ReportInv,
               OfferedKeyIsWhole
  <2> QED BY <1>2, <2>2, <2>3 DEF PeriphDrops
<1>3. CASE PeriphWaits
  BY <1>3 DEF PeriphWaits, sdVars, linkInfo, SdTypeOK, TableInv, PeriphTypeOK, RestartInv, LinkInv,
     ReportInv, OfferedKeyIsWhole
<1>4. CASE PeriphStopForgets
  BY <1>4 DEF PeriphStopForgets, sdVars, linkInfo, SdTypeOK, TableInv, PeriphTypeOK, RestartInv, LinkInv,
     ReportInv, OfferedKeyIsWhole
<1>5. CASE PeriphStopDrops
  BY <1>5 DEF PeriphStopDrops, linkInfo, SdTypeOK, TableInv, PeriphTypeOK, RestartInv, LinkInv,
     ReportInv, OfferedKeyIsWhole
<1>6. CASE PeriphPasskeyReturns
  BY <1>6 DEF PeriphPasskeyReturns, sdVars, linkInfo, SdTypeOK, TableInv, PeriphTypeOK, RestartInv,
     LinkInv, ReportInv, OfferedKeyIsWhole
<1> QED BY <1>1, <1>2, <1>3, <1>4, <1>5, <1>6 DEF PeriphThread

------------------------------------------------------------------------------
(* The events.                                                                *)

\* What an event finds and leaves of the main thread: it comes to an idle one, or
\* is the only one of this command.
Preempts ==
  \/ MainIdle /\ preempts' = preempts
  \/ ~MainIdle /\ Unpreempted /\ ~Unpreempted'

LEMMA EventPreempts == ASSUME MainInv, Paced, Event PROVE Preempts
BY DEF MainInv, Paced, Event, Preempts

LEMMA RadioEventKeeps ==
  ASSUME NrfInv, RadioEvent, Preempts
  PROVE  SdTypeOK' /\ TableInv' /\ CentralInv' /\ PeriphInv'
<1> USE DEF NrfInv
<1>1. PeriphKept /\ UNCHANGED <<links, dropping, smp, keyBuf, pc>> /\ ("adv" \in radio' => "adv" \in radio)
  BY DEF RadioEvent, AdvReport, ScanTimeoutEvt, ConnectTimeoutEvt, sdVars
<1>2. PeriphInv'
  BY <1>1, PeriphFrame DEF PeriphKept, Preempts, SameLink
<1>3. CASE AdvReport
  <2>1. found' \in Seq(BOOLEAN) /\ Len(found') <= MaxResults
    <3>1. found \in Seq(BOOLEAN) /\ Len(found) <= MaxResults
      BY DEF CentralInv, CentralTypeOK
    <3>2. PICK connectable \in BOOLEAN :
            found' = IF Len(found) < MaxResults THEN Append(found, connectable)
                     ELSE [found EXCEPT ![1] = connectable]
      BY <1>3 DEF AdvReport
    <3>3. CASE Len(found) < MaxResults
      <4>1. found' = Append(found, connectable)
        BY <3>2, <3>3
      <4> QED BY <3>1, <3>3, <4>1, AppendProperties
    <3>4. CASE ~(Len(found) < MaxResults)
      <4>1. found' = [found EXCEPT ![1] = connectable]
        BY <3>2, <3>4
      <4>2. 1 \in 1..Len(found)
        BY <3>1, <3>4
      <4> QED BY <3>1, <4>1, <4>2, ExceptSeq
    <3> QED BY <3>3, <3>4
  <2>2. SdTypeOK' /\ TableInv'
    BY <1>3 DEF AdvReport, sdVars, SdTypeOK, TableInv
  <2>3. CentralTypeOK'
    BY <1>3, <2>1 DEF AdvReport, linkVars, CentralInv, CentralTypeOK
  <2> QED BY <1>2, <1>3, <2>2, <2>3 DEF AdvReport, linkVars, sdVars, CentralInv, AttemptInv, OutcomeInv,
             PromptInv, Preempts
<1>4. CASE ScanTimeoutEvt
  <2>1. SdTypeOK' /\ TableInv'
    BY <1>4 DEF ScanTimeoutEvt, SdTypeOK, TableInv
  <2>2. CentralTypeOK'
    <3>1. /\ scanning' = FALSE
          /\ timed' = timed /\ found' = found /\ connState' = connState
          /\ pairState' = pairState /\ connHandle' = connHandle /\ autoPair' = autoPair
          /\ connStatus' = connStatus /\ secLevel' = secLevel
          /\ autoPhase' = autoPhase /\ connPair' = connPair
      BY <1>4 DEF ScanTimeoutEvt, linkVars
    <3>2. CentralTypeOK /\ scanning' \in BOOLEAN
      BY <3>1 DEF CentralInv
    <3> QED BY ONLY <3>1, <3>2 DEF CentralTypeOK
  <2>3. /\ UNCHANGED <<connState, pairState, connHandle, secLevel, autoPhase, pc, links, smp>>
        /\ "connect" \in radio' <=> "connect" \in radio
    BY <1>4 DEF ScanTimeoutEvt, linkVars
  <2>4. AttemptInv'
    BY <2>3 DEF CentralInv, AttemptInv
  <2>5. OutcomeInv'
    BY <1>2, <2>3 DEF CentralInv, OutcomeInv, Preempts, Unpreempted, MainIdle
  <2>6. PromptInv'
    BY <1>2, <2>3 DEF CentralInv, PromptInv, Preempts, Unpreempted, MainIdle
  <2>7. pc' \in CentralPc
    BY <2>3 DEF CentralInv
  <2> QED BY <1>2, <2>1, <2>2, <2>4, <2>5, <2>6, <2>7 DEF CentralInv
<1>5. CASE ConnectTimeoutEvt
  <2>1. SdTypeOK' /\ TableInv'
    BY <1>5 DEF ConnectTimeoutEvt, SdTypeOK, TableInv
  <2>2. CentralTypeOK'
    BY <1>5 DEF ConnectTimeoutEvt, scanVars, CentralInv, CentralTypeOK
  <2> QED BY <1>2, <1>5, <2>1, <2>2 DEF ConnectTimeoutEvt, scanVars, CentralInv, AttemptInv, OutcomeInv,
             PromptInv, Preempts
<1> QED BY <1>3, <1>4, <1>5 DEF RadioEvent

LEMMA ConnectedKeeps ==
  ASSUME NrfInv, NEW h \in Handle, Connected(h), Kept, Preempts
  PROVE  SdTypeOK' /\ TableInv' /\ CentralInv' /\ PeriphInv'
<1> USE DEF NrfInv
<1>1. PICK role \in {"central", "periph"} :
        LinkUp(role, h) /\ CentralConnected(role, h) /\ PeriphConnected(role, h) /\ UNCHANGED keyBuf
  BY DEF Connected
<1>2. /\ links[h] = "free" /\ links' = [links EXCEPT ![h] = role]
      /\ radio' = radio \ {IF role = "central" THEN "connect" ELSE "adv"}
      /\ smp[h] = "none" /\ h \notin dropping
  BY <1>1 DEF LinkUp, TableInv
<1>3. h # connHandle /\ h # pHandle
  BY <1>2 DEF CentralInv, AttemptInv, PeriphInv, LinkInv, OfferedKeyIsWhole
<1>4. CASE role = "central"
  <2>1. "connect" \in radio
    BY <1>1, <1>4 DEF LinkUp
  <2>2. connHandle = NoHandle
    BY <2>1 DEF CentralInv, CentralTypeOK, TableInv, AttemptInv
  <2>3. pairState \notin {"DONE", "INPUT_NEEDED", "DISPLAY_KEY"} /\ pc # "key"
    BY <2>1, <2>2 DEF CentralInv, OutcomeInv, PromptInv, Preempts
  <2>4. /\ connHandle' = h /\ connState' = "CONNECTED" /\ autoPair' = FALSE /\ UNCHANGED secLevel
        /\ connStatus' \in {"ok", "err"} /\ pairState' \in {pairState, "PROGRESS", "FAILED"}
        /\ smp' \in {smp, [smp EXCEPT ![h] = "begun"]} /\ dropping' \in {dropping, dropping \cup {h}}
    BY <1>1, <1>4 DEF CentralConnected
  <2>5. SdTypeOK' /\ TableInv'
    BY <1>1, <1>2, <1>4, <2>4 DEF SdTypeOK, SmpStage, TableInv
  <2>6. CentralTypeOK' /\ pc' \in CentralPc
    BY <2>4 DEF CentralInv, CentralTypeOK, Kept, scanVars
  <2>7. AttemptInv' /\ OutcomeInv' /\ PromptInv'
    BY <1>2, <1>4, <2>3, <2>4 DEF SdTypeOK, AttemptInv, OutcomeInv, PromptInv, Kept
  <2>8. SameLink(pHandle) /\ UNCHANGED <<periphVars, ppc, old, keyBuf>>
    BY <1>1, <1>2, <1>3, <1>4, <2>4 DEF SameLink, PeriphConnected, NotMine, Kept, SdTypeOK, PeriphInv,
       PeriphTypeOK
  <2>9. PeriphInv'
    BY <1>2, <1>4, <2>4, <2>8, PeriphFrame DEF Preempts
  <2> QED BY <2>5, <2>6, <2>7, <2>9 DEF CentralInv
<1>5. CASE role = "periph"
  <2>1. "adv" \in radio /\ UNCHANGED <<linkVars, smp, dropping>>
    BY <1>1, <1>5 DEF LinkUp, CentralConnected, NotOurs
  <2>2. SdTypeOK' /\ TableInv'
    BY <1>1, <1>2, <1>5, <2>1 DEF SdTypeOK, TableInv
  <2>3. ~Restarting
    BY <2>1 DEF PeriphInv, RestartInv, Preempts
  <2>4. CentralInv'
    BY <1>2, <1>3, <1>5, <2>1, CentralFrame DEF SameLink, Kept, centralVars, Preempts, SdTypeOK, CentralInv,
       CentralTypeOK
  <2>5. PeriphTypeOK'
    BY <1>1, <1>5 DEF PeriphConnected, ClearLink, Kept, PeriphInv, PeriphTypeOK
  <2>6. RestartInv' /\ LinkInv' /\ ReportInv'
    BY <1>1, <1>2, <1>5, <2>1, <2>3 DEF PeriphConnected, ClearLink, Kept, PeriphInv, RestartInv, LinkInv,
       ReportInv, OfferedKeyIsWhole, SdTypeOK
  <2> QED BY <2>2, <2>4, <2>5, <2>6 DEF PeriphInv
<1> QED BY <1>4, <1>5

LEMMA DisconnectedKeeps ==
  ASSUME NrfInv, Paced, NEW h \in Handle, Disconnected(h), Kept, Preempts
  PROVE  SdTypeOK' /\ TableInv' /\ CentralInv' /\ PeriphInv'
<1> USE DEF NrfInv
<1>1. /\ ppc # "dropped" \/ h # old
      /\ links[h] # "free" /\ links' = [links EXCEPT ![h] = "free"]
      /\ dropping' = dropping \ {h} /\ smp' = [smp EXCEPT ![h] = "none"] /\ UNCHANGED keyBuf
  BY DEF Disconnected, LinkDown, Paced
<1>2. /\ radio' \subseteq {"scan", "connect", "adv"}
      /\ "connect" \in radio' <=> "connect" \in radio
      /\ "adv" \in radio' => "adv" \in radio \/ NoLink(links', "periph")
  <2>1. CASE radio' = radio
    BY <2>1 DEF SdTypeOK
  <2>2. CASE AdvStart([links EXCEPT ![h] = "free"])
    <3>1. pStatus \in {"ok", "err"}
      BY DEF PeriphInv, PeriphTypeOK
    <3> QED BY <1>1, <2>2, <3>1, AdvStarts
  <2> QED BY <2>1, <2>2 DEF Disconnected, PeriphDisconnected
<1>3. SdTypeOK' /\ TableInv'
  BY <1>1, <1>2 DEF SdTypeOK, SmpStage, TableInv
<1>4. CentralInv'
  <2>1. CASE h # connHandle
    <3>1. UNCHANGED linkVars
      BY <2>1 DEF Disconnected, CentralDisconnected, Ours, NotOurs
    <3> QED BY <1>1, <1>2, <2>1, <3>1, CentralFrame DEF SameLink, Kept, centralVars, Preempts, SdTypeOK,
               CentralInv, CentralTypeOK
  <2>2. CASE h = connHandle
    <3>1. /\ connHandle' = NoHandle /\ autoPair' = FALSE /\ connStatus' = "err" /\ UNCHANGED secLevel
          /\ \/ pairState = "DONE" /\ UNCHANGED <<connState, pairState>>
             \/ pairState # "DONE" /\ connState' = "FAILED" /\ pairState' = "FAILED"
      BY <2>2 DEF Disconnected, CentralDisconnected, Ours
    <3>2. CentralTypeOK' /\ pc' \in CentralPc
      BY <3>1 DEF CentralInv, CentralTypeOK, Kept, scanVars
    <3>3. pc = "connect" => pairState # "DONE"
      BY DEF CentralInv, OutcomeInv, Preempts
    <3>4. pc = "key" => pairState = "INPUT_NEEDED"
      BY DEF CentralInv, PromptInv, Preempts
    <3>5. AttemptInv' /\ OutcomeInv' /\ PromptInv'
      BY <1>2, <3>1, <3>3, <3>4 DEF CentralInv, AttemptInv, OutcomeInv, PromptInv, Kept, Preempts
    <3> QED BY <3>2, <3>5 DEF CentralInv
  <2> QED BY <2>1, <2>2
<1>5. PeriphInv'
  <2>1. CASE h = restartAfter
    <3>1. /\ restartAfter' = NoHandle /\ AdvStart([links EXCEPT ![h] = "free"])
          /\ UNCHANGED <<pHandle, linkInfo, haveKeys, ppc, old>>
      BY <2>1 DEF Disconnected, PeriphDisconnected, Kept, PeriphInv, PeriphTypeOK
    <3>2. pStatus \in {"ok", "err"}
      BY DEF PeriphInv, PeriphTypeOK
    <3>3. PeriphTypeOK'
      BY <3>1, <3>2, AdvStarts DEF PeriphInv, PeriphTypeOK, linkInfo
    <3>4. pHandle # h
      BY <2>1 DEF PeriphInv, RestartInv
    <3>5. SameLink(pHandle)
      BY <1>1, <3>4 DEF SameLink, SdTypeOK, PeriphInv, PeriphTypeOK
    <3>6. RestartInv'
      BY <1>1, <3>1 DEF PeriphInv, RestartInv, Preempts
    <3>7. LinkInv'
      BY <1>1, <3>1, <3>5 DEF SameLink, PeriphInv, LinkInv, OfferedKeyIsWhole, linkInfo
    <3>8. ReportInv'
      BY <3>1, <3>2, AdvStarts DEF ReportInv
    <3> QED BY <3>3, <3>6, <3>7, <3>8 DEF PeriphInv
  <2>2. CASE h # restartAfter /\ h = pHandle
    <3>1. /\ pHandle' = NoHandle /\ pStatus' = "err"
          /\ pState' = (IF pState = "DONE" THEN "DONE" ELSE "FAILED")
          /\ UNCHANGED <<restartAfter, linkInfo, haveKeys, radio, ppc, old>>
      BY <2>2 DEF Disconnected, PeriphDisconnected, Mine, Kept
    <3>2. PeriphTypeOK'
      BY <3>1 DEF PeriphInv, PeriphTypeOK, linkInfo
    <3>3. RestartInv'
      BY <1>1, <2>2, <3>1 DEF PeriphInv, RestartInv, Preempts
    <3>4. LinkInv' /\ ReportInv'
      BY <1>1, <3>1 DEF PeriphInv, LinkInv, ReportInv, OfferedKeyIsWhole, linkInfo
    <3> QED BY <3>2, <3>3, <3>4 DEF PeriphInv
  <2>3. CASE h # restartAfter /\ h # pHandle
    <3>1. UNCHANGED <<periphVars, radio>>
      BY <2>3 DEF Disconnected, PeriphDisconnected, Mine
    <3> QED BY <1>1, <2>3, <3>1, PeriphFrame DEF SameLink, Kept, Preempts, SdTypeOK, PeriphInv, PeriphTypeOK
  <2> QED BY <2>1, <2>2, <2>3
<1> QED BY <1>3, <1>4, <1>5

\* A step of a pairing is a step of the link it is on, and of no other.
LEMMA AdvancesKeeps ==
  ASSUME NrfInv, NEW h \in Handle, NEW from, NEW to \in SmpStage, Advances(h, from, to),
         links[h] # "free" \/ "none" \notin from,
         UNCHANGED <<links, radio>>, keyBuf' \in {"none", "partial", "whole"},
         dropping' \in {dropping, dropping \cup {h}}
  PROVE  /\ SdTypeOK' /\ TableInv' /\ smp[h] \in from /\ smp'[h] = to
         /\ h # connHandle => SameLink(connHandle)
         /\ h # pHandle => SameLink(pHandle)
<1> USE DEF NrfInv
<1>1. smp[h] \in from /\ smp' = [smp EXCEPT ![h] = to] /\ links[h] # "free"
  BY DEF Advances, TableInv
<1>2. SdTypeOK' /\ TableInv' /\ smp'[h] = to
  BY <1>1 DEF SdTypeOK, TableInv
<1> QED BY <1>1, <1>2 DEF SameLink, SdTypeOK, CentralInv, CentralTypeOK, PeriphInv, PeriphTypeOK

\* A step of a stranger's pairing.
LEMMA StrangerKeeps ==
  ASSUME NrfInv, Kept, Preempts, UNCHANGED radio,
         dropping' = dropping \/ \E h \in Handle : dropping' = dropping \cup {h}
  PROVE  /\ SameLink(connHandle) /\ UNCHANGED linkVars => CentralInv'
         /\ SameLink(pHandle) /\ UNCHANGED <<periphVars, keyBuf>> => PeriphInv'
<1>1. SameLink(connHandle) /\ UNCHANGED linkVars => CentralInv'
  BY CentralFrame DEF NrfInv, Kept, Preempts, centralVars
<1>2. SameLink(pHandle) /\ UNCHANGED <<periphVars, keyBuf>> => PeriphInv'
  BY PeriphFrame DEF NrfInv, Kept, Preempts
<1> QED BY <1>1, <1>2

LEMMA SecParamsRequestKeeps ==
  ASSUME NrfInv, NEW h \in Handle, SecParamsRequest(h), Kept, Preempts
  PROVE  SdTypeOK' /\ TableInv' /\ CentralInv' /\ PeriphInv'
<1> USE DEF NrfInv
<1> DEFINE to == IF Answered(h) THEN "exch" ELSE "begun"
<1>1. /\ links[h] # "free" /\ Advances(h, {"none", "begun"}, to) /\ PeriphSecParams(h)
      /\ keyBuf' = (IF Mine(h) THEN "partial" ELSE keyBuf)
      /\ UNCHANGED <<linkVars, links, dropping, radio>>
  BY DEF SecParamsRequest
<1>2. to \in SmpStage /\ to \in {"exch", "begun"}
  BY DEF SmpStage
<1>3. keyBuf' \in {"none", "partial", "whole"}
  BY <1>1 DEF SdTypeOK
<1> HIDE DEF to
<1>4. /\ SdTypeOK' /\ TableInv' /\ smp[h] \in {"none", "begun"} /\ smp'[h] = to
      /\ h # connHandle => SameLink(connHandle)
      /\ h # pHandle => SameLink(pHandle)
  BY <1>1, <1>2, <1>3, AdvancesKeeps
<1>5. CentralInv'
  <2>1. CASE h # connHandle
    BY <1>1, <1>4, <2>1, StrangerKeeps
  <2>2. CASE h = connHandle
    <3>1. CentralTypeOK' /\ pc' \in CentralPc
      BY <1>1 DEF CentralInv, CentralTypeOK, linkVars, scanVars, Kept
    <3>2. AttemptInv' /\ OutcomeInv' /\ PromptInv'
      BY <1>1, <1>2, <1>4, <2>2 DEF CentralInv, AttemptInv, OutcomeInv, PromptInv, linkVars, Kept, Preempts
    <3> QED BY <3>1, <3>2 DEF CentralInv
  <2> QED BY <2>1, <2>2
<1>6. PeriphInv'
  <2>1. CASE h # pHandle
    BY <1>1, <1>4, <2>1, StrangerKeeps DEF PeriphSecParams, Mine, NotMine
  <2>2. CASE h = pHandle
    <3>1. /\ peerParams' = TRUE /\ haveKeys' = FALSE
          /\ \/ pState' = "PAIRING" /\ UNCHANGED pStatus
             \/ pState' = "FAILED" /\ pStatus' = "err"
          /\ UNCHANGED <<pHandle, restartAfter, havePeer, sawPasskey, method, pLevel>>
      BY <1>1, <2>2 DEF PeriphSecParams, Mine
    <3>2. PeriphTypeOK'
      BY <3>1 DEF PeriphInv, PeriphTypeOK, Kept
    <3>3. RestartInv' /\ LinkInv' /\ ReportInv'
      BY <1>1, <1>2, <1>4, <2>2, <3>1 DEF PeriphInv, RestartInv, LinkInv, ReportInv, OfferedKeyIsWhole,
         Kept, Preempts
    <3> QED BY <3>2, <3>3 DEF PeriphInv
  <2> QED BY <2>1, <2>2
<1> QED BY <1>4, <1>5, <1>6

LEMMA KeyEventKeeps ==
  ASSUME NrfInv, NEW h \in Handle, AuthKeyRequest(h) \/ PasskeyDisplay(h), Kept, Preempts
  PROVE  SdTypeOK' /\ TableInv' /\ CentralInv' /\ PeriphInv'
<1> USE DEF NrfInv
<1>1. PICK to \in {"await", "keyed"}, state \in {"INPUT_NEEDED", "DISPLAY_KEY"},
           word \in {"PASSKEY", "DISPLAY"} :
        /\ Advances(h, {"exch"}, to) /\ Pairs(h, state) /\ PeriphKeyEvent(h, word)
        /\ (state = "INPUT_NEEDED" /\ word = "PASSKEY") <=> to = "await"
        /\ (state = "DISPLAY_KEY" /\ word = "DISPLAY") <=> to = "keyed"
        /\ UNCHANGED <<links, dropping, radio, keyBuf>>
  BY DEF AuthKeyRequest, PasskeyDisplay
<1>2. to \in SmpStage /\ keyBuf' \in {"none", "partial", "whole"}
  BY <1>1 DEF SmpStage, SdTypeOK
<1>3. /\ SdTypeOK' /\ TableInv' /\ smp[h] = "exch" /\ smp'[h] = to
      /\ h # connHandle => SameLink(connHandle)
      /\ h # pHandle => SameLink(pHandle)
  BY <1>1, <1>2, AdvancesKeeps
<1>4. CentralInv'
  <2>1. CASE h # connHandle
    BY <1>1, <1>3, <2>1, StrangerKeeps DEF Pairs, Ours, NotOurs
  <2>2. CASE h = connHandle
    <3>1. pairState' = state /\ UNCHANGED <<connState, connHandle, autoPair, connStatus, secLevel>>
      BY <1>1, <2>2 DEF Pairs, Ours
    <3>2. CentralTypeOK' /\ pc' \in CentralPc
      BY <1>1, <3>1 DEF CentralInv, CentralTypeOK, scanVars, Kept
    <3>3. AttemptInv' /\ OutcomeInv' /\ PromptInv'
      BY <1>1, <1>3, <2>2, <3>1 DEF CentralInv, AttemptInv, OutcomeInv, PromptInv, Kept, Preempts
    <3> QED BY <3>2, <3>3 DEF CentralInv
  <2> QED BY <2>1, <2>2
<1>5. PeriphInv'
  <2>1. CASE h # pHandle
    BY <1>1, <1>3, <2>1, StrangerKeeps DEF PeriphKeyEvent, Mine, NotMine
  <2>2. CASE h = pHandle
    <3>1. /\ sawPasskey' = TRUE /\ pState' = word
          /\ UNCHANGED <<pHandle, pStatus, restartAfter, havePeer, peerParams, method, pLevel, haveKeys,
                         ppc, old>>
      BY <1>1, <2>2 DEF PeriphKeyEvent, Mine, Kept
    <3>2. PeriphTypeOK'
      BY <1>1, <3>1 DEF PeriphInv, PeriphTypeOK
    <3>3. RestartInv' /\ LinkInv' /\ ReportInv'
      BY <1>1, <1>3, <2>2, <3>1 DEF PeriphInv, RestartInv, LinkInv, ReportInv, OfferedKeyIsWhole, Preempts
    <3> QED BY <3>2, <3>3 DEF PeriphInv
  <2> QED BY <2>1, <2>2
<1> QED BY <1>3, <1>4, <1>5

LEMMA SecInfoRequestKeeps ==
  ASSUME NrfInv, NEW h \in Handle, SecInfoRequest(h), Kept, Preempts
  PROVE  SdTypeOK' /\ TableInv' /\ CentralInv' /\ PeriphInv'
<1> USE DEF NrfInv
<1>1. /\ links[h] = "periph" /\ h = pHandle /\ Advances(h, {"none"}, "reenc")
      /\ UNCHANGED <<linkVars, periphVars, links, dropping, radio, keyBuf>>
  BY DEF SecInfoRequest, Mine
<1>2. "reenc" \in SmpStage /\ keyBuf' \in {"none", "partial", "whole"} /\ h # connHandle
  BY <1>1 DEF SmpStage, SdTypeOK, CentralInv, AttemptInv
<1>3. /\ SdTypeOK' /\ TableInv' /\ smp[h] = "none" /\ smp'[h] = "reenc" /\ SameLink(connHandle)
  BY <1>1, <1>2, AdvancesKeeps
<1>4. CentralInv'
  BY <1>1, <1>3, StrangerKeeps
<1>5. PeriphTypeOK'
  BY <1>1 DEF PeriphInv, PeriphTypeOK, periphVars, linkInfo, Kept
<1>6. RestartInv' /\ LinkInv' /\ ReportInv'
  BY <1>1, <1>3 DEF PeriphInv, RestartInv, LinkInv, ReportInv, OfferedKeyIsWhole, periphVars, linkInfo,
     Kept, Preempts
<1> QED BY <1>3, <1>4, <1>5, <1>6 DEF PeriphInv

LEMMA ConnSecUpdateKeeps ==
  ASSUME NrfInv, NEW h \in Handle, ConnSecUpdate(h), Kept, Preempts
  PROVE  SdTypeOK' /\ TableInv' /\ CentralInv' /\ PeriphInv'
<1> USE DEF NrfInv
<1>1. PICK to \in {"secured", "none"} :
        /\ Advances(h, {"exch", "keyed", "reenc"}, to)
        /\ to = "secured" => smp[h] # "reenc"
        /\ to = "none" => smp[h] = "reenc"
        /\ CentralSecUpdate(h) /\ PeriphSecUpdate(h)
        /\ UNCHANGED <<links, dropping, radio, keyBuf>>
  BY DEF ConnSecUpdate, Advances
<1>2. to \in SmpStage /\ keyBuf' \in {"none", "partial", "whole"}
  BY <1>1 DEF SmpStage, SdTypeOK
<1>3. /\ SdTypeOK' /\ TableInv' /\ smp[h] \in {"exch", "keyed", "reenc"} /\ smp'[h] = to
      /\ h # connHandle => SameLink(connHandle)
      /\ h # pHandle => SameLink(pHandle)
  BY <1>1, <1>2, AdvancesKeeps
<1>4. CentralInv'
  <2>1. CASE h # connHandle
    BY <1>1, <1>3, <2>1, StrangerKeeps DEF CentralSecUpdate, Ours, NotOurs
  <2>2. CASE h = connHandle
    <3>1. secLevel' = "encrypted" /\ UNCHANGED <<connState, pairState, connHandle, autoPair, connStatus>>
      BY <1>1, <2>2 DEF CentralSecUpdate, Ours
    <3>2. CentralTypeOK' /\ pc' \in CentralPc
      BY <3>1 DEF CentralInv, CentralTypeOK, scanVars, Kept
    <3>3. AttemptInv' /\ OutcomeInv' /\ PromptInv'
      BY <1>1, <1>3, <2>2, <3>1 DEF CentralInv, AttemptInv, OutcomeInv, PromptInv, Kept, Preempts
    <3> QED BY <3>2, <3>3 DEF CentralInv
  <2> QED BY <2>1, <2>2
<1>5. PeriphInv'
  <2>1. CASE h # pHandle
    BY <1>1, <1>3, <2>1, StrangerKeeps DEF PeriphSecUpdate, Mine, NotMine
  <2>2. CASE h = pHandle
    <3>1. /\ pLevel' = "encrypted"
          /\ \/ pState = "CONNECTED" /\ method' = "bonded_reencrypt" /\ pState' = "DONE"
             \/ pState # "CONNECTED" /\ UNCHANGED <<method, pState>>
          /\ UNCHANGED <<pHandle, pStatus, restartAfter, havePeer, peerParams, sawPasskey, haveKeys>>
      BY <1>1, <2>2 DEF PeriphSecUpdate, Mine
    <3>2. PeriphTypeOK'
      BY <3>1 DEF PeriphInv, PeriphTypeOK, Kept
    <3>3. RestartInv' /\ LinkInv' /\ ReportInv'
      BY <1>1, <1>3, <2>2, <3>1 DEF PeriphInv, RestartInv, LinkInv, ReportInv, OfferedKeyIsWhole, Kept,
         Preempts
    <3> QED BY <3>2, <3>3 DEF PeriphInv
  <2> QED BY <2>1, <2>2
<1> QED BY <1>3, <1>4, <1>5

LEMMA AuthStatusKeeps ==
  ASSUME NrfInv, NEW h \in Handle, AuthStatus(h), Kept, Preempts
  PROVE  SdTypeOK' /\ TableInv' /\ CentralInv' /\ PeriphInv'
<1> USE DEF NrfInv
<1>1. PICK success \in BOOLEAN, bonded \in BOOLEAN :
        /\ Advances(h, IF success THEN {"secured"} ELSE SmpStage \ {"none", "reenc"}, "none")
        /\ dropping' = dropping \cup {x \in {h} : Ours(x) /\ ~success}
        /\ keyBuf' = (IF success /\ links[h] = "periph" THEN "whole" ELSE keyBuf)
        /\ CentralAuthStatus(h, success) /\ PeriphAuthStatus(h, success, bonded)
        /\ UNCHANGED <<links, radio>>
  BY DEF AuthStatus
<1> DEFINE from == IF success THEN {"secured"} ELSE SmpStage \ {"none", "reenc"}
<1>2. /\ "none" \in SmpStage /\ "none" \notin from /\ (success => from = {"secured"})
      /\ keyBuf' \in {"none", "partial", "whole"} /\ (keyBuf = "whole" => keyBuf' = "whole")
      /\ dropping' \in {dropping, dropping \cup {h}}
  BY <1>1 DEF SmpStage, SdTypeOK
<1>3. Advances(h, from, "none") /\ UNCHANGED <<links, radio>>
  BY <1>1
<1> HIDE DEF from
<1>4. /\ SdTypeOK' /\ TableInv' /\ smp[h] \in from /\ smp'[h] = "none"
      /\ h # connHandle => SameLink(connHandle)
      /\ h # pHandle => SameLink(pHandle)
  BY <1>2, <1>3, AdvancesKeeps
<1>5. CentralInv'
  <2>1. CASE h # connHandle
    BY <1>1, <1>2, <1>4, <2>1, StrangerKeeps DEF CentralAuthStatus, Ours, NotOurs
  <2>2. CASE h = connHandle
    <3>1. /\ connStatus' \in {"ok", "err"} /\ pairState' = (IF success THEN "DONE" ELSE "FAILED")
          /\ UNCHANGED <<connState, connHandle, autoPair, secLevel>>
      BY <1>1, <2>2 DEF CentralAuthStatus, Ours
    <3>2. CentralTypeOK' /\ pc' \in CentralPc
      BY <1>1, <3>1 DEF CentralInv, CentralTypeOK, scanVars, Kept
    <3>3. success => smp[connHandle] = "secured"
      BY <1>2, <1>4, <2>2
    <3>4. "connect" \notin radio
      BY <2>2 DEF CentralInv, AttemptInv, TableInv
    <3>5. AttemptInv' /\ OutcomeInv' /\ PromptInv'
      BY <1>1, <1>4, <2>2, <3>1, <3>3, <3>4 DEF CentralInv, AttemptInv, OutcomeInv, PromptInv, Kept,
         Preempts
    <3> QED BY <3>2, <3>5 DEF CentralInv
  <2> QED BY <2>1, <2>2
<1>6. PeriphInv'
  <2>1. CASE h # pHandle
    <3>1. UNCHANGED periphVars /\ SameLink(pHandle)
      BY <1>1, <1>4, <2>1 DEF PeriphAuthStatus, Mine, NotMine
    <3>2. PeriphTypeOK'
      BY <3>1 DEF PeriphInv, PeriphTypeOK, periphVars, linkInfo, Kept
    <3>3. RestartInv' /\ LinkInv' /\ ReportInv'
      BY <1>2, <1>3, <3>1 DEF SameLink, PeriphInv, RestartInv, LinkInv, ReportInv, OfferedKeyIsWhole,
         periphVars, linkInfo, Kept, Preempts
    <3> QED BY <3>2, <3>3 DEF PeriphInv
  <2>2. CASE h = pHandle /\ success
    <3>1. /\ pState' = "DONE" /\ pStatus' = "ok" /\ haveKeys' = bonded
          /\ method' = (IF sawPasskey THEN "passkey" ELSE DerivedMethod)
          /\ UNCHANGED <<pHandle, restartAfter, havePeer, peerParams, sawPasskey, pLevel>>
      BY <1>1, <2>2 DEF PeriphAuthStatus, Mine
    <3>2. keyBuf' = "whole" /\ smp[pHandle] = "secured"
      BY <1>1, <1>2, <1>4, <2>2 DEF PeriphInv, LinkInv
    <3>3. PeriphTypeOK'
      BY <1>1, <3>1 DEF DerivedMethod, PeriphInv, PeriphTypeOK, Kept
    <3>4. RestartInv' /\ LinkInv' /\ ReportInv'
      BY <1>2, <1>3, <1>4, <2>2, <3>1, <3>2 DEF DerivedMethod, PeriphInv, RestartInv, LinkInv, ReportInv,
         OfferedKeyIsWhole, Kept, Preempts
    <3> QED BY <3>3, <3>4 DEF PeriphInv
  <2>3. CASE h = pHandle /\ ~success
    <3>1. /\ pState' = "FAILED" /\ pStatus' = "err"
          /\ UNCHANGED <<pHandle, restartAfter, linkInfo, haveKeys>>
      BY <1>1, <2>3 DEF PeriphAuthStatus, Mine
    <3>2. PeriphTypeOK'
      BY <3>1 DEF PeriphInv, PeriphTypeOK, linkInfo, Kept
    <3>3. RestartInv' /\ LinkInv' /\ ReportInv'
      BY <1>2, <1>3, <1>4, <2>3, <3>1 DEF PeriphInv, RestartInv, LinkInv, ReportInv, OfferedKeyIsWhole,
         linkInfo, Kept, Preempts
    <3> QED BY <3>2, <3>3 DEF PeriphInv
  <2> QED BY <2>1, <2>2, <2>3
<1> QED BY <1>4, <1>5, <1>6

LEMMA GattTimeoutKeeps ==
  ASSUME NrfInv, NEW h \in Handle, GattTimeout(h), Kept, Preempts
  PROVE  SdTypeOK' /\ TableInv' /\ CentralInv' /\ PeriphInv'
<1>1. /\ links[h] # "free" /\ dropping' = dropping \cup {h}
      /\ UNCHANGED <<linkVars, periphVars, links, smp, radio, keyBuf>>
  BY DEF GattTimeout
<1>2. CentralInv' /\ PeriphInv'
  BY <1>1, StrangerKeeps DEF SameLink
<1>3. SdTypeOK' /\ TableInv'
  BY <1>1 DEF NrfInv, SdTypeOK, TableInv
<1> QED BY <1>2, <1>3

LEMMA EventKeeps ==
  ASSUME NrfInv, Paced, Event
  PROVE  SdTypeOK' /\ TableInv' /\ CentralInv' /\ PeriphInv'
<1>1. Preempts
  BY EventPreempts DEF NrfInv
<1>2. CASE RadioEvent
  BY <1>1, <1>2, RadioEventKeeps
<1>3. ASSUME NEW h \in Handle, LinkEvent(h)
      PROVE  SdTypeOK' /\ TableInv' /\ CentralInv' /\ PeriphInv'
  BY <1>1, <1>3, ConnectedKeeps, DisconnectedKeeps, SecParamsRequestKeeps, KeyEventKeeps,
     SecInfoRequestKeeps, ConnSecUpdateKeeps, AuthStatusKeeps, GattTimeoutKeeps DEF LinkEvent
<1> QED BY <1>2, <1>3 DEF Event

------------------------------------------------------------------------------
(* The main loop, and the steps of both.                                      *)

\* What a step of one role is to the other.
LEMMA CentralStepsAside ==
  ASSUME NrfInv, CentralCommand \/ CentralThread \/ ConnTask
  PROVE  /\ SameLink(pHandle) /\ UNCHANGED keyBuf
         /\ \A h : h \in dropping => h \in dropping'
         /\ "adv" \in radio' => "adv" \in radio
<1> USE DEF NrfInv, SameLink
<1>1. CASE /\ ScanCommand \/ ConnectStart \/ AutoStart
           /\ UNCHANGED <<links, dropping, smp, keyBuf>>
  BY <1>1 DEF ScanCommand, ScanStart, ScanTimed, ScanStartTimed, ScanBegins, ConnectStart, ConnStart, ConnectTo,
     AutoStart
<1>2. CASE PairPasskey \/ PairCall
  <2>1. /\ UNCHANGED <<links, dropping, radio, keyBuf>>
        /\ \/ UNCHANGED smp
           \/ connHandle \in Handle /\ \E stage : smp' = [smp EXCEPT ![connHandle] = stage]
    BY <1>2 DEF PairPasskey, PairCall
  <2>2. connHandle # NoHandle /\ pHandle # NoHandle => connHandle # pHandle
    BY DEF CentralInv, AttemptInv, PeriphInv, LinkInv
  <2>3. pHandle # NoHandle => smp'[pHandle] = smp[pHandle]
    BY <2>1, <2>2 DEF SdTypeOK, PeriphInv, PeriphTypeOK
  <2> QED BY <2>1, <2>3
<1>3. CASE Disconnect \/ PairStart
  BY <1>3 DEF Disconnect, PairStart, sdVars
<1>4. CASE ConnectRefused \/ PairReturns \/ PairPasskeyReturns
  BY <1>4 DEF ConnectRefused, PairReturns, PairPasskeyReturns, sdVars
<1>5. CASE ConnectCall
  BY <1>5 DEF ConnectCall
<1>6. CASE ConnTask
  BY <1>6 DEF ConnTask, ConnectTo
<1> QED BY <1>1, <1>2, <1>3, <1>4, <1>5, <1>6 DEF CentralCommand, CentralThread

LEMMA PeriphStepsAside ==
  ASSUME NrfInv, PeriphCommand \/ PeriphThread
  PROVE  SameLink(connHandle) /\ ("connect" \in radio' <=> "connect" \in radio)
<1> USE DEF NrfInv, SameLink
<1>1. CASE PeriphStart \/ PeriphStop
  BY <1>1 DEF PeriphStart, PeriphStop
<1>2. CASE PeriphPasskey
  <2>1. /\ UNCHANGED <<links, radio>> /\ pHandle \in Handle
        /\ smp' = [smp EXCEPT ![pHandle] = "keyed"]
    BY <1>2 DEF PeriphPasskey
  <2>2. connHandle # NoHandle => connHandle # pHandle
    BY <2>1 DEF CentralInv, AttemptInv, PeriphInv, LinkInv
  <2> QED BY <2>1, <2>2 DEF SdTypeOK, CentralInv, CentralTypeOK
<1>3. CASE PeriphForgets \/ PeriphWaits \/ PeriphStopForgets \/ PeriphPasskeyReturns
  BY <1>3 DEF PeriphForgets, PeriphWaits, PeriphStopForgets, PeriphPasskeyReturns, sdVars
<1>4. CASE PeriphDrops
  BY <1>4 DEF PeriphDrops, AdvStart
<1>5. CASE PeriphStopDrops
  BY <1>5 DEF PeriphStopDrops
<1> QED BY <1>1, <1>2, <1>3, <1>4, <1>5 DEF PeriphCommand, PeriphThread

\* Only one role has a command in progress.
LEMMA StepsOfPc ==
  ASSUME NrfInv
  PROVE  /\ CentralThread => pc # "idle"
         /\ PeriphThread => ppc # "idle"
BY DEF CentralThread, ConnectCall, ConnectRefused, PairCall, PairReturns, PairPasskeyReturns, PeriphThread,
       PeriphForgets, PeriphDrops, PeriphWaits, PeriphStopForgets, PeriphStopDrops, PeriphPasskeyReturns

LEMMA CommandKeeps ==
  ASSUME NrfInv, Command
  PROVE  NrfInv'
<1>1. MainIdle /\ commands > 0 /\ commands' = commands - 1 /\ UNCHANGED preempts
  BY DEF Command
<1>2. CASE CentralCommand /\ PeriphKept
  <2>1. SdTypeOK' /\ TableInv' /\ CentralInv'
    BY <1>1, <1>2, CentralCommandKeeps
  <2>2. PeriphInv'
    BY <1>1, <1>2, CentralStepsAside, PeriphFrame DEF NrfInv, PeriphKept
  <2>3. MainInv'
    BY <1>1, <1>2 DEF NrfInv, MainInv, PeriphKept
  <2> QED BY <2>1, <2>2, <2>3 DEF NrfInv
<1>3. CASE PeriphCommand /\ CentralKept
  <2>1. SdTypeOK' /\ TableInv' /\ PeriphInv'
    BY <1>1, <1>3, PeriphCommandKeeps
  <2>2. CentralInv'
    BY <1>1, <1>3, PeriphStepsAside, CentralFrame DEF NrfInv, CentralKept
  <2>3. MainInv'
    BY <1>1, <1>3 DEF NrfInv, MainInv, CentralKept
  <2> QED BY <2>1, <2>2, <2>3 DEF NrfInv
<1> QED BY <1>2, <1>3 DEF Command

LEMMA ThreadKeeps ==
  ASSUME NrfInv, Thread
  PROVE  NrfInv'
<1>1. /\ preempts' = (IF pc' = "idle" /\ ppc' = "idle" THEN MaxPreempts ELSE preempts)
      /\ UNCHANGED commands
  BY DEF Thread
<1>2. CASE (CentralThread \/ ConnTask) /\ PeriphKept /\ (MainIdle \/ CentralThread)
  <2>0. preempts' = preempts \/ (pc' = "idle" /\ ppc' = "idle")
    BY <1>1
  <2>1. SdTypeOK' /\ TableInv' /\ CentralInv'
    BY <1>2, <2>0, CentralThreadKeeps
  <2>2. ppc = "idle"
    BY <1>2, StepsOfPc DEF NrfInv, MainInv
  <2>3. PeriphInv'
    BY <1>2, <2>2, CentralStepsAside, PeriphFrame DEF NrfInv, PeriphKept
  <2>4. MainInv'
    BY <1>1, <1>2, <2>2 DEF NrfInv, MainInv, PeriphKept
  <2> QED BY <2>1, <2>3, <2>4 DEF NrfInv
<1>3. CASE PeriphThread /\ CentralKept
  <2>1. SdTypeOK' /\ TableInv' /\ PeriphInv'
    BY <1>1, <1>3, PeriphThreadKeeps
  <2>2. pc = "idle"
    BY <1>3, StepsOfPc DEF NrfInv, MainInv
  <2>3. CentralInv'
    BY <1>3, <2>2, PeriphStepsAside, CentralFrame DEF NrfInv, CentralKept
  <2>4. MainInv'
    BY <1>1, <1>3, <2>2 DEF NrfInv, MainInv, CentralKept
  <2> QED BY <2>1, <2>3, <2>4 DEF NrfInv
<1>4. \/ CentralThread /\ PeriphKept
      \/ PeriphThread /\ CentralKept
      \/ MainIdle /\ ConnTask /\ PeriphKept
  BY DEF Thread
<1> QED BY <1>2, <1>3, <1>4

LEMMA NrfStepInv == ASSUME NrfInv, Paced, [NrfNext]_nrfVars PROVE NrfInv'
<1>1. CASE Event
  <2>1. UNCHANGED <<pc, ppc, commands>> /\ preempts' = (IF MainIdle THEN preempts ELSE preempts - 1)
    BY <1>1 DEF Event, RadioEvent, AdvReport, ScanTimeoutEvt, ConnectTimeoutEvt, PeriphKept, LinkEvent, Kept
  <2>2. MainIdle \/ preempts > 0
    BY <1>1 DEF Event
  <2>3. MainInv'
    BY <2>1, <2>2 DEF NrfInv, MainInv
  <2> QED BY <1>1, <2>3, EventKeeps DEF NrfInv
<1>2. CASE UNCHANGED nrfVars
  BY <1>2 DEF nrfVars, sdVars, centralVars, scanVars, linkVars, periphVars, linkInfo, NrfInv, SdTypeOK,
     TableInv, MainInv, CentralInv, CentralTypeOK, AttemptInv, OutcomeInv, PromptInv, PeriphInv, PeriphTypeOK,
     RestartInv, LinkInv, ReportInv, OfferedKeyIsWhole
<1> QED BY <1>1, <1>2, CommandKeeps, ThreadKeeps DEF NrfNext

------------------------------------------------------------------------------
\* NrfInv is an invariant of the example while it is paced.
THEOREM NrfInvariance == Paced /\ NrfSpec => []NrfInv
<1>1. NrfInit => NrfInv
  BY NrfInitInv
<1>2. Paced /\ NrfInv /\ [NrfNext]_nrfVars => NrfInv'
  BY NrfStepInv
<1>3. CASE Paced
  <2>1. NrfInv /\ [NrfNext]_nrfVars => NrfInv'
    BY <1>2, <1>3
  <2> QED BY <1>1, <2>1, PTL DEF NrfSpec
<1> QED BY <1>3

\* Each link has one owner, and a restart waits for the link it dropped: no handle
\* the code keeps has become another link's.
THEOREM HandlesAlwaysOfOneLink == Paced /\ NrfSpec => []HandlesOfOneLink
<1>1. NrfInv => HandlesOfOneLink
  BY DEF NrfInv, MainInv, CentralInv, AttemptInv, PeriphInv, LinkInv, RestartInv, HandlesOfOneLink, NrfTypeOK,
     LinksHaveOneOwner, RestartWaits
<1> QED BY <1>1, NrfInvariance, PTL

\* A central that comes back bonded is offered a key that a pairing completed.
THEOREM OfferedKeyAlwaysWhole == Paced /\ NrfSpec => []OfferedKeyIsWhole
<1>1. NrfInv => OfferedKeyIsWhole
  BY DEF NrfInv, PeriphInv, LinkInv
<1> QED BY <1>1, NrfInvariance, PTL

\* What a poll between two commands reads is true of the radio and of the link.
THEOREM StatusAlwaysTrue == Paced /\ NrfSpec => []StatusIsTrue
<1>1. ASSUME NrfInv, MainIdle PROVE RunningIsBacked
  <2>1. /\ connState \in {"IDLE", "CONNECTING", "CONNECTED", "FAILED"}
        /\ autoPhase = "CONNECTING" => connState # "IDLE"
        /\ PairWord \in {"RUNNING", "PASSKEY", "DISPLAY", "DONE", "FAILED"}
        /\ PairWord = "RUNNING" => pairState \in {"IDLE", "PROGRESS"}
    BY <1>1 DEF NrfInv, CentralInv, CentralTypeOK, AttemptInv, PairWord
  <2>2. AutoWord = "CONNECTING" => connState = "CONNECTING"
    <3>1. CASE autoPhase = "CONNECTING"
      <4>1. connState # "IDLE"
        BY <2>1, <3>1
      <4>2. connState = "FAILED" => AutoWord = "FAILED"
        BY <3>1 DEF AutoWord
      <4>3. connState = "CONNECTED" => AutoWord = PairWord
        BY <3>1 DEF AutoWord
      <4> QED BY <2>1, <4>1, <4>2, <4>3
    <3>2. CASE autoPhase # "CONNECTING"
      BY <3>2 DEF AutoWord
    <3> QED BY <3>1, <3>2
  <2>3. ConnectWord = "RUNNING" =>
          connState = "CONNECTING" \/ (connState = "CONNECTED" /\ PairWord = "RUNNING")
    BY <2>1 DEF ConnectWord
  <2> QED BY <1>1, <2>1, <2>2, <2>3 DEF NrfInv, CentralInv, AttemptInv, RunningIsBacked
<1>2. ASSUME NrfInv, MainIdle PROVE DoneMeansSecured
  BY <1>2 DEF NrfInv, CentralInv, CentralTypeOK, PeriphInv, PeriphTypeOK, OutcomeInv, ReportInv,
     DoneMeansSecured, PairWord, AutoWord, SecInfo, PeriphWord, PeriphSecInfo
<1>3. ASSUME NrfInv, MainIdle PROVE FailureHasCause
  BY <1>3 DEF NrfInv, PeriphInv, PeriphTypeOK, ReportInv, FailureHasCause, PeriphWord
<1>4. ASSUME NrfInv, MainIdle PROVE PromptIsAwaited
  BY <1>4 DEF NrfInv, CentralInv, CentralTypeOK, PeriphInv, PeriphTypeOK, PromptInv, ReportInv,
     PromptIsAwaited, PairWord, PasskeyShown, PeriphWord, PeriphPasskeyShown
<1>5. NrfInv => StatusIsTrue
  BY <1>1, <1>2, <1>3, <1>4 DEF StatusIsTrue
<1> QED BY <1>5, NrfInvariance, PTL
=============================================================================
