----------------------------- MODULE RadioProofs -----------------------------
(***************************************************************************)
(* The ESP32's radios: the invariants of the Wi-Fi station job, for every  *)
(* set of networks and however far the driver runs ahead of its handlers   *)
(* (WifiSta); links and commands over BLE, for a queue of any depth,       *)
(* commands and writes of any length, and any number of links (Nimble).    *)
(***************************************************************************)
EXTENDS WifiSta, Nimble, SequenceTheorems, TLAPS

------------------------------------------------------------------------------
(* The Wi-Fi station job. *)

\* An error once told stays told until the next STARt or CLEar, and only a job
\* that is over is told of.
ToldInv ==
  /\ ~reported => ~polled /\ told = 0
  /\ reported => phase = "OFFLINE"
  /\ reported /\ state = "FAILED" => told = 1

JobInv == ResultMatchesPhase /\ DeadlineMatchesPhase /\ StopWins /\ ToldInv

WifiInv == WifiTypeOK /\ JobInv

USE DEF Attempt, Phase, Failures, Reasons, JobTypeOK, DriverTypeOK, FlagTypeOK, resultVars, driverVars, tellVars

------------------------------------------------------------------------------
\* A job that ends is OFFLINE with no deadline, IDLE if it was stopped and
\* FAILED with its cause otherwise.
LEMMA FinishEnds ==
  ASSUME NEW r, NEW why, Finish(r, why), r \in Failures \cup {"STOPPED"},
         why \in Reasons \cup {"none"}
  PROVE  /\ phase' = "OFFLINE" /\ deadline' = "none" /\ ip' = "none"
         /\ result' = r /\ reason' \in Reasons \cup {"none"}
         /\ state' \in {"IDLE", "FAILED"}
         /\ state' = "IDLE" <=> r = "STOPPED"
BY DEF Finish

\* An attempt that begins waits for the association, or has failed at once.
LEMMA BeginConnectBegins ==
  ASSUME NEW d \in {"stopped", "idle", "connecting", "up"}, NEW c \in Config \cup {NoConfig},
         BeginConnect(d, c), net \in Config \cup {NoConfig}
  PROVE  /\ \/ /\ phase' = "CONNECTING" /\ state' = "RUNNING" /\ result' = "NONE"
               /\ deadline' = "running"
            \/ /\ phase' = "OFFLINE" /\ state' = "FAILED" /\ result' \in Failures
               /\ deadline' = "none"
         /\ ip' = "none" /\ reason' \in Reasons \cup {"none"}
         /\ drv' \in {"stopped", "idle", "connecting", "up"}
         /\ net' \in Config \cup {NoConfig}
<1>1. CASE Joins(d, c) /\ phase' = "CONNECTING" /\ state' = "RUNNING" /\ result' = "NONE"
           /\ reason' = "none" /\ ip' = "none" /\ deadline' = "running"
  BY <1>1 DEF Joins
<1>2. CASE drv' = d /\ UNCHANGED net /\ \E r \in {"AUTH_FAILED", "ERROR"} : Finish(r, "other")
  BY <1>2 DEF Finish
<1>3. QED BY <1>1, <1>2 DEF BeginConnect

\* The driver's events stay a queue of events.
LEMMA StopsQueues ==
  ASSUME NEW q \in Seq(Event), Stops(q), lease \in {"none", "held", "lost"}
  PROVE  /\ events' \in Seq(Event) /\ drv' = "stopped" /\ net' = NoConfig
         /\ lease' \in {"none", "held", "lost"}
<1> DEFINE dis == [id |-> "DISCONNECTED", reason |-> "other"]
<1>1. dis \in Event /\ Ev("STOP") \in Event
  BY DEF Event, Ev
<1>2. <<dis, Ev("STOP")>> \in Seq(Event)
  BY <1>1
<1>3. q \o <<dis, Ev("STOP")>> \in Seq(Event) /\ Append(q, Ev("STOP")) \in Seq(Event)
  BY <1>1, <1>2, ConcatProperties, AppendProperties
<1>4. QED BY <1>3 DEF Stops

\* Cancelling drains the driver, or is over at once when it cannot be stopped.
LEMMA DisconnectForEnds ==
  ASSUME WifiTypeOK, NEW r \in {"STOPPED", "TIMEOUT", "DHCP_TIMEOUT", "AP_NOT_FOUND"},
         DisconnectFor(r)
  PROVE  /\ \/ /\ phase' = "DRAINING" /\ state' = "RUNNING"
               /\ UNCHANGED <<result, reason>>
            \/ phase' = "OFFLINE" /\ state' = "FAILED" /\ result' = "ERROR" /\ reason' = "other"
         /\ deadline' = "none" /\ ip' = "none" /\ after' = r
         /\ drv' \in {"stopped", "idle", "connecting", "up"}
         /\ net' \in Config \cup {NoConfig} /\ lease' \in {"none", "held", "lost"}
         /\ events' \in Seq(Event) /\ stopErr' \in BOOLEAN
<1>1. CASE StopFails /\ after' = r
  BY <1>1 DEF StopFails, Finish, WifiTypeOK
<1>2. CASE /\ phase' = "DRAINING" /\ state' = "RUNNING" /\ ip' = "none"
           /\ deadline' = "none" /\ UNCHANGED <<result, reason>>
           /\ Stops(events) /\ UNCHANGED stopErr /\ after' = r
  BY <1>2, StopsQueues DEF WifiTypeOK
<1>3. QED BY <1>1, <1>2 DEF DisconnectFor

------------------------------------------------------------------------------
LEMMA InitInv == WifiInit => WifiInv
<1> SUFFICES ASSUME WifiInit PROVE WifiInv
  OBVIOUS
<1>1. events \in Seq(Event)
  BY DEF WifiInit
<1>2. reason \in Reasons \cup {"none"} /\ config \in Config \cup {NoConfig}
      /\ net \in Config \cup {NoConfig} /\ told \in 0..2
  BY DEF WifiInit
<1>3. WifiTypeOK
  BY <1>1, <1>2, Zenon DEF WifiInit, WifiTypeOK
<1>4. JobInv
  BY DEF WifiInit, JobInv, ResultMatchesPhase, DeadlineMatchesPhase, StopWins, ToldInv
<1>5. QED BY <1>3, <1>4 DEF WifiInv

\* What a handler may do to the job: nothing but forget the address of a link
\* that is not up, end it, have it wait for the air, or complete it.
Kept     == /\ phase' = phase /\ state' = state /\ result' = result /\ deadline' = deadline
            /\ ip' = ip \/ (ip' = "none" /\ phase # "ONLINE")
Ended    == /\ phase # "OFFLINE" /\ phase' = "OFFLINE" /\ deadline' = "none" /\ ip' = "none"
            /\ \/ state' = "FAILED" /\ result' \in Failures
               \/ state' = "IDLE" /\ result' = "STOPPED"
Waits    == /\ phase \notin {"OFFLINE", "DRAINING"} /\ phase' \in {"CONNECTING", "DHCP"}
            /\ deadline' = "running" /\ ip' = "none" /\ state' = "RUNNING"
            /\ result' \in {"NONE", result}
Complete == /\ phase = "DHCP" /\ phase' = "ONLINE" /\ deadline' = "none" /\ ip' = "leased"
            /\ state' = "DONE" /\ result' = "CONNECTED"

LEMMA HandlerInv ==
  ASSUME WifiInv, Kept \/ Ended \/ Waits \/ Complete,
         after' = after, stopped' = stopped,
         reported' = reported, polled' = polled, told' = told,
         config' \in Config \cup {NoConfig}, scanning' \in BOOLEAN, stopErr' \in BOOLEAN,
         events' \in Seq(Event), drv' \in {"stopped", "idle", "connecting", "up"},
         net' \in Config \cup {NoConfig}, lease' \in {"none", "held", "lost"},
         reason' \in Reasons \cup {"none"}
  PROVE  WifiInv'
<1> USE DEF WifiInv, WifiTypeOK, JobInv
<1>1. CASE Kept
  <2>1. WifiTypeOK'
    <3>1. JobTypeOK'
      BY <1>1 DEF Kept
    <3>2. DriverTypeOK'
      BY <1>1 DEF Kept
    <3>3. FlagTypeOK'
      BY <1>1 DEF Kept
    <3>4. QED BY <3>1, <3>2, <3>3 DEF WifiTypeOK
  <2>2. ResultMatchesPhase'
    BY <1>1 DEF Kept, ResultMatchesPhase
  <2>3. DeadlineMatchesPhase'
    BY <1>1 DEF Kept, DeadlineMatchesPhase
  <2>4. StopWins'
    BY <1>1 DEF Kept, StopWins
  <2>5. ToldInv'
    BY <1>1 DEF Kept, ToldInv
  <2>6. QED BY <2>1, <2>2, <2>3, <2>4, <2>5
<1>2. CASE Ended
  BY <1>2 DEF Ended, ResultMatchesPhase, DeadlineMatchesPhase, StopWins, ToldInv
<1>3. CASE Waits
  BY <1>3 DEF Waits, ResultMatchesPhase, DeadlineMatchesPhase, StopWins, ToldInv
<1>4. CASE Complete
  BY <1>4 DEF Complete, ResultMatchesPhase, DeadlineMatchesPhase, StopWins, ToldInv
<1>5. QED BY <1>1, <1>2, <1>3, <1>4

\* STARt begins a new job, with nothing told and nothing stopped.
LEMMA ConnectInv == ASSUME WifiInv, StaConnect PROVE WifiInv'
<1> USE DEF WifiInv
<1>1. PICK c \in Config :
        /\ config' = c
        /\ \/ phase = "ONLINE" /\ Switch(c)
           \/ phase = "OFFLINE" /\ BeginConnect(drv, c) /\ UNCHANGED <<lease, events, stopErr>>
  BY DEF StaConnect
<1>2. CASE phase = "OFFLINE" /\ BeginConnect(drv, c) /\ UNCHANGED <<lease, events, stopErr>>
  <2>1. WifiTypeOK'
    <3>1. JobTypeOK'
      BY <1>1, <1>2, BeginConnectBegins DEF StaConnect, WifiTypeOK
    <3>2. DriverTypeOK'
      BY <1>1, <1>2, BeginConnectBegins DEF StaConnect, WifiTypeOK
    <3>3. FlagTypeOK'
      BY <1>1, <1>2, BeginConnectBegins DEF StaConnect, WifiTypeOK
    <3>4. QED BY <3>1, <3>2, <3>3 DEF WifiTypeOK
  <2>2. JobInv'
    <3>1. ResultMatchesPhase'
      BY <1>2, BeginConnectBegins DEF StaConnect, WifiTypeOK, JobInv, ResultMatchesPhase
    <3>2. DeadlineMatchesPhase'
      BY <1>2, BeginConnectBegins DEF StaConnect, WifiTypeOK, JobInv, DeadlineMatchesPhase
    <3>3. StopWins'
      BY <1>2, BeginConnectBegins DEF StaConnect, WifiTypeOK, JobInv, StopWins
    <3>4. ToldInv'
      BY <1>2, BeginConnectBegins DEF StaConnect, WifiTypeOK, JobInv, ToldInv
    <3>5. QED BY <3>1, <3>2, <3>3, <3>4 DEF JobInv
  <2>3. QED BY <2>1, <2>2
<1>3. CASE phase = "ONLINE" /\ Switch(c)
  <2>1. \/ /\ phase' = "SWITCHING" /\ state' = "RUNNING" /\ result' = "NONE"
           /\ reason' = "none" /\ ip' = "none" /\ UNCHANGED deadline
           /\ Stops(events) /\ UNCHANGED stopErr
        \/ StopFails
    BY <1>3 DEF Switch
  <2>2. events' \in Seq(Event) /\ lease' \in {"none", "held", "lost"}
    BY <2>1, StopsQueues DEF WifiTypeOK, StopFails
  <2>3. WifiTypeOK'
    <3>1. JobTypeOK'
      BY <1>1, <2>1, <2>2 DEF StaConnect, WifiTypeOK, Stops, StopFails, Finish
    <3>2. DriverTypeOK'
      BY <1>1, <2>1, <2>2 DEF StaConnect, WifiTypeOK, Stops, StopFails, Finish
    <3>3. FlagTypeOK'
      BY <1>1, <2>1, <2>2 DEF StaConnect, WifiTypeOK, Stops, StopFails, Finish
    <3>4. QED BY <3>1, <3>2, <3>3 DEF WifiTypeOK
  <2>4. JobInv'
    <3>1. ResultMatchesPhase'
      BY <1>3, <2>1 DEF StaConnect, WifiTypeOK, StopFails, Finish, JobInv, ResultMatchesPhase
    <3>2. DeadlineMatchesPhase'
      BY <1>3, <2>1 DEF StaConnect, WifiTypeOK, StopFails, Finish, JobInv, DeadlineMatchesPhase
    <3>3. StopWins'
      BY <1>3, <2>1 DEF StaConnect, WifiTypeOK, StopFails, Finish, JobInv, StopWins
    <3>4. ToldInv'
      BY <1>3, <2>1 DEF StaConnect, WifiTypeOK, StopFails, Finish, JobInv, ToldInv
    <3>5. QED BY <3>1, <3>2, <3>3, <3>4 DEF JobInv
  <2>5. QED BY <2>3, <2>4
<1>4. QED BY <1>1, <1>2, <1>3

\* STOP leaves the job over or draining for good.
LEMMA StopInv == ASSUME WifiInv, StaStop PROVE WifiInv'
<1> USE DEF WifiInv
<1>1. CASE StopSwitch \/ StopDraining \/ StopOffline
  <2>1. WifiTypeOK'
    <3>1. JobTypeOK'
      BY <1>1 DEF StaStop, StopSwitch, StopDraining, StopOffline, Finish, WifiTypeOK
    <3>2. DriverTypeOK'
      BY <1>1 DEF StaStop, StopSwitch, StopDraining, StopOffline, Finish, WifiTypeOK
    <3>3. FlagTypeOK'
      BY <1>1 DEF StaStop, StopSwitch, StopDraining, StopOffline, Finish, WifiTypeOK
    <3>4. QED BY <3>1, <3>2, <3>3 DEF WifiTypeOK
  <2>2. JobInv'
    <3>1. ResultMatchesPhase'
      BY <1>1 DEF StaStop, StopSwitch, StopDraining, StopOffline, Finish, WifiTypeOK, JobInv, ResultMatchesPhase
    <3>2. DeadlineMatchesPhase'
      BY <1>1 DEF StaStop, StopSwitch, StopDraining, StopOffline, Finish, WifiTypeOK, JobInv, DeadlineMatchesPhase
    <3>3. StopWins'
      BY <1>1 DEF StaStop, StopSwitch, StopDraining, StopOffline, Finish, WifiTypeOK, JobInv, StopWins
    <3>4. ToldInv'
      BY <1>1 DEF StaStop, StopSwitch, StopDraining, StopOffline, Finish, WifiTypeOK, JobInv, ToldInv
    <3>5. QED BY <3>1, <3>2, <3>3, <3>4 DEF JobInv
  <2>3. QED BY <2>1, <2>2
<1>2. CASE StopOther
  <2>1. WifiTypeOK'
    <3>1. JobTypeOK'
      BY <1>2, DisconnectForEnds DEF StaStop, StopOther, WifiTypeOK
    <3>2. DriverTypeOK'
      BY <1>2, DisconnectForEnds DEF StaStop, StopOther, WifiTypeOK
    <3>3. FlagTypeOK'
      BY <1>2, DisconnectForEnds DEF StaStop, StopOther, WifiTypeOK
    <3>4. QED BY <3>1, <3>2, <3>3 DEF WifiTypeOK
  <2>2. JobInv'
    <3>1. ResultMatchesPhase'
      BY <1>2, DisconnectForEnds DEF StaStop, StopOther, WifiTypeOK, JobInv, ResultMatchesPhase
    <3>2. DeadlineMatchesPhase'
      BY <1>2, DisconnectForEnds DEF StaStop, StopOther, WifiTypeOK, JobInv, DeadlineMatchesPhase
    <3>3. StopWins'
      BY <1>2, DisconnectForEnds DEF StaStop, StopOther, WifiTypeOK, JobInv, StopWins
    <3>4. ToldInv'
      BY <1>2, DisconnectForEnds DEF StaStop, StopOther, WifiTypeOK, JobInv, ToldInv
    <3>5. QED BY <3>1, <3>2, <3>3, <3>4 DEF JobInv
  <2>3. QED BY <2>1, <2>2
<1>3. QED BY <1>1, <1>2 DEF StaStop

LEMMA ScpiInv == ASSUME WifiInv, Scpi PROVE WifiInv'
<1> USE DEF WifiInv
<1>1. CASE StaConnect BY <1>1, ConnectInv
<1>2. CASE StaStop BY <1>2, StopInv
<1>3. CASE StaRefused
  BY <1>3 DEF StaRefused, wifiVars, WifiTypeOK, JobInv,
     ResultMatchesPhase, DeadlineMatchesPhase, StopWins, ToldInv
<1>4. CASE StaClear
  <2>1. WifiTypeOK'
    <3>1. JobTypeOK'
      BY <1>4 DEF StaClear, WifiTypeOK
    <3>2. DriverTypeOK'
      BY <1>4 DEF StaClear, WifiTypeOK
    <3>3. FlagTypeOK'
      BY <1>4 DEF StaClear, WifiTypeOK
    <3>4. QED BY <3>1, <3>2, <3>3 DEF WifiTypeOK
  <2>2. JobInv'
    <3>1. ResultMatchesPhase'
      BY <1>4 DEF StaClear, WifiTypeOK, JobInv, ResultMatchesPhase
    <3>2. DeadlineMatchesPhase'
      BY <1>4 DEF StaClear, WifiTypeOK, JobInv, DeadlineMatchesPhase
    <3>3. StopWins'
      BY <1>4 DEF StaClear, WifiTypeOK, JobInv, StopWins
    <3>4. ToldInv'
      BY <1>4 DEF StaClear, WifiTypeOK, JobInv, ToldInv
    <3>5. QED BY <3>1, <3>2, <3>3, <3>4 DEF JobInv
  <2>3. QED BY <2>1, <2>2
<1>5. CASE StaState
  <2>1. WifiTypeOK'
    <3>1. JobTypeOK'
      BY <1>5 DEF StaState, Report, WifiTypeOK
    <3>2. DriverTypeOK'
      BY <1>5 DEF StaState, Report, WifiTypeOK
    <3>3. FlagTypeOK'
      BY <1>5 DEF StaState, Report, WifiTypeOK
    <3>4. QED BY <3>1, <3>2, <3>3 DEF WifiTypeOK
  <2>2. JobInv'
    <3>1. ResultMatchesPhase'
      BY <1>5 DEF StaState, Report, WifiTypeOK, JobInv, ResultMatchesPhase
    <3>2. DeadlineMatchesPhase'
      BY <1>5 DEF StaState, Report, WifiTypeOK, JobInv, DeadlineMatchesPhase
    <3>3. StopWins'
      BY <1>5 DEF StaState, Report, WifiTypeOK, JobInv, StopWins
    <3>4. ToldInv'
      <4>1. phase' = phase /\ state' = state /\ state = "FAILED" /\ phase = "OFFLINE"
        BY <1>5 DEF StaState, WifiTypeOK, JobInv, ResultMatchesPhase
      <4>2. CASE Report
        BY <1>5, <4>1, <4>2 DEF StaState, Report, JobInv, ToldInv
      <4>3. CASE ~Report
        BY <1>5, <4>1, <4>3 DEF StaState, Report, JobInv, ToldInv
      <4>4. QED BY <4>2, <4>3
    <3>5. QED BY <3>1, <3>2, <3>3, <3>4 DEF JobInv
  <2>3. QED BY <2>1, <2>2
<1>6. CASE ScanStart
  BY <1>6 DEF ScanStart, WifiTypeOK, JobInv,
     ResultMatchesPhase, DeadlineMatchesPhase, StopWins, ToldInv
<1>7. QED BY <1>1, <1>2, <1>3, <1>4, <1>5, <1>6 DEF Scpi

------------------------------------------------------------------------------

------------------------------------------------------------------------------
LEMMA TakeKeepsEvents ==
  ASSUME events \in Seq(Event), events # <<>>, Take
  PROVE  events' \in Seq(Event) /\ Head(events) \in Event
BY HeadTailProperties DEF Take

\* The driver's restart after STA_STOP: a switch goes on, a drain is over.
LEMMA StaStoppedInv ==
  ASSUME WifiInv, StaStopped, UNCHANGED <<after, config, scanning, stopped, stopErr, tellVars>>
  PROVE  WifiInv'
<1>1. events' \in Seq(Event) /\ lease' = lease
  BY TakeKeepsEvents DEF StaStopped, Got, WifiInv, WifiTypeOK
<1>2. CASE phase = "SWITCHING" /\ BeginConnect("idle", config)
  <2>1. Ended \/ Waits
    BY <1>2, BeginConnectBegins DEF Ended, Waits, WifiInv, WifiTypeOK
  <2>2. QED BY <1>1, <1>2, <2>1, BeginConnectBegins, HandlerInv DEF WifiInv, WifiTypeOK
<1>3. CASE phase = "DRAINING" /\ Restarts /\ Finish(after, reason)
  <2>1. Ended /\ reason' \in Reasons \cup {"none"}
    BY <1>3 DEF Finish, Ended, WifiInv, WifiTypeOK
  <2>2. QED BY <1>1, <1>3, <2>1, HandlerInv DEF Restarts, WifiInv, WifiTypeOK
<1>4. CASE phase \in {"SWITCHING", "DRAINING"} /\ UNCHANGED <<drv, net>> /\ Finish("ERROR", "other")
  <2>1. Ended /\ reason' = "other"
    BY <1>4 DEF Finish, Ended
  <2>2. QED BY <1>1, <1>4, <2>1, HandlerInv DEF WifiInv, WifiTypeOK
<1>5. CASE phase \notin {"SWITCHING", "DRAINING"} /\ UNCHANGED <<resultVars, drv, net>>
  <2>1. Kept /\ reason' = reason
    BY <1>5 DEF Kept
  <2>2. QED BY <1>1, <1>5, <2>1, HandlerInv DEF WifiInv, WifiTypeOK
<1>6. QED BY <1>2, <1>3, <1>4, <1>5 DEF StaStopped

\* A lost link is tried again, retried, or the end of the attempt.
LEMMA DisconnectedInv ==
  ASSUME WifiInv, Disconnected, UNCHANGED <<after, config, scanning, stopped, stopErr, tellVars>>
  PROVE  WifiInv'
<1>1. events' \in Seq(Event) /\ lease' = lease /\ Why \in Reasons \cup {"none"}
  BY TakeKeepsEvents DEF Disconnected, Got, Why, Event, WifiInv, WifiTypeOK
<1>2. CASE phase = "ONLINE" /\ BeginConnect(drv, config)
  <2>1. Ended \/ Waits
    BY <1>2, BeginConnectBegins DEF Ended, Waits, WifiInv, WifiTypeOK
  <2>2. QED BY <1>1, <1>2, <2>1, BeginConnectBegins, HandlerInv DEF WifiInv, WifiTypeOK
<1>3. CASE MayRetry /\ Joins(drv, config) /\ reason' = Why /\ ip' = "none"
           /\ UNCHANGED <<phase, state, result, deadline>>
  <2>1. Kept
    BY <1>3 DEF Kept, MayRetry
  <2>2. QED BY <1>1, <1>3, <2>1, HandlerInv DEF Joins, WifiInv, WifiTypeOK
<1>4. CASE MayRetry /\ UNCHANGED <<drv, net>> /\ Finish("ERROR", "other")
  <2>1. Ended /\ reason' = "other"
    BY <1>4 DEF Finish, Ended, MayRetry
  <2>2. QED BY <1>1, <1>4, <2>1, HandlerInv DEF WifiInv, WifiTypeOK
<1>5. CASE phase \in {"CONNECTING", "DHCP"} /\ Finish(Named(Why), Why) /\ UNCHANGED <<drv, net>>
  <2>1. Named(Why) \in Failures
    BY DEF Named
  <2>2. Ended /\ reason' = Why
    BY <1>5, <2>1 DEF Finish, Ended
  <2>3. QED BY <1>1, <1>5, <2>2, HandlerInv DEF WifiInv, WifiTypeOK
<1>6. CASE phase \notin {"ONLINE", "CONNECTING", "DHCP"} /\ ip' = "none"
           /\ UNCHANGED <<phase, state, result, reason, deadline, drv, net>>
  <2>1. Kept /\ reason' = reason
    BY <1>6 DEF Kept
  <2>2. QED BY <1>1, <1>6, <2>1, HandlerInv DEF WifiInv, WifiTypeOK
<1>7. QED BY <1>2, <1>3, <1>4, <1>5, <1>6 DEF Disconnected

\* The other events move an attempt on, or are ignored.
LEMMA ProgressInv ==
  ASSUME WifiInv, Connected \/ GotIp \/ LostIp,
         UNCHANGED <<after, config, scanning, stopped, stopErr, tellVars>>
  PROVE  WifiInv'
<1>1. events' \in Seq(Event)
  BY TakeKeepsEvents DEF Connected, GotIp, LostIp, Got, WifiInv, WifiTypeOK
<1>2. UNCHANGED <<drv, net, lease>> /\ reason' \in Reasons \cup {"none"}
  BY DEF Connected, GotIp, LostIp, Ignore, WifiInv, WifiTypeOK
<1>3. CASE Connected
  <2>1. Kept \/ Waits
    BY <1>3 DEF Connected, Ignore, Kept, Waits, WifiInv, WifiTypeOK, JobInv, ResultMatchesPhase
  <2>2. QED BY <1>1, <1>2, <2>1, HandlerInv DEF WifiInv, WifiTypeOK
<1>4. CASE GotIp
  <2>1. Kept \/ Complete
    BY <1>4 DEF GotIp, Ignore, Kept, Complete
  <2>2. QED BY <1>1, <1>2, <2>1, HandlerInv DEF WifiInv, WifiTypeOK
<1>5. CASE LostIp
  <2>1. Kept \/ Waits
    BY <1>5 DEF LostIp, Ignore, Kept, Waits
  <2>2. QED BY <1>1, <1>2, <2>1, HandlerInv DEF WifiInv, WifiTypeOK
<1>6. QED BY <1>3, <1>4, <1>5

LEMMA ScanDoneInv == ASSUME WifiInv, ScanDone PROVE WifiInv'
<1>1. events' \in Seq(Event)
  BY TakeKeepsEvents DEF ScanDone, Got, WifiInv, WifiTypeOK
<1>2. Kept
  BY DEF ScanDone, Ignore, Kept
<1>3. /\ scanning' = FALSE
      /\ UNCHANGED <<after, config, stopped, stopErr, reported, polled, told, drv, net, lease, reason>>
  BY DEF ScanDone, Ignore
<1>4. /\ config' \in Config \cup {NoConfig} /\ scanning' \in BOOLEAN /\ stopErr' \in BOOLEAN
      /\ drv' \in {"stopped", "idle", "connecting", "up"} /\ net' \in Config \cup {NoConfig}
      /\ lease' \in {"none", "held", "lost"} /\ reason' \in Reasons \cup {"none"}
  BY <1>3 DEF WifiInv, WifiTypeOK
<1>5. QED BY <1>1, <1>2, <1>3, <1>4, HandlerInv

LEMMA EventLoopInv == ASSUME WifiInv, EventLoop PROVE WifiInv'
BY StaStoppedInv, DisconnectedInv, ProgressInv, ScanDoneInv DEF EventLoop

------------------------------------------------------------------------------
\* A deadline that has passed cancels the attempt it was set for.
LEMMA DeadlineInv == ASSUME WifiInv, DeadlineHandler PROVE WifiInv'
<1>1. PICK r \in {"TIMEOUT", "DHCP_TIMEOUT", "AP_NOT_FOUND"} : r = Late
  BY DEF Late
<1>2. DisconnectFor(r) /\ phase \in {"CONNECTING", "DHCP"}
  BY <1>1 DEF DeadlineHandler, WifiInv, JobInv, DeadlineMatchesPhase
<1>3. ~stopped /\ state = "RUNNING" /\ ~reported
  BY <1>2 DEF WifiInv, WifiTypeOK, JobInv, StopWins, ResultMatchesPhase, ToldInv
<1>4. stopped' = stopped /\ reported' = reported /\ polled' = polled /\ told' = told
      /\ config' = config /\ scanning' = scanning
  BY DEF DeadlineHandler
<1>5. WifiTypeOK'
  <2>1. JobTypeOK'
    BY <1>2, <1>4, DisconnectForEnds DEF WifiInv, WifiTypeOK
  <2>2. DriverTypeOK'
    BY <1>2, <1>4, DisconnectForEnds DEF WifiInv, WifiTypeOK
  <2>3. FlagTypeOK'
    BY <1>2, <1>4, DisconnectForEnds DEF WifiInv, WifiTypeOK
  <2>4. QED BY <2>1, <2>2, <2>3 DEF WifiTypeOK
<1>6. JobInv'
  <2>1. ResultMatchesPhase'
    BY <1>2, <1>3, DisconnectForEnds DEF WifiInv, JobInv, ResultMatchesPhase
  <2>2. DeadlineMatchesPhase'
    BY <1>2, DisconnectForEnds DEF WifiInv, DeadlineMatchesPhase
  <2>3. StopWins'
    BY <1>3, <1>4 DEF StopWins
  <2>4. ToldInv'
    BY <1>3, <1>4 DEF WifiInv, JobInv, ToldInv
  <2>5. QED BY <2>1, <2>2, <2>3, <2>4 DEF JobInv
<1>7. QED BY <1>5, <1>6 DEF WifiInv

LEMMA TimeInv == ASSUME WifiInv, DeadlinePasses PROVE WifiInv'
<1> USE DEF DeadlinePasses, WifiInv, WifiTypeOK, JobInv
<1>1. WifiTypeOK'
  <2>1. JobTypeOK'
    OBVIOUS
  <2>2. DriverTypeOK'
    OBVIOUS
  <2>3. FlagTypeOK'
    OBVIOUS
  <2>4. QED BY <2>1, <2>2, <2>3
<1>2. JobInv'
  BY DEF ResultMatchesPhase, DeadlineMatchesPhase, StopWins, ToldInv
<1>3. QED BY <1>1, <1>2

\* The driver only posts events and changes its own state.
LEMMA DriverInv == ASSUME WifiInv, Driver PROVE WifiInv'
<1>1. ASSUME NEW e \in Event, Post(e) PROVE events' \in Seq(Event)
  BY <1>1, AppendProperties DEF Post, WifiInv, WifiTypeOK
<1>2. /\ \A id \in {"CONNECTED", "GOT_IP", "LOST_IP", "SCAN_DONE"} : Ev(id) \in Event
      /\ \A why \in Reasons : [id |-> "DISCONNECTED", reason |-> why] \in Event
  BY DEF Ev, Event
<1>3. events' \in Seq(Event)
  BY <1>1, <1>2 DEF Driver, DrvConnects, DrvFails, DrvLeases, DrvLosesLease, LeaseTimer,
     DrvScanned, WifiInv, WifiTypeOK
<1>4. /\ drv' \in {"stopped", "idle", "connecting", "up"}
      /\ net' \in Config \cup {NoConfig} /\ lease' \in {"none", "held", "lost"}
  BY DEF Driver, DrvConnects, DrvFails, DrvLeases, DrvLosesLease, LeaseTimer,
     DrvScanned, WifiInv, WifiTypeOK
<1>5. Kept /\ reason' = reason /\ after' = after /\ stopped' = stopped /\ stopErr' = stopErr
      /\ reported' = reported /\ polled' = polled /\ told' = told
      /\ config' = config /\ scanning' = scanning
  BY DEF Driver, Kept
<1>6. QED BY <1>3, <1>4, <1>5, HandlerInv DEF WifiInv, WifiTypeOK

LEMMA NextInv == ASSUME WifiInv, [WifiNext]_wifiVars PROVE WifiInv'
<1>1. CASE UNCHANGED wifiVars
  BY <1>1, HandlerInv DEF wifiVars, Kept, WifiInv, WifiTypeOK
<1>2. QED BY <1>1, ScpiInv, EventLoopInv, TimeInv, DeadlineInv, DriverInv DEF WifiNext

\* The inductive invariant of the station job.
THEOREM WifiInvariant == WifiSpec => []WifiInv
<1>1. WifiInit => WifiInv
  BY InitInv
<1>2. WifiInv /\ [WifiNext]_wifiVars => WifiInv'
  BY NextInv
<1>3. QED BY <1>1, <1>2, PTL DEF WifiSpec

\* The station job keeps its types, for every set of networks and any number
\* of events pending (the phases, results and timer of wifi_scan.c).
THEOREM WifiTypeCorrect == WifiSpec => []WifiTypeOK
<1>1. WifiInv => WifiTypeOK
  BY DEF WifiInv
<1>2. QED BY <1>1, WifiInvariant, PTL

\* The host never reads a state that contradicts the phase of the job, whichever
\* handler interrupts which.
THEOREM ResultsAgree == WifiSpec => []ResultMatchesPhase
<1>1. WifiInv => ResultMatchesPhase
  BY DEF WifiInv, JobInv
<1>2. QED BY <1>1, WifiInvariant, PTL

\* The deadline is armed exactly while the job waits for the air.
THEOREM DeadlinesAgree == WifiSpec => []DeadlineMatchesPhase
<1>1. WifiInv => DeadlineMatchesPhase
  BY DEF WifiInv, JobInv
<1>2. QED BY <1>1, WifiInvariant, PTL

\* The two together: what the host reads of a job, and the timer that ends its
\* attempts, agree with the phase the event handlers left the job in.
THEOREM JobAlwaysConsistent == WifiSpec => []JobConsistent
<1>1. ResultMatchesPhase /\ DeadlineMatchesPhase => JobConsistent
  BY DEF JobConsistent
<1>2. QED BY ResultsAgree, DeadlinesAgree, <1>1, PTL

\* No event or timeout revives a job that WLAN:CONNect:STOP has cancelled.
THEOREM StopAlwaysWins == WifiSpec => []StopWins
<1>1. WifiInv => StopWins
  BY DEF WifiInv, JobInv
<1>2. QED BY <1>1, WifiInvariant, PTL

\* A failure that was read has been queued exactly once.
THEOREM FailureAlwaysToldOnce == WifiSpec => []FailureToldOnce
<1>1. WifiInv => FailureToldOnce
  BY DEF WifiInv, JobInv, ToldInv, WifiTypeOK, FailureToldOnce
<1>2. QED BY <1>1, WifiInvariant, PTL

------------------------------------------------------------------------------
(* Old connections.  What the driver has queued fits the phase: after STOP   *)
(* or DISCONNECTED nothing of the same connection follows.                   *)
LinkEvent == {"STOP", "CONNECTED", "DISCONNECTED"}
Stopping  == {"SWITCHING", "DRAINING"}
Joined    == {"CONNECTING", "DHCP", "ONLINE"}
Lacks(q, ids) == \A i \in 1..Len(q) : q[i].id \notin ids
NeverAfter(q, id, ids) ==
  \A i, j \in 1..Len(q) : i < j /\ q[i].id = id => q[j].id \notin ids
Orderly ==
  /\ Lacks(events, {"STOP"}) /\ NeverAfter(events, "DISCONNECTED", LinkEvent)
  /\ NeverAfter(events, "CONNECTED", {"CONNECTED"})
LinkInv ==
  /\ NeverAfter(events, "STOP", LinkEvent)
  /\ phase \in Stopping => drv = "stopped"
  /\ phase \notin Stopping => Orderly
  /\ phase = "OFFLINE" => drv \in {"idle", "stopped"} /\ Lacks(events, LinkEvent)
  /\ phase \in Joined =>
       /\ drv # "stopped" /\ (drv # "idle" => Lacks(events, {"DISCONNECTED"}))
       /\ drv = "connecting" => phase = "CONNECTING" /\ Lacks(events, LinkEvent)
       /\ phase # "CONNECTING" => Lacks(events, {"CONNECTED"})

\* The driver is on the network last asked for, as long as a job wants it.
NetInv == phase # "OFFLINE" /\ drv \in {"connecting", "up"} => net = config

\* What the rest of a queue inherits from the whole.
LEMMA TailKeeps ==
  ASSUME NEW q \in Seq(Event), q # <<>>
  PROVE  /\ \A ids : Lacks(q, ids) => Lacks(Tail(q), ids)
         /\ \A id, ids : NeverAfter(q, id, ids) => NeverAfter(Tail(q), id, ids)
         /\ \A ids : NeverAfter(q, Head(q).id, ids) => Lacks(Tail(q), ids)
<1>1. /\ Len(q) \in Nat \ {0} /\ Head(q) = q[1] /\ Len(Tail(q)) = Len(q) - 1
      /\ \A i \in 1..Len(Tail(q)) : Tail(q)[i] = q[i + 1]
  BY HeadTailProperties
<1> DEFINE t == Tail(q)
<1> HIDE DEF t
<1>2. \A i \in 1..Len(t) : i + 1 \in 1..Len(q) /\ t[i] = q[i + 1] /\ 1 < i + 1 /\ i \in Nat
  BY <1>1 DEF t
<1>3. ASSUME NEW ids, Lacks(q, ids) PROVE Lacks(t, ids)
  BY <1>2, <1>3 DEF Lacks
<1>4. ASSUME NEW id, NEW ids, NeverAfter(q, id, ids) PROVE NeverAfter(t, id, ids)
  <2>1. SUFFICES ASSUME NEW i \in 1..Len(t), NEW j \in 1..Len(t), i < j, t[i].id = id
                 PROVE  t[j].id \notin ids
    BY DEF NeverAfter
  <2>2. i + 1 < j + 1 /\ i + 1 \in 1..Len(q) /\ j + 1 \in 1..Len(q)
    BY <1>2, <2>1
  <2>3. QED BY <1>2, <1>4, <2>1, <2>2 DEF NeverAfter
<1>5. ASSUME NEW ids, NeverAfter(q, Head(q).id, ids) PROVE Lacks(t, ids)
  <2>1. SUFFICES ASSUME NEW i \in 1..Len(t) PROVE t[i].id \notin ids
    BY DEF Lacks
  <2>2. 1 \in 1..Len(q) /\ i + 1 \in 1..Len(q) /\ 1 < i + 1
    BY <1>1, <1>2
  <2>3. QED BY <1>1, <1>2, <1>5, <2>2 DEF NeverAfter
<1>6. QED BY <1>3, <1>4, <1>5 DEF t

\* What an event more leaves true.
LEMMA AppendKeeps ==
  ASSUME NEW q \in Seq(Event), NEW e \in Event
  PROVE  /\ Append(q, e) \in Seq(Event)
         /\ \A ids : Lacks(q, ids) /\ e.id \notin ids => Lacks(Append(q, e), ids)
         /\ \A id, ids : NeverAfter(q, id, ids) /\ e.id \notin ids => NeverAfter(Append(q, e), id, ids)
         /\ \A id, ids : Lacks(q, {id}) => NeverAfter(Append(q, e), id, ids)
<1> DEFINE a == Append(q, e)
<1>1. /\ Len(q) \in Nat /\ a \in Seq(Event) /\ Len(a) = Len(q) + 1
      /\ \A i \in 1..Len(q) : a[i] = q[i]
      /\ a[Len(q) + 1] = e
  BY AppendProperties
<1> HIDE DEF a
<1>2. \A i \in 1..Len(a) : (i \in 1..Len(q) /\ a[i] = q[i]) \/ (i = Len(a) /\ a[i] = e)
  BY <1>1
<1>3. ASSUME NEW ids, Lacks(q, ids), e.id \notin ids PROVE Lacks(a, ids)
  BY <1>2, <1>3 DEF Lacks
<1>4. ASSUME NEW id, NEW ids, NeverAfter(q, id, ids), e.id \notin ids
      PROVE  NeverAfter(a, id, ids)
  <2>1. SUFFICES ASSUME NEW i \in 1..Len(a), NEW j \in 1..Len(a), i < j, a[i].id = id
                 PROVE  a[j].id \notin ids
    BY DEF NeverAfter
  <2>2. i # Len(a)
    BY <1>1, <2>1
  <2>3. QED BY <1>2, <1>4, <2>1, <2>2 DEF NeverAfter
<1>5. ASSUME NEW id, NEW ids, Lacks(q, {id}) PROVE NeverAfter(a, id, ids)
  <2>1. SUFFICES ASSUME NEW i \in 1..Len(a), NEW j \in 1..Len(a), i < j, a[i].id = id
                 PROVE  FALSE
    BY DEF NeverAfter
  <2>2. i # Len(a)
    BY <1>1, <2>1
  <2>3. QED BY <1>2, <1>5, <2>1, <2>2 DEF Lacks
<1>6. QED BY <1>1, <1>3, <1>4, <1>5 DEF a

\* Stopping the driver ends its connection with a STOP.
LEMMA StopsLink ==
  ASSUME WifiTypeOK, LinkInv, phase \in Joined, Stops(events), phase' \in Stopping
  PROVE  LinkInv'
<1> DEFINE dis == [id |-> "DISCONNECTED", reason |-> "other"]
           stop == Ev("STOP")
<1>1. /\ events \in Seq(Event) /\ dis \in Event /\ stop \in Event
      /\ dis.id = "DISCONNECTED" /\ stop.id = "STOP" /\ Lacks(events, {"STOP"})
  BY DEF Event, Ev, WifiTypeOK, LinkInv, Orderly, Joined, Stopping
<1>2. events \o <<dis, stop>> = Append(Append(events, dis), stop)
  BY <1>1
<1> HIDE DEF dis, stop
<1>3. Append(events, dis) \in Seq(Event) /\ Lacks(Append(events, dis), {"STOP"})
  BY <1>1, AppendKeeps
<1>4. /\ NeverAfter(Append(events, stop), "STOP", LinkEvent)
      /\ NeverAfter(Append(Append(events, dis), stop), "STOP", LinkEvent)
  BY <1>1, <1>3, AppendKeeps
<1>5. drv' = "stopped" /\ events' \in {Append(events, stop), Append(Append(events, dis), stop)}
  BY <1>2 DEF Stops, dis, stop
<1>6. QED BY <1>4, <1>5 DEF LinkInv, Stopping, Joined

LEMMA DisconnectForLink ==
  ASSUME WifiTypeOK, LinkInv, phase \in Joined, NEW r, DisconnectFor(r)
  PROVE  stopErr' = TRUE \/ LinkInv'
<1>1. CASE StopFails
  BY <1>1 DEF StopFails
<1>2. CASE phase' = "DRAINING" /\ Stops(events)
  BY <1>2, StopsLink DEF Stopping
<1>3. QED BY <1>1, <1>2 DEF DisconnectFor

\* A driver that can be joined has nothing of a connection queued.
LEMMA BeginConnectLink ==
  ASSUME NEW d \in {"idle", "stopped"}, NEW c, BeginConnect(d, c),
         events' \in Seq(Event), Lacks(events', LinkEvent)
  PROVE  LinkInv'
<1>1. NeverAfter(events', "STOP", LinkEvent) /\ Orderly'
  BY DEF Lacks, NeverAfter, Orderly, LinkEvent
<1>2. Lacks(events', {"DISCONNECTED"}) /\ Lacks(events', {"CONNECTED"})
  BY DEF Lacks, LinkEvent
<1>3. \/ phase' = "CONNECTING" /\ drv' = "connecting"
      \/ phase' = "OFFLINE" /\ drv' \in {"idle", "stopped"}
  BY DEF BeginConnect, Joins, Finish
<1>4. QED BY <1>1, <1>2, <1>3 DEF LinkInv, Stopping, Joined

\* An event taken that changes neither the phase nor the driver.
LEMMA TakenLink ==
  ASSUME WifiTypeOK, LinkInv, events # <<>>, Take, phase' = phase, drv' = drv
  PROVE  LinkInv'
<1>1. events \in Seq(Event) /\ events' = Tail(events)
  BY DEF WifiTypeOK, Take
<1>2. /\ \A ids : Lacks(events, ids) => Lacks(events', ids)
      /\ \A id, ids : NeverAfter(events, id, ids) => NeverAfter(events', id, ids)
  BY <1>1, TailKeeps
<1>3. Orderly => Orderly'
  BY <1>2 DEF Orderly
<1>4. QED BY <1>2, <1>3 DEF LinkInv

\* A job that ends leaves a driver at rest.
LEMMA OfflineLink ==
  ASSUME phase' = "OFFLINE", drv' \in {"idle", "stopped"}, Lacks(events', LinkEvent)
  PROVE  LinkInv'
<1>1. NeverAfter(events', "STOP", LinkEvent) /\ Orderly'
  BY DEF Lacks, NeverAfter, Orderly, LinkEvent
<1>2. QED BY <1>1 DEF LinkInv, Stopping, Joined

LEMMA EventLoopLink == ASSUME WifiTypeOK, LinkInv, EventLoop PROVE LinkInv'
<1>1. events \in Seq(Event) /\ events # <<>> /\ events' = Tail(events) /\ Take
  BY DEF EventLoop, StaStopped, Connected, Disconnected, GotIp, LostIp, ScanDone, Got,
     Take, WifiTypeOK
<1>2. /\ events' \in Seq(Event)
      /\ \A ids : Lacks(events, ids) => Lacks(events', ids)
      /\ \A id, ids : NeverAfter(events, id, ids) => NeverAfter(events', id, ids)
      /\ \A ids : NeverAfter(events, Head(events).id, ids) => Lacks(events', ids)
      /\ \A ids : Head(events).id \in ids => ~Lacks(events, ids)
  <2>1. 1 \in 1..Len(events) /\ Head(events) = events[1]
    BY <1>1, HeadTailProperties
  <2>2. \A ids : Head(events).id \in ids => ~Lacks(events, ids)
    BY <2>1 DEF Lacks
  <2>3. QED BY <1>1, <2>2, TailKeeps, HeadTailProperties
<1>3. CASE phase' = phase /\ drv' = drv
  BY <1>1, <1>3, TakenLink
<1>4. CASE StaStopped /\ phase \in Stopping
  <2>1. Lacks(events', LinkEvent) /\ drv = "stopped"
    BY <1>2, <1>4 DEF LinkInv, StaStopped, Got
  <2>2. CASE BeginConnect("idle", config)
    BY <1>2, <2>1, <2>2, BeginConnectLink
  <2>3. CASE Restarts /\ Finish(after, reason)
    BY <2>1, <2>3, OfflineLink DEF Restarts, Finish
  <2>4. CASE drv' = drv /\ Finish("ERROR", "other")
    BY <2>1, <2>4, OfflineLink DEF Finish
  <2>5. QED BY <1>4, <2>2, <2>3, <2>4 DEF StaStopped, Stopping
<1>5. CASE Connected /\ phase = "CONNECTING" /\ phase' = "DHCP" /\ drv' = drv
  <2>1. Orderly /\ NeverAfter(events, "STOP", LinkEvent) /\ Head(events).id = "CONNECTED"
        /\ drv # "stopped" /\ (drv # "idle" => Lacks(events, {"DISCONNECTED"}))
    BY <1>5 DEF LinkInv, Stopping, Joined, Connected, Got
  <2>2. drv # "connecting"
    BY <1>2, <1>5, <2>1 DEF LinkInv, Joined, LinkEvent
  <2>3. Orderly' /\ NeverAfter(events', "STOP", LinkEvent) /\ Lacks(events', {"CONNECTED"})
    BY <1>2, <2>1 DEF Orderly
  <2>4. QED BY <1>2, <1>5, <2>1, <2>2, <2>3 DEF LinkInv, Stopping, Joined
<1>6. CASE Disconnected /\ phase \in Joined
  <2>1. Orderly /\ Head(events).id = "DISCONNECTED" /\ (drv # "idle" => Lacks(events, {"DISCONNECTED"}))
        /\ drv # "stopped"
    BY <1>6 DEF LinkInv, Stopping, Joined, Disconnected, Got
  <2>2. drv = "idle" /\ Lacks(events', LinkEvent)
    BY <1>2, <2>1 DEF Orderly
  <2>3. CASE BeginConnect(drv, config)
    BY <1>2, <2>2, <2>3, BeginConnectLink
  <2>4. CASE MayRetry /\ Joins(drv, config) /\ phase' = phase
    <3>1. phase' = "CONNECTING" /\ drv' = "connecting"
      BY <2>4 DEF MayRetry, Joins
    <3>2. NeverAfter(events', "STOP", LinkEvent) /\ Orderly' /\ Lacks(events', {"DISCONNECTED"})
      BY <2>2 DEF Lacks, NeverAfter, Orderly, LinkEvent
    <3>3. QED BY <2>2, <3>1, <3>2 DEF LinkInv, Stopping, Joined
  <2>5. CASE drv' = drv /\ phase' = "OFFLINE"
    BY <2>2, <2>5, OfflineLink
  <2>6. QED BY <1>6, <2>3, <2>4, <2>5 DEF Disconnected, Finish, Joined
<1>7. CASE GotIp /\ phase = "DHCP" /\ phase' = "ONLINE" /\ drv' = drv
  <2>1. NeverAfter(events', "STOP", LinkEvent) /\ Orderly'
    BY <1>2, <1>7 DEF LinkInv, Stopping, Orderly
  <2>2. QED BY <1>2, <1>7, <2>1 DEF LinkInv, Stopping, Joined
<1>8. CASE LostIp /\ phase = "ONLINE" /\ phase' = "DHCP" /\ drv' = drv
  <2>1. NeverAfter(events', "STOP", LinkEvent) /\ Orderly'
    BY <1>2, <1>8 DEF LinkInv, Stopping, Orderly
  <2>2. QED BY <1>2, <1>8, <2>1 DEF LinkInv, Stopping, Joined
<1>9. CASE StaStopped
  BY <1>3, <1>4, <1>9 DEF StaStopped, Stopping
<1>10. CASE Connected
  BY <1>3, <1>5, <1>10 DEF Connected, Ignore
<1>11. CASE Disconnected
  <2>1. CASE phase \notin Joined
    BY <1>3, <1>11, <2>1 DEF Disconnected, MayRetry, Joined
  <2>2. QED BY <1>6, <1>11, <2>1
<1>12. CASE GotIp
  BY <1>3, <1>7, <1>12 DEF GotIp, Ignore
<1>13. CASE LostIp
  BY <1>3, <1>8, <1>13 DEF LostIp, Ignore
<1>14. CASE ScanDone
  BY <1>3, <1>14 DEF ScanDone, Ignore
<1>15. QED BY <1>9, <1>10, <1>11, <1>12, <1>13, <1>14 DEF EventLoop

LEMMA DriverLink == ASSUME WifiTypeOK, LinkInv, Driver PROVE LinkInv'
<1>1. phase' = phase /\ events \in Seq(Event)
  BY DEF Driver, WifiTypeOK
<1>2. CASE events' = events /\ drv' = drv
  BY <1>1, <1>2 DEF LinkInv, Orderly
<1>3. ASSUME NEW e \in Event, events' = Append(events, e)
      PROVE  /\ \A ids : Lacks(events, ids) /\ e.id \notin ids => Lacks(events', ids)
             /\ \A id, ids : NeverAfter(events, id, ids) /\ e.id \notin ids => NeverAfter(events', id, ids)
             /\ \A id, ids : Lacks(events, {id}) => NeverAfter(events', id, ids)
  BY <1>1, <1>3, AppendKeeps
<1>4. ASSUME NEW id \in {"GOT_IP", "LOST_IP", "SCAN_DONE"}, Post(Ev(id)), drv' = drv
      PROVE  LinkInv'
  <2>1. Ev(id) \in Event /\ events' = Append(events, Ev(id)) /\ Ev(id).id = id /\ id \notin LinkEvent
    BY <1>4 DEF Ev, Event, Post, LinkEvent
  <2>2. /\ \A ids \in SUBSET LinkEvent : Lacks(events, ids) => Lacks(events', ids)
        /\ \A i : \A ids \in SUBSET LinkEvent : NeverAfter(events, i, ids) => NeverAfter(events', i, ids)
    BY <1>3, <2>1
  <2>3. /\ {"STOP"} \in SUBSET LinkEvent /\ {"DISCONNECTED"} \in SUBSET LinkEvent
        /\ {"CONNECTED"} \in SUBSET LinkEvent /\ LinkEvent \in SUBSET LinkEvent
    BY DEF LinkEvent
  <2>4. Orderly => Orderly'
    BY <2>2, <2>3 DEF Orderly
  <2>5. QED BY <1>1, <1>4, <2>2, <2>3, <2>4 DEF LinkInv
<1>5. CASE DrvConnects
  <2>1. /\ Ev("CONNECTED") \in Event /\ Ev("CONNECTED").id = "CONNECTED"
        /\ events' = Append(events, Ev("CONNECTED")) /\ drv = "connecting" /\ drv' = "up"
    BY <1>5 DEF DrvConnects, Post, Ev, Event
  <2>2. phase = "CONNECTING" /\ Lacks(events, LinkEvent)
    BY <2>1 DEF LinkInv, Stopping, Joined, WifiTypeOK
  <2>3. Lacks(events, {"STOP"}) /\ Lacks(events, {"CONNECTED"}) /\ Lacks(events, {"DISCONNECTED"})
    BY <2>2 DEF Lacks, LinkEvent
  <2>4. /\ Lacks(events', {"STOP"}) /\ Lacks(events', {"DISCONNECTED"})
        /\ \A ids : NeverAfter(events', "STOP", ids) /\ NeverAfter(events', "DISCONNECTED", ids)
                    /\ NeverAfter(events', "CONNECTED", ids)
    BY <1>3, <2>1, <2>3
  <2>5. QED BY <1>1, <2>1, <2>2, <2>4 DEF LinkInv, Orderly, Stopping, Joined
<1>6. CASE DrvFails
  <2>1. PICK why \in Reasons : Post([id |-> "DISCONNECTED", reason |-> why])
    BY <1>6 DEF DrvFails
  <2> DEFINE e == [id |-> "DISCONNECTED", reason |-> why]
  <2>2. e \in Event /\ e.id = "DISCONNECTED" /\ events' = Append(events, e)
    BY <2>1 DEF Post, Event
  <2> HIDE DEF e
  <2>3. drv \in {"connecting", "up"} /\ drv' = "idle"
    BY <1>6 DEF DrvFails
  <2>4. /\ phase \in Joined /\ Lacks(events, {"DISCONNECTED"}) /\ Lacks(events, {"STOP"})
        /\ NeverAfter(events, "CONNECTED", {"CONNECTED"})
        /\ (phase # "CONNECTING" => Lacks(events, {"CONNECTED"}))
    BY <2>3 DEF LinkInv, Orderly, Stopping, Joined, WifiTypeOK
  <2>5. /\ Lacks(events', {"STOP"}) /\ NeverAfter(events', "CONNECTED", {"CONNECTED"})
        /\ (phase # "CONNECTING" => Lacks(events', {"CONNECTED"}))
        /\ \A ids : NeverAfter(events', "STOP", ids) /\ NeverAfter(events', "DISCONNECTED", ids)
    BY <1>3, <2>2, <2>4
  <2>6. QED BY <1>1, <2>3, <2>4, <2>5 DEF LinkInv, Orderly, Stopping, Joined
<1>7. QED
  BY <1>2, <1>4, <1>5, <1>6 DEF Driver, DrvLeases, DrvLosesLease, LeaseTimer, DrvScanned

LEMMA ScpiLink == ASSUME WifiTypeOK, LinkInv, Scpi PROVE stopErr' = TRUE \/ LinkInv'
<1>1. CASE phase' = phase /\ drv' = drv /\ events' = events
  BY <1>1 DEF LinkInv, Orderly
<1>2. CASE StaConnect
  <2>1. CASE phase = "ONLINE" /\ \E c \in Config : Switch(c)
    <3>1. CASE StopFails
      BY <3>1 DEF StopFails
    <3>2. CASE phase' = "SWITCHING" /\ Stops(events)
      BY <2>1, <3>2, StopsLink DEF Stopping, Joined
    <3>3. QED BY <2>1, <3>1, <3>2 DEF Switch
  <2>2. CASE phase = "OFFLINE" /\ \E c \in Config : BeginConnect(drv, c) /\ events' = events
    <3>1. drv \in {"idle", "stopped"} /\ Lacks(events, LinkEvent) /\ events \in Seq(Event)
      BY <2>2 DEF LinkInv, WifiTypeOK
    <3>2. QED BY <2>2, <3>1, BeginConnectLink
  <2>3. QED BY <1>2, <2>1, <2>2 DEF StaConnect
<1>3. CASE StaStop
  <2>1. CASE StopSwitch
    BY <2>1 DEF StopSwitch, LinkInv, Stopping, Joined
  <2>2. CASE StopDraining
    BY <1>1, <2>2 DEF StopDraining
  <2>3. CASE StopOffline
    BY <1>1, <2>3 DEF StopOffline, Finish
  <2>4. CASE StopOther
    BY <2>4, DisconnectForLink DEF StopOther, Joined
  <2>5. QED BY <1>3, <2>1, <2>2, <2>3, <2>4 DEF StaStop
<1>4. CASE StaRefused \/ StaClear \/ StaState \/ ScanStart
  BY <1>1, <1>4 DEF StaRefused, StaClear, StaState, ScanStart, wifiVars
<1>5. QED BY <1>2, <1>3, <1>4 DEF Scpi

LEMMA LinkStep ==
  ASSUME WifiInv, stopErr \/ LinkInv, WifiNext
  PROVE  stopErr' \/ LinkInv'
<1>1. CASE stopErr
  <2>1. stopErr' = stopErr \/ stopErr' = TRUE
    BY DEF WifiNext, Scpi, StaConnect, Switch, StopFails, StaRefused, StaStop, StopSwitch,
       StopDraining, StopOffline, StopOther, DisconnectFor, StaClear, StaState, ScanStart,
       EventLoop, ScanDone, DeadlinePasses, DeadlineHandler, Driver, wifiVars
  <2>2. QED BY <1>1, <2>1
<1>2. CASE LinkInv
  <2>1. WifiTypeOK
    BY DEF WifiInv
  <2>2. CASE Scpi
    BY <1>2, <2>1, <2>2, ScpiLink
  <2>3. CASE EventLoop
    BY <1>2, <2>1, <2>3, EventLoopLink
  <2>4. CASE DeadlinePasses
    BY <1>2, <2>4 DEF DeadlinePasses, LinkInv, Orderly
  <2>5. CASE DeadlineHandler
    <3>1. phase \in Joined
      BY <2>5 DEF DeadlineHandler, WifiInv, JobInv, DeadlineMatchesPhase, Joined
    <3>2. QED BY <1>2, <2>1, <2>5, <3>1, DisconnectForLink DEF DeadlineHandler
  <2>6. CASE Driver
    BY <1>2, <2>1, <2>6, DriverLink
  <2>7. QED BY <2>2, <2>3, <2>4, <2>5, <2>6 DEF WifiNext
<1>3. QED BY <1>1, <1>2

LEMMA NetStep == ASSUME WifiInv, NetInv, WifiNext PROVE NetInv'
<1>1. CASE phase' = phase /\ drv' = drv /\ net' = net /\ config' = config
  BY <1>1 DEF NetInv
<1>2. CASE phase' = "OFFLINE" \/ drv' \in {"idle", "stopped"}
  BY <1>2 DEF NetInv
<1>3. ASSUME NEW d, NEW c, BeginConnect(d, c), config' = c PROVE NetInv'
  BY <1>3 DEF BeginConnect, Joins, Finish, NetInv
<1>4. ASSUME NEW r, DisconnectFor(r) PROVE NetInv'
  BY <1>2, <1>4 DEF DisconnectFor, Stops, StopFails, Finish
<1>5. CASE Scpi
  <2>1. CASE StaConnect
    BY <1>2, <1>3, <2>1 DEF StaConnect, Switch, Stops, StopFails, Finish
  <2>2. CASE StaStop
    <3>1. CASE StopSwitch
      BY <2>2, <3>1 DEF StaStop, StopSwitch, NetInv
    <3>2. QED BY <1>1, <1>2, <1>4, <2>2, <3>1
          DEF StaStop, StopDraining, StopOffline, StopOther, Finish
  <2>3. CASE StaRefused \/ StaClear \/ StaState \/ ScanStart
    BY <1>1, <2>3 DEF StaRefused, StaClear, StaState, ScanStart, wifiVars
  <2>4. QED BY <1>5, <2>1, <2>2, <2>3 DEF Scpi
<1>6. CASE EventLoop
  <2>1. CASE StaStopped /\ config' = config
    BY <1>1, <1>2, <1>3, <2>1 DEF StaStopped, Restarts, Finish
  <2>2. CASE Connected /\ config' = config
    BY <1>1, <2>2 DEF Connected, Ignore, NetInv
  <2>3. CASE Disconnected /\ config' = config
    BY <1>1, <1>2, <1>3, <2>3 DEF Disconnected, Joins, Finish, NetInv
  <2>4. CASE (GotIp \/ LostIp) /\ config' = config
    BY <1>1, <2>4 DEF GotIp, LostIp, Ignore, NetInv
  <2>5. CASE ScanDone
    BY <1>1, <2>5 DEF ScanDone, Ignore
  <2>6. QED BY <1>6, <2>1, <2>2, <2>3, <2>4, <2>5 DEF EventLoop
<1>7. CASE DeadlinePasses
  BY <1>1, <1>7 DEF DeadlinePasses
<1>8. CASE DeadlineHandler
  BY <1>4, <1>8 DEF DeadlineHandler
<1>9. CASE Driver
  BY <1>9 DEF Driver, DrvConnects, DrvFails, DrvLeases, DrvLosesLease, LeaseTimer,
     DrvScanned, NetInv
<1>10. QED BY <1>5, <1>6, <1>7, <1>8, <1>9 DEF WifiNext

\* DONE is never about a network of an earlier STARt, and, unless the driver
\* refused to stop, a job that is offline has no connection open: however late the
\* driver's events are taken.
THEOREM NoOldConnectionEver == WifiSpec => []NoOldConnection
<1> DEFINE Inv == NetInv /\ (stopErr \/ LinkInv)
<1>1. WifiInit => Inv
  BY DEF WifiInit, NetInv, LinkInv, Orderly, Lacks, NeverAfter, Stopping, Joined
<1>2. WifiInv /\ Inv /\ [WifiNext]_wifiVars => Inv'
  <2>1. ASSUME Inv, UNCHANGED wifiVars PROVE Inv'
    BY <2>1 DEF wifiVars, NetInv, LinkInv, Orderly
  <2>2. QED BY <2>1, LinkStep, NetStep
<1>3. Inv => NoOldConnection
  BY DEF NetInv, LinkInv, NoOldConnection, OnlineIsAsked, OfflineMeansDown
<1>4. WifiSpec => []Inv
  BY <1>1, <1>2, WifiInvariant, PTL DEF WifiSpec
<1>5. QED BY <1>3, <1>4, PTL

------------------------------------------------------------------------------
(* Links and commands over BLE. *)

LEMMA Constants ==
  /\ Depth \in Nat \ {0} /\ CmdParts \in Nat \ {0} /\ MaxWrite \in Nat \ {0}
  /\ MaxSession \in Nat /\ Fragments \in Nat \ {0}
BY NimbleAssumption

USE DEF peerVars, hostVars, workVars, airVars

------------------------------------------------------------------------------
\* Security.  A check that is queued for the current link was queued by it, so
\* that link is encrypted already; its bond is then as good as its peer can make it.
SecurityInv ==
  /\ link \in {"none", "up", "closing"} /\ conn \in {NoConn, Handle}
  /\ peerSc \in BOOLEAN /\ encrypted \in BOOLEAN /\ bonded \in BOOLEAN /\ secure \in BOOLEAN
  /\ session \in Nat /\ check \in [queued : BOOLEAN, session : Nat]
  /\ SecureMeansBonded /\ GoodPeerNotRefused
  /\ encrypted => (bonded <=> peerSc)
  /\ link = "none" => conn = NoConn /\ ~encrypted
  /\ check.session <= session
  /\ check.queued /\ check.session = session /\ link # "none" => encrypted

LEMMA SecurityStep == ASSUME SecurityInv, NimbleNext PROVE SecurityInv'
<1> USE DEF SecurityInv, SecureMeansBonded, GoodPeerNotRefused, NoConn, Handle
<1>1. CASE Connect
  <2>1. session' = session + 1 /\ check' = check
    BY <1>1 DEF Connect
  <2>2. session' \in Nat /\ check'.session <= session' /\ check'.session # session'
    BY <2>1
  <2> QED BY <1>1, <2>1, <2>2 DEF Connect
<1>2. CASE Disconnect
  <2>1. session' = session + 1 /\ check' = check
    BY <1>2 DEF Disconnect
  <2>2. session' \in Nat /\ check'.session <= session' /\ check'.session # session'
    BY <2>1
  <2> QED BY <1>2, <2>1, <2>2 DEF Disconnect
<1>3. CASE EncChange
  BY <1>3 DEF EncChange
<1>4. CASE EncFails
  BY <1>4 DEF EncFails, Terminate
<1>5. CASE CheckSecurity
  <2>1. /\ check' = [check EXCEPT !.queued = FALSE]
        /\ UNCHANGED <<peerSc, encrypted, bonded, conn, session>>
    BY <1>5 DEF CheckSecurity
  <2>2. check' \in [queued : BOOLEAN, session : Nat] /\ ~check'.queued /\ check'.session <= session
    BY <2>1
  <2>3. CASE UNCHANGED <<link, secure>>
    BY <2>1, <2>2, <2>3
  <2>4. CASE encrypted /\ bonded /\ secure' = TRUE /\ UNCHANGED link
    BY <2>1, <2>2, <2>4
  <2>5. CASE ~Stale /\ ~(encrypted /\ bonded) /\ link = "up" /\ Terminate /\ UNCHANGED secure
    <3>1. encrypted
      BY <1>5, <2>5 DEF CheckSecurity, Stale
    <3>2. ~peerSc /\ link' = "closing" /\ secure' = secure
      BY <2>5, <3>1 DEF Terminate
    <3> QED BY <2>1, <2>2, <2>5, <3>2
  <2> QED BY <1>5, <2>3, <2>4, <2>5 DEF CheckSecurity
<1>6. CASE Subscribe
  BY <1>6 DEF Subscribe
<1>7. CASE RxAccess
  BY <1>7 DEF RxAccess
<1>8. CASE Worker \/ NotifyTx \/ PoolChanges
  <2>1. UNCHANGED <<link, peerSc, encrypted, bonded, conn, session, secure, check>>
    BY <1>8 DEF Worker, WorkerReceive, TxReadConn, TxCheck, TxNotify, TxNoMemory, TxLinkGone,
                TxWait, NotifyTx, PoolChanges
  <2> QED BY <2>1
<1> QED BY <1>1, <1>2, <1>3, <1>4, <1>5, <1>6, <1>7, <1>8 DEF NimbleNext, HostTask

\* usbscpi_nimble.c, check_security: a link is accepted for its own encryption and
\* bond alone, and one whose peer can bond is never dropped for an earlier link's.
THEOREM SecurityAlwaysOfThisLink == NimbleSpec => []SecurityOfThisLink
<1>1. NimbleInit => SecurityInv
  <2> SUFFICES ASSUME NimbleInit PROVE SecurityInv
    OBVIOUS
  <2>1. check \in [queued : BOOLEAN, session : Nat] /\ ~check.queued /\ check.session = 0
    BY DEF NimbleInit
  <2>2. /\ link = "none" /\ conn = NoConn /\ session = 0
        /\ peerSc = FALSE /\ encrypted = FALSE /\ bonded = FALSE /\ secure = FALSE
    BY DEF NimbleInit
  <2>3. SecureMeansBonded /\ GoodPeerNotRefused
    BY <2>2 DEF SecureMeansBonded, GoodPeerNotRefused
  <2>4. session \in Nat /\ check.session <= session
    BY <2>1, <2>2
  <2> QED BY <2>1, <2>2, <2>3, <2>4 DEF SecurityInv
<1>2. SecurityInv /\ [NimbleNext]_nimbleVars => SecurityInv'
  <2>1. ASSUME SecurityInv, UNCHANGED nimbleVars PROVE SecurityInv'
    BY <2>1 DEF nimbleVars, SecurityInv, SecureMeansBonded, GoodPeerNotRefused
  <2> QED BY <2>1, SecurityStep
<1>3. SecurityInv => SecurityOfThisLink
  BY DEF SecurityInv, SecurityOfThisLink
<1> QED BY <1>1, <1>2, <1>3, PTL DEF NimbleSpec

------------------------------------------------------------------------------
\* Commands.  What the queue holds goes on from what the core holds, and what the
\* peer writes next goes on from the end of the queue: an item follows the one
\* before it in its session, and is a first part in a new session.
Item == [session : Nat, part : 1..CmdParts]
After(item) ==
  [session |-> item.session, part |-> IF item.part = CmdParts THEN 0 ELSE item.part]
Before(i) == IF i = 1 THEN [session |-> rxSession, part |-> Len(line)] ELSE After(rx[i - 1])
Next1(p, s) == IF s = p.session THEN p.part + 1 ELSE 1
QueueTypeOK ==
  /\ rx \in Seq(Item) /\ line \in Seq(Item) /\ executed \in Seq(Item)
  /\ sent \in 0..(CmdParts - 1) /\ rxSession \in Nat /\ session \in Nat
Tail1 == Before(Len(rx) + 1)
SessionsPast == rxSession <= session /\ \A i \in 1..Len(rx) : rx[i].session <= session
QueueInv ==
  /\ QueueTypeOK
  /\ SessionsPast
  /\ \A i \in 1..Len(rx) : rx[i].part = Next1(Before(i), rx[i].session)
                           /\ Before(i).session <= rx[i].session
  /\ Tail1.session <= session /\ sent = (IF Tail1.session = session THEN Tail1.part ELSE 0)
  /\ \A i \in 1..Len(line) : line[i] = [session |-> rxSession, part |-> i]
  /\ Len(line) < CmdParts
  /\ CommandsOfOneLink

LEMMA Remainder ==
  ASSUME NEW p \in 0..CmdParts
  PROVE  p % CmdParts = IF p = CmdParts THEN 0 ELSE p
BY Constants

LEMMA BeforeType ==
  ASSUME QueueInv, NEW i \in 1..(Len(rx) + 1)
  PROVE  Before(i).session \in Nat /\ Before(i).part \in 0..(CmdParts - 1)
<1>1. CASE i = 1
  BY <1>1, Constants DEF QueueInv, QueueTypeOK, Before
<1>2. CASE i # 1
  <2>1. i - 1 \in 1..Len(rx)
    BY <1>2 DEF QueueInv, QueueTypeOK
  <2>2. rx[i - 1] \in Item
    BY <2>1 DEF QueueInv, QueueTypeOK
  <2> QED BY <1>2, <2>2, Constants DEF Before, After, Item
<1> QED BY <1>1, <1>2

\* A write that fits is queued whole.
LEMMA WriteQueued ==
  ASSUME QueueInv, NEW n \in 1..MaxWrite, sent + n <= CmdParts, RoomFor(n),
         rx' = QueueSend([i \in 1..n |-> [session |-> session, part |-> sent + i]]),
         sent' = (sent + n) % CmdParts,
         UNCHANGED <<session, rxSession, line, executed>>
  PROVE  QueueInv'
<1> DEFINE items == [i \in 1..n |-> [session |-> session, part |-> sent + i]]
<1>0. /\ n \in Nat \ {0} /\ sent \in 0..(CmdParts - 1) /\ session \in Nat
      /\ rx \in Seq(Item) /\ Len(rx) \in Nat /\ Depth \in Nat /\ CmdParts \in Nat \ {0}
  BY Constants DEF QueueInv, QueueTypeOK
<1>1. /\ items \in Seq(Item) /\ Len(items) = n
      /\ \A i \in 1..n : items[i].session = session /\ items[i].part = sent + i
  <2>1. \A i \in 1..n : [session |-> session, part |-> sent + i] \in Item
    BY <1>0 DEF Item
  <2>2. items \in [1..n -> Item] /\ n \in Nat
    BY <1>0, <2>1
  <2>3. \A i \in 1..n : items[i] = [session |-> session, part |-> sent + i]
    OBVIOUS
  <2> HIDE DEF items
  <2>4. items \in Seq(Item) /\ Len(items) = n
    BY <2>2
  <2> QED BY <2>3, <2>4
<1> HIDE DEF items
<1>2. rx' = rx \o items
  <2>1. rx \o items \in Seq(Item) /\ Len(rx \o items) = Len(rx) + n
    BY <1>0, <1>1, ConcatProperties
  <2>2. SubSeq(rx \o items, 1, Len(rx \o items)) = rx \o items
    BY <2>1, SubSeqFull
  <2>3. Len(rx) + n <= Depth
    BY <1>0 DEF RoomFor
  <2>4. rx' = SubSeq(rx \o items, 1, Len(rx \o items))
    BY <1>0, <2>1, <2>3 DEF QueueSend, items
  <2> QED BY <2>2, <2>4
<1>a. PICK L \in Nat : L = Len(rx)
  BY <1>0
<1>3. /\ rx' \in Seq(Item) /\ Len(rx') = L + n
      /\ \A i \in 1..L : rx'[i] = rx[i]
      /\ \A i \in 1..n : rx'[L + i] = items[i]
  <2>1. /\ rx \o items \in Seq(Item) /\ Len(rx \o items) = Len(rx) + Len(items)
        /\ \A i \in 1..(Len(rx) + Len(items)) :
             (rx \o items)[i] = IF i <= Len(rx) THEN rx[i] ELSE items[i - Len(rx)]
    BY <1>0, <1>1, ConcatProperties
  <2>2. /\ rx' \in Seq(Item) /\ Len(rx') = L + n
        /\ \A i \in 1..(L + n) : rx'[i] = IF i <= L THEN rx[i] ELSE items[i - L]
    BY <1>1, <1>2, <1>a, <2>1
  <2>3. \A i \in 1..L : rx'[i] = rx[i]
    BY SMTT(30), <1>0, <2>2
  <2>4. ASSUME NEW i \in 1..n PROVE rx'[L + i] = items[i]
    <3>1. L + i \in 1..(L + n) /\ ~(L + i <= L) /\ (L + i) - L = i
      BY <1>0
    <3> QED BY <2>2, <3>1
  <2> QED BY <2>2, <2>3, <2>4
<1>4. ASSUME NEW i \in 1..(L + 1) PROVE Before(i)' = Before(i)
  <2>1. CASE i = 1
    BY <2>1 DEF Before
  <2>2. CASE i # 1
    <3>1. i - 1 \in 1..L
      BY <1>0, <2>2
    <3>2. rx'[i - 1] = rx[i - 1]
      BY <1>3, <3>1
    <3> QED BY <2>2, <3>2 DEF Before
  <2> QED BY <2>1, <2>2
<1>5. ASSUME NEW i \in 1..n PROVE Before(L + 1 + i)' = After(items[i])
  <2>1. L + 1 + i # 1 /\ (L + 1 + i) - 1 = L + i
    BY <1>0
  <2>2. rx'[L + i] = items[i]
    BY <1>3
  <2> QED BY <2>1, <2>2 DEF Before
<1>6. ASSUME NEW i \in 1..L
      PROVE  rx'[i].part = Next1(Before(i)', rx'[i].session) /\ Before(i)'.session <= rx'[i].session
  <2>1. i \in 1..(L + 1) /\ i \in 1..Len(rx)
    BY <1>0, <1>a
  <2>2. Before(i)' = Before(i) /\ rx'[i] = rx[i]
    BY <1>3, <1>4, <2>1
  <2>3. rx[i].part = Next1(Before(i), rx[i].session) /\ Before(i).session <= rx[i].session
    BY <2>1 DEF QueueInv
  <2> QED BY <2>2, <2>3
<1>b. /\ Tail1 = Before(L + 1) /\ Before(L + 1).session \in Nat /\ Before(L + 1).part \in 0..(CmdParts - 1)
      /\ Before(L + 1).session <= session
      /\ sent = (IF Before(L + 1).session = session THEN Before(L + 1).part ELSE 0)
  <2>1. Tail1 = Before(L + 1)
    BY <1>a DEF Tail1
  <2>2. Before(L + 1).session \in Nat /\ Before(L + 1).part \in 0..(CmdParts - 1)
    BY <1>a, BeforeType
  <2> QED BY <2>1, <2>2 DEF QueueInv
<1>7. ASSUME NEW i \in 1..n
      PROVE  /\ rx'[L + i].part = Next1(Before(L + i)', rx'[L + i].session)
             /\ Before(L + i)'.session <= rx'[L + i].session
  <2>1. rx'[L + i].part = sent + i /\ rx'[L + i].session = session
    BY <1>1, <1>3
  <2>2. CASE i = 1
    <3>1. Before(L + i)' = Before(L + 1)
      BY <1>a, <1>4, <2>2
    <3>2. sent + 1 = Next1(Before(L + 1), session) /\ Before(L + 1).session <= session
      BY SMTT(30), <1>0, <1>b DEF Next1
    <3> QED BY <2>1, <2>2, <3>1, <3>2
  <2>3. CASE i # 1
    <3>1. i - 1 \in 1..n /\ L + 1 + (i - 1) = L + i
      BY <1>0, <2>3
    <3>2. Before(L + i)' = After(items[i - 1])
      BY <1>5, <3>1
    <3>3. After(items[i - 1]) = [session |-> session, part |-> sent + (i - 1)]
      BY <1>0, <1>1, <3>1 DEF After
    <3> QED BY <1>0, <2>1, <3>2, <3>3 DEF Next1
  <2> QED BY <2>2, <2>3
<1>8. ASSUME NEW i \in 1..Len(rx')
      PROVE  rx'[i].part = Next1(Before(i)', rx'[i].session) /\ Before(i)'.session <= rx'[i].session
  <2>1. CASE i \in 1..L
    BY <1>6, <2>1
  <2>2. CASE i \notin 1..L
    <3>1. PICK k \in Int : k = i - L
      BY <1>3
    <3>2. k \in 1..n /\ L + k = i
      BY <1>0, <1>3, <2>2, <3>1
    <3> QED BY <1>7, <3>2
  <2> QED BY <2>1, <2>2
<1>9. Tail1' = After(items[n])
  <2>1. Len(rx') + 1 = L + 1 + n
    <3>1. Len(rx') = L + n
      BY <1>3
    <3>2. L \in Nat /\ n \in Nat
      BY <1>0
    <3> QED BY <3>1, <3>2
  <2>2. Before(L + 1 + n)' = After(items[n])
    BY <1>0, <1>5
  <2> QED BY <2>1, <2>2 DEF Tail1
<1>10. Tail1' = [session |-> session, part |-> sent']
  <2>1. sent + n \in 0..CmdParts
    BY <1>0
  <2>2. sent' = IF sent + n = CmdParts THEN 0 ELSE sent + n
    BY <2>1, Remainder
  <2>3. items[n].session = session /\ items[n].part = sent + n
    <3>1. n \in 1..n
      BY <1>0
    <3>2. \A i \in 1..n : items[i].session = session /\ items[i].part = sent + i
      BY <1>1
    <3> QED BY <3>1, <3>2
  <2>4. After(items[n]) = [session |-> session, part |-> sent']
    BY <2>2, <2>3 DEF After
  <2> QED BY <1>9, <2>4
<1>11. sent' \in 0..(CmdParts - 1)
  <2>1. sent + n \in 0..CmdParts
    BY <1>0
  <2> QED BY <1>0, <2>1, Remainder
<1>12. QueueTypeOK'
  BY <1>3, <1>11 DEF QueueInv, QueueTypeOK
<1>13. Tail1'.session <= session' /\ sent' = (IF Tail1'.session = session' THEN Tail1'.part ELSE 0)
  BY <1>0, <1>10
<1>14. SessionsPast'
  <2> SUFFICES ASSUME NEW i \in 1..Len(rx') PROVE rx'[i].session <= session
    BY DEF QueueInv, SessionsPast
  <2>1. CASE i \in 1..L
    BY <1>a, <1>3, <2>1 DEF QueueInv, SessionsPast
  <2>2. CASE i \notin 1..L
    <3>1. PICK k \in Int : k = i - L
      BY <1>3
    <3>2. k \in 1..n /\ L + k = i
      BY <1>0, <1>3, <2>2, <3>1
    <3>3. rx'[i] = items[k] /\ items[k].session = session
      BY <1>1, <1>3, <3>2
    <3> QED BY <1>0, <3>3
  <2> QED BY <2>1, <2>2
<1> QED BY <1>8, <1>12, <1>13, <1>14 DEF QueueInv, CommandsOfOneLink

\* The core takes the head of the queue.
LEMMA ItemTaken == ASSUME QueueInv, WorkerReceive PROVE QueueInv'
<1> DEFINE item == Head(rx)
           held == Held(item)
           all  == Append(held, item)
<1>0. /\ rx \in Seq(Item) /\ rx # <<>> /\ line \in Seq(Item) /\ CmdParts \in Nat \ {0}
      /\ rxSession \in Nat /\ Len(rx) \in Nat /\ Len(rx) > 0 /\ Len(line) \in Nat
  BY Constants DEF QueueInv, QueueTypeOK, WorkerReceive
<1>1. /\ rx' = Tail(rx) /\ rxSession' = item.session /\ UNCHANGED <<sent, session>>
      /\ \/ item.part # CmdParts /\ line' = all /\ UNCHANGED executed
         \/ item.part = CmdParts /\ line' = <<>> /\ executed' = all
  BY DEF WorkerReceive
<1>2. item \in Item /\ item = rx[1]
  BY <1>0, HeadTailProperties
<1>3. /\ Tail(rx) \in Seq(Item) /\ Len(Tail(rx)) = Len(rx) - 1
      /\ \A i \in 1..Len(Tail(rx)) : Tail(rx)[i] = rx[i + 1]
  BY <1>0, HeadTailProperties
<1>4. /\ held \in Seq(Item) /\ Len(held) < CmdParts /\ item.part = Len(held) + 1
      /\ \A i \in 1..Len(held) : held[i] = [session |-> item.session, part |-> i]
  <2>1. rx[1].part = Next1(Before(1), rx[1].session)
    BY <1>0 DEF QueueInv
  <2>2. item.part = IF item.session = rxSession THEN Len(line) + 1 ELSE 1
    BY <1>2, <2>1 DEF Before, Next1
  <2>3. CASE item.session = rxSession
    BY <1>0, <2>2, <2>3 DEF Held, QueueInv
  <2>4. CASE item.session # rxSession
    BY <1>0, <2>2, <2>4 DEF Held
  <2> QED BY <2>3, <2>4
<1>5. item = [session |-> item.session, part |-> Len(held) + 1]
  BY <1>2, <1>4 DEF Item
<1> HIDE DEF item, held
<1>6. /\ all \in Seq(Item) /\ Len(all) = Len(held) + 1
      /\ \A i \in 1..Len(held) : all[i] = held[i]
      /\ all[Len(held) + 1] = item
  BY <1>2, <1>4, AppendProperties
<1>7. \A i \in 1..Len(all) : all[i] = [session |-> item.session, part |-> i]
  <2> SUFFICES ASSUME NEW i \in 1..Len(all) PROVE all[i] = [session |-> item.session, part |-> i]
    OBVIOUS
  <2>1. CASE i \in 1..Len(held)
    BY <1>4, <1>6, <2>1
  <2>2. CASE i = Len(held) + 1
    BY <1>5, <1>6, <2>2
  <2>3. Len(held) \in Nat
    BY <1>4
  <2> QED BY <1>6, <2>1, <2>2, <2>3
<1> HIDE DEF all
<1>8. /\ line' \in Seq(Item) /\ Len(line') < CmdParts
      /\ \A i \in 1..Len(line') : line'[i] = [session |-> rxSession', part |-> i]
      /\ Len(line') = IF item.part = CmdParts THEN 0 ELSE item.part
  <2>1. CASE item.part # CmdParts
    <3>1. Len(held) \in Nat /\ Len(held) + 1 < CmdParts
      BY <1>0, <1>4, <2>1
    <3> QED BY <1>1, <1>4, <1>6, <1>7, <2>1, <3>1
  <2>2. CASE item.part = CmdParts
    <3>1. line' = <<>> /\ Len(line') = 0
      BY <1>1, <2>2
    <3> QED BY <1>0, <2>2, <3>1
  <2> QED BY <2>1, <2>2
<1>9. executed' \in Seq(Item) /\ CommandsOfOneLink'
  <2>1. CASE item.part # CmdParts
    BY <1>1, <2>1 DEF QueueInv, QueueTypeOK, CommandsOfOneLink
  <2>2. CASE item.part = CmdParts
    <3>1. executed' = all
      BY <1>1, <2>2
    <3>2. DOMAIN all = 1..Len(all) /\ Len(all) \in Nat
      BY <1>6
    <3>3. \A i \in DOMAIN all : all[i].part = i /\ all[i].session = item.session
      BY <1>7, <3>2
    <3>4. \A i \in DOMAIN all : 1 \in DOMAIN all
      BY <3>2
    <3> QED BY <1>6, <3>1, <3>3, <3>4 DEF CommandsOfOneLink
  <2> QED BY <2>1, <2>2
<1>10. ASSUME NEW i \in 1..Len(rx)
       PROVE  Before(i)' = Before(i + 1)
  <2>1. CASE i = 1
    <3>1. Before(1)' = [session |-> item.session, part |-> Len(line')]
      BY <1>1 DEF Before
    <3>2. Before(2) = After(item)
      BY <1>2 DEF Before
    <3> QED BY <1>8, <2>1, <3>1, <3>2 DEF After
  <2>2. CASE i # 1
    <3>1. i - 1 \in 1..Len(Tail(rx)) /\ i + 1 # 1 /\ (i - 1) + 1 = (i + 1) - 1
      BY <1>0, <1>3, <2>2
    <3>2. rx'[i - 1] = rx[(i + 1) - 1]
      BY <1>1, <1>3, <3>1
    <3> QED BY <2>2, <3>1, <3>2 DEF Before
  <2> QED BY <2>1, <2>2
<1>11. ASSUME NEW i \in 1..Len(rx')
       PROVE  rx'[i].part = Next1(Before(i)', rx'[i].session) /\ Before(i)'.session <= rx'[i].session
  <2>1. i \in 1..Len(rx) /\ i + 1 \in 1..Len(rx)
    BY <1>0, <1>1, <1>3
  <2>2. Before(i)' = Before(i + 1) /\ rx'[i] = rx[i + 1]
    BY <1>1, <1>3, <1>10, <2>1
  <2>3. rx[i + 1].part = Next1(Before(i + 1), rx[i + 1].session)
        /\ Before(i + 1).session <= rx[i + 1].session
    BY <2>1 DEF QueueInv
  <2> QED BY <2>2, <2>3
<1>12. Tail1' = Tail1
  <2>1. PICK L \in 1..Len(rx) : L = Len(rx)
    BY <1>0
  <2>2. Len(rx') + 1 = L
    BY <1>0, <1>1, <1>3, <2>1
  <2>3. Before(L)' = Before(L + 1)
    BY <1>10, <2>1
  <2> QED BY <2>1, <2>2, <2>3 DEF Tail1
<1>13. QueueTypeOK'
  BY <1>1, <1>2, <1>3, <1>8, <1>9 DEF QueueInv, QueueTypeOK, Item
<1>14. Tail1'.session <= session' /\ sent' = (IF Tail1'.session = session' THEN Tail1'.part ELSE 0)
  BY <1>1, <1>12 DEF QueueInv
<1>15. SessionsPast'
  <2>1. item.session <= session
    BY <1>0, <1>2 DEF QueueInv, SessionsPast
  <2>2. \A i \in 1..Len(rx') : rx'[i] = rx[i + 1] /\ i + 1 \in 1..Len(rx)
    BY <1>0, <1>1, <1>3
  <2> QED BY <1>1, <2>1, <2>2 DEF QueueInv, SessionsPast
<1> QED BY <1>8, <1>9, <1>11, <1>13, <1>14, <1>15 DEF QueueInv

\* A link comes or goes: what the queue holds is of an earlier session.
LEMMA SessionChanges ==
  ASSUME QueueInv, session' = session + 1, sent' = 0, UNCHANGED <<rx, line, rxSession, executed>>
  PROVE  QueueInv'
<1>1. /\ session \in Nat /\ Tail1 = Before(Len(rx) + 1)
      /\ Len(rx) + 1 \in 1..(Len(rx) + 1) /\ Tail1.session \in Nat /\ Tail1.session <= session
  <2>1. Len(rx) + 1 \in 1..(Len(rx) + 1)
    BY DEF QueueInv, QueueTypeOK
  <2> QED BY <2>1, BeforeType DEF QueueInv, QueueTypeOK, Tail1
<1>2. \A i \in 1..(Len(rx) + 1) : Before(i)' = Before(i)
  BY DEF Before
<1>3. Tail1' = Tail1
  BY DEF Tail1, Before
<1>4. Tail1'.session <= session' /\ Tail1'.session # session' /\ session' \in Nat
  BY <1>1, <1>3
<1>5. QueueTypeOK'
  BY <1>1, Constants DEF QueueInv, QueueTypeOK
<1>6. \A i \in 1..Len(rx) : rx'[i].part = Next1(Before(i)', rx'[i].session)
                            /\ Before(i)'.session <= rx'[i].session
  BY DEF QueueInv, Before
<1>7. SessionsPast'
  <2>1. rxSession \in Nat /\ \A i \in 1..Len(rx) : rx[i].session \in Nat
    <3>1. rx \in Seq(Item) /\ rxSession \in Nat
      BY DEF QueueInv, QueueTypeOK
    <3>2. \A i \in 1..Len(rx) : rx[i] \in Item
      BY <3>1
    <3> QED BY <3>1, <3>2 DEF Item
  <2> QED BY <1>1, <2>1 DEF QueueInv, SessionsPast
<1> QED BY <1>4, <1>5, <1>6, <1>7 DEF QueueInv, CommandsOfOneLink

LEMMA QueueApart ==
  ASSUME QueueInv, UNCHANGED <<session, sent, rx, line, rxSession, executed>>
  PROVE  QueueInv'
BY DEF QueueInv, QueueTypeOK, SessionsPast, Tail1, Before, CommandsOfOneLink

LEMMA QueueStep == ASSUME QueueInv, NimbleNext PROVE QueueInv'
<1>1. CASE Connect \/ Disconnect
  BY <1>1, SessionChanges DEF Connect, Disconnect
<1>2. CASE EncChange \/ EncFails \/ CheckSecurity \/ Subscribe
  BY <1>2, QueueApart DEF EncChange, EncFails, CheckSecurity, Subscribe
<1>3. CASE RxAccess
  BY <1>3, WriteQueued DEF RxAccess
<1>4. CASE WorkerReceive
  BY <1>4, ItemTaken
<1>5. CASE TxReadConn \/ TxCheck \/ TxNotify \/ TxNoMemory \/ TxLinkGone \/ TxWait
  BY <1>5, QueueApart DEF TxReadConn, TxCheck, TxNotify, TxNoMemory, TxLinkGone, TxWait
<1>6. CASE NotifyTx \/ PoolChanges
  BY <1>6, QueueApart DEF NotifyTx, PoolChanges
<1> QED BY <1>1, <1>2, <1>3, <1>4, <1>5, <1>6 DEF NimbleNext, HostTask, Worker

\* The queue and the core's line hold, in order, what the peers wrote.
THEOREM QueueInvariant == NimbleSpec => []QueueInv
<1>1. NimbleInit => QueueInv
  <2> SUFFICES ASSUME NimbleInit PROVE QueueInv
    OBVIOUS
  <2>1. /\ rx = <<>> /\ line = <<>> /\ executed = <<>> /\ sent = 0 /\ rxSession = 0 /\ session = 0
        /\ Len(rx) = 0 /\ Len(line) = 0
    BY DEF NimbleInit
  <2>2. Tail1 = [session |-> 0, part |-> 0]
    BY <2>1 DEF Tail1, Before
  <2>3. QueueTypeOK
    BY <2>1, Constants DEF QueueTypeOK
  <2>4. Len(line) < CmdParts
    BY <2>1, Constants
  <2> QED BY <2>1, <2>2, <2>3, <2>4 DEF QueueInv, SessionsPast, CommandsOfOneLink
<1>2. QueueInv /\ [NimbleNext]_nimbleVars => QueueInv'
  <2>1. ASSUME QueueInv, UNCHANGED nimbleVars PROVE QueueInv'
    BY <2>1, QueueApart DEF nimbleVars
  <2> QED BY <2>1, QueueStep
<1> QED BY <1>1, <1>2, PTL DEF NimbleSpec

\* usbscpi_nimble.c: a command the core executes is whole, in order and of one
\* link, whatever writes and drops the queue saw.
THEOREM CommandsAlwaysOfOneLink == NimbleSpec => []CommandsOfOneLink
<1>1. QueueInv => CommandsOfOneLink
  BY DEF QueueInv
<1> QED BY <1>1, QueueInvariant, PTL

------------------------------------------------------------------------------
\* Replies.  Inside usbscpi_nimble_tx, the fragment to be sent goes on from the
\* last one the link received, unless the link is no longer that of the command.
Received == [session : Nat, frag : Nat]
ReplyInv ==
  /\ got \in Seq(Received) /\ Len(got) <= 2 /\ frag \in Nat
  /\ wpc # "idle" =>
       /\ frag \in 1..Fragments
       /\ frag # 1 /\ rxSession = session => got # <<>> /\ got[Len(got)].frag = frag - 1
  /\ RepliesWhole

LEMMA ReplyApart ==
  ASSUME ReplyInv, UNCHANGED <<got, frag, rxSession, session>>, wpc' = wpc \/ wpc' = "idle" \/ wpc # "idle"
  PROVE  ReplyInv'
BY DEF ReplyInv, RepliesWhole

\* A fragment is sent.
LEMMA Notified == ASSUME QueueInv, ReplyInv, TxNotify PROVE ReplyInv'
<1> DEFINE new == [session |-> rxSession, frag |-> frag]
<1>0. /\ got \in Seq(Received) /\ frag \in 1..Fragments /\ rxSession \in Nat /\ session \in Nat
      /\ Fragments \in Nat \ {0} /\ new \in Received
  BY Constants DEF ReplyInv, TxNotify, QueueInv, QueueTypeOK, Received
<1>1. /\ got' = LastTwo(Append(got, new)) /\ frag' = (frag + 1) % (Fragments + 1)
      /\ wpc' = (IF frag = Fragments THEN "idle" ELSE "tx") /\ UNCHANGED <<rxSession, session>>
  BY DEF TxNotify
<1>2. frag # 1 /\ rxSession = session => got # <<>> /\ got[Len(got)].frag = frag - 1
  BY DEF TxNotify, ReplyInv
<1>3. /\ Append(got, new) \in Seq(Received) /\ Len(Append(got, new)) = Len(got) + 1
      /\ Append(got, new)[Len(got) + 1] = new
      /\ \A i \in 1..Len(got) : Append(got, new)[i] = got[i]
  BY <1>0, AppendProperties
<1> HIDE DEF new
<1>4. /\ got' \in Seq(Received) /\ got' # <<>> /\ got'[Len(got')] = new
      /\ Len(got') = 1 => got = <<>>
      /\ Len(got') >= 2 => got # <<>> /\ got'[Len(got') - 1] = got[Len(got)]
  <2>1. CASE Len(Append(got, new)) > 2
    <3>1. got' = Tail(Append(got, new))
      BY <1>1, <2>1 DEF LastTwo
    <3>2. /\ got' \in Seq(Received) /\ Len(got') = Len(got)
          /\ \A i \in 1..Len(got') : got'[i] = Append(got, new)[i + 1]
      BY <1>3, <2>1, <3>1, HeadTailProperties
    <3>3. Len(got) \in Nat /\ Len(got) >= 2
      BY <1>0, <1>3, <2>1
    <3>4. got'[Len(got)] = new /\ got'[Len(got) - 1] = got[Len(got)]
      BY <1>3, <3>2, <3>3
    <3>5. got' # <<>> /\ got # <<>>
      BY <3>2, <3>3
    <3> QED BY <3>2, <3>3, <3>4, <3>5
  <2>2. CASE ~(Len(Append(got, new)) > 2)
    <3>1. got' = Append(got, new)
      BY <1>1, <2>2 DEF LastTwo
    <3>2. Len(got) \in Nat
      BY <1>0
    <3> QED BY <1>0, <1>3, <3>1, <3>2
  <2> QED BY <2>1, <2>2
<1>5. Len(got') \in Nat /\ Len(got') <= 2
  <2>1. Len(got) \in Nat /\ Len(got) <= 2
    BY DEF ReplyInv
  <2>2. CASE Len(Append(got, new)) > 2
    BY <1>1, <1>3, <2>1, <2>2, HeadTailProperties DEF LastTwo
  <2>3. CASE ~(Len(Append(got, new)) > 2)
    BY <1>1, <1>3, <2>1, <2>3 DEF LastTwo
  <2> QED BY <2>2, <2>3
<1>6. new.session = rxSession /\ new.frag = frag
  BY DEF new
<1>7. ASSUME NEW i \in DOMAIN got', got'[i].session = session', got'[i].frag # 1
      PROVE  (i = 1 => Len(got') = 2) /\ (i = 2 => got'[1].frag = got'[2].frag - 1)
  <2>1. i \in 1..Len(got') /\ session' = session
    BY <1>1, <1>4, <1>7
  <2>2. CASE Len(got') = 1
    <3>1. i = 1 /\ got'[1] = new /\ got = <<>>
      BY <1>4, <2>1, <2>2
    <3> QED BY <1>2, <1>6, <1>7, <2>1, <3>1
  <2>3. CASE Len(got') = 2
    <3>1. got'[2] = new /\ got'[1] = got[Len(got)]
      BY <1>4, <2>3
    <3>2. i = 2 => got'[1].frag = got'[2].frag - 1
      BY <1>2, <1>6, <1>7, <2>1, <3>1
    <3> QED BY <2>3, <3>2
  <2>4. Len(got') = 1 \/ Len(got') = 2
    <3>1. PICK n \in Nat : n = Len(got')
      BY <1>5
    <3>2. n <= 2 /\ i \in 1..n
      BY <1>5, <2>1, <3>1
    <3>3. n = 1 \/ n = 2
      BY <3>2
    <3> QED BY <3>1, <3>3
  <2> QED BY <2>2, <2>3, <2>4
<1>8. frag' \in Nat /\ (wpc' # "idle" => frag' = frag + 1 /\ frag' \in 1..Fragments)
  <2>1. frag' \in Nat
    BY <1>0, <1>1
  <2>2. CASE frag < Fragments
    <3>1. (frag + 1) % (Fragments + 1) = frag + 1
      BY <1>0, <2>2
    <3> QED BY <1>0, <1>1, <2>1, <2>2, <3>1
  <2>3. CASE frag = Fragments
    BY <1>1, <2>1, <2>3
  <2> QED BY <1>0, <2>2, <2>3
<1> QED BY <1>0, <1>1, <1>4, <1>5, <1>6, <1>7, <1>8 DEF ReplyInv, RepliesWhole

LEMMA ReplyStep == ASSUME QueueInv, ReplyInv, NimbleNext PROVE ReplyInv'
<1>1. CASE Connect \/ Disconnect
  <2>1. /\ got' = <<>> /\ session' = session + 1 /\ UNCHANGED <<frag, wpc, rxSession>>
    BY <1>1 DEF Connect, Disconnect
  <2>2. rxSession \in Nat /\ session \in Nat /\ rxSession <= session
    BY DEF QueueInv, QueueTypeOK, SessionsPast
  <2> QED BY <2>1, <2>2 DEF ReplyInv, RepliesWhole
<1>2. CASE EncChange \/ EncFails \/ CheckSecurity \/ Subscribe \/ RxAccess \/ NotifyTx \/ PoolChanges
  BY <1>2, ReplyApart DEF EncChange, EncFails, CheckSecurity, Subscribe, RxAccess, NotifyTx, PoolChanges
<1>3. CASE WorkerReceive
  <2>1. /\ wpc = "idle" /\ UNCHANGED <<got, session>>
        /\ \/ wpc' = "idle" /\ frag' = frag
           \/ wpc' = "tx" /\ frag' = 1
    BY <1>3 DEF WorkerReceive
  <2> QED BY <2>1, Constants DEF ReplyInv, RepliesWhole
<1>4. CASE TxReadConn \/ TxCheck \/ TxNoMemory \/ TxLinkGone \/ TxWait
  BY <1>4, ReplyApart DEF TxReadConn, TxCheck, TxNoMemory, TxLinkGone, TxWait
<1>5. CASE TxNotify
  BY <1>5, Notified
<1> QED BY <1>1, <1>2, <1>3, <1>4, <1>5 DEF NimbleNext, HostTask, Worker

\* usbscpi_nimble_tx: a link receives the fragments of a reply without a gap or a
\* repeat, however often the stack was out of buffers.
THEOREM RepliesAlwaysWhole == NimbleSpec => []RepliesWhole
<1>1. NimbleInit => ReplyInv
  <2> SUFFICES ASSUME NimbleInit PROVE ReplyInv
    OBVIOUS
  <2>1. got = <<>> /\ frag = 0 /\ wpc = "idle" /\ Len(got) = 0
    BY DEF NimbleInit
  <2> QED BY <2>1 DEF ReplyInv, RepliesWhole
<1>2. QueueInv /\ ReplyInv /\ [NimbleNext]_nimbleVars => ReplyInv'
  <2>1. ASSUME ReplyInv, UNCHANGED nimbleVars PROVE ReplyInv'
    BY <2>1, ReplyApart DEF nimbleVars
  <2> QED BY <2>1, ReplyStep
<1>3. ReplyInv => RepliesWhole
  BY DEF ReplyInv
<1> QED BY <1>1, <1>2, <1>3, QueueInvariant, PTL DEF NimbleSpec
=============================================================================
