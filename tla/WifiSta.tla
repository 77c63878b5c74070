------------------------------ MODULE WifiSta ------------------------------
(***************************************************************************)
(* The Wi-Fi station job of the ESP32-S3 examples                          *)
(* (examples/components/wlan): WLAN:CONNect:STARt, :STOP, :CLEar and       *)
(* :STATe?, the handlers of the driver's events, the deadline timer, and   *)
(* the scan they exclude.  One mutex makes each of them atomic; the driver *)
(* runs beside them and is seen only through its queue of events.          *)
(***************************************************************************)
EXTENDS Sequences, Naturals

CONSTANTS
  Config,    \* what there is to connect to: SSID and password
  NoConfig,
  MaxEvents  \* bound of the exploration: events the driver runs ahead

ASSUME WifiAssumption == NoConfig \notin Config /\ MaxEvents \in Nat

VARIABLES
  phase, state, result,   \* s_phase, s_result.state, s_result.result
  reason, ip, deadline,   \* s_result.reason and .ip, s_deadline: "due" once
                          \* it has passed
  after, config,          \* s_after_disconnect, s_sta_config
  scanning,               \* s_scan_running
  reported,               \* s_wlan_conn_failure_reported
  drv, net, lease,        \* the driver, the network it is on, its address
  events,                 \* the default event loop's queue
  stopped, stopErr,       \* STOP was accepted, and no STARt since; a call of
                          \* esp_wifi_stop failed (history)
  polled, told            \* STATe? read this failure, and the errors it
                          \* queued of it (history)

resultVars == <<phase, state, result, reason, ip, deadline>>
driverVars == <<drv, net, lease, events>>
tellVars   == <<reported, polled, told>>
wifiVars == <<resultVars, after, config, scanning, driverVars, stopped, stopErr, tellVars>>

Attempt  == {"SWITCHING", "CONNECTING", "DHCP", "DRAINING"}
Phase    == Attempt \cup {"OFFLINE", "ONLINE"}
Failures == {"AUTH_FAILED", "AP_NOT_FOUND", "TIMEOUT", "DHCP_TIMEOUT",
             "DISCONNECTED", "ERROR"}
Reasons  == {"no_ap", "auth", "timeout", "other"}
Event    == [id : {"STOP", "CONNECTED", "DISCONNECTED", "GOT_IP", "LOST_IP",
                   "SCAN_DONE"},
             reason : Reasons \cup {"none"}]

Ev(id) == [id |-> id, reason |-> "none"]

WifiInit ==
  /\ phase = "OFFLINE" /\ state = "IDLE" /\ result = "NONE"
  /\ reason = "none" /\ ip = "none" /\ deadline = "none"
  /\ after = "STOPPED" /\ config = NoConfig /\ scanning = FALSE
  /\ reported = FALSE
  /\ drv = "idle" /\ net = NoConfig /\ lease = "none" /\ events = <<>>
  /\ stopped = FALSE /\ stopErr = FALSE /\ polled = FALSE /\ told = 0

------------------------------------------------------------------------------
(* Helpers the handlers share. *)

FinishKeepsDeadline(r, why) ==  \* fault: the timer stays armed
  /\ phase' = "OFFLINE" /\ state' = (IF r = "STOPPED" THEN "IDLE" ELSE "FAILED")
  /\ result' = r /\ ip' = "none" /\ UNCHANGED deadline
  /\ reason' = (IF r = "STOPPED" THEN "none" ELSE why)
Finish(r, why) ==
  /\ phase' = "OFFLINE" /\ state' = (IF r = "STOPPED" THEN "IDLE" ELSE "FAILED")
  /\ result' = r /\ ip' = "none" /\ deadline' = "none"
  /\ reason' = (IF r = "STOPPED" THEN "none" ELSE why)

\* esp_wifi_connect on a driver in state d, for c; any call may fail.
Joins(d, c) == d = "idle" /\ drv' = "connecting" /\ net' = c

BeginConnect(d, c) ==
  \/ /\ Joins(d, c)
     /\ phase' = "CONNECTING" /\ state' = "RUNNING" /\ result' = "NONE"
     /\ reason' = "none" /\ ip' = "none" /\ deadline' = "running"
  \/ /\ drv' = d /\ UNCHANGED net
     /\ \E r \in {"AUTH_FAILED", "ERROR"} : Finish(r, "other")

\* esp_wifi_stop, and the events queued by it after those in q
Stops(q) ==
  /\ drv' = "stopped" /\ net' = NoConfig
  /\ lease' = (IF lease = "held" THEN "lost" ELSE lease)
  /\ \/ drv # "idle" /\ events' = q \o <<[id |-> "DISCONNECTED", reason |-> "other"], Ev("STOP")>>
     \/ drv # "up" /\ events' = Append(q, Ev("STOP"))

StopFails == stopErr' = TRUE /\ UNCHANGED driverVars /\ Finish("ERROR", "other")

DisconnectFor(r) ==
  /\ after' = r
  /\ \/ /\ phase' = "DRAINING" /\ state' = "RUNNING" /\ ip' = "none"
        /\ deadline' = "none" /\ UNCHANGED <<result, reason>>
        /\ Stops(events) /\ UNCHANGED stopErr
     \/ StopFails

------------------------------------------------------------------------------
(* SCPI commands *)

\* Credentials are copied only for an attempt that is made.
Busy == scanning \/ phase \notin {"OFFLINE", "ONLINE"}
StaRefusedCopies ==  \* fault: copied before the check
  /\ Busy /\ config' \in Config
  /\ UNCHANGED <<resultVars, after, scanning, driverVars, stopped, stopErr, tellVars>>
StaRefused == Busy /\ UNCHANGED wifiVars
Switch(c) ==
  \/ /\ phase' = "SWITCHING" /\ state' = "RUNNING" /\ result' = "NONE"
     /\ reason' = "none" /\ ip' = "none" /\ UNCHANGED deadline
     /\ Stops(events) /\ UNCHANGED stopErr
  \/ StopFails
StaConnect ==
  /\ ~Busy
  /\ \E c \in Config :
       /\ config' = c
       /\ \/ phase = "ONLINE" /\ Switch(c)
          \/ phase = "OFFLINE" /\ BeginConnect(drv, c) /\ UNCHANGED <<lease, events, stopErr>>
  /\ stopped' = FALSE /\ reported' = FALSE /\ polled' = FALSE /\ told' = 0
  /\ UNCHANGED <<after, scanning>>

StopSwitchLater ==  \* fault: SWITCHING is left to go on
  /\ phase = "SWITCHING" /\ after' = "STOPPED"
  /\ UNCHANGED <<resultVars, driverVars, stopErr>>
StopSwitch ==
  /\ phase = "SWITCHING" /\ phase' = "DRAINING" /\ after' = "STOPPED"
  /\ UNCHANGED <<state, result, reason, ip, deadline, driverVars, stopErr>>
StopDraining ==
  /\ phase = "DRAINING" /\ after' = "STOPPED"
  /\ UNCHANGED <<resultVars, driverVars, stopErr>>
StopOffline ==
  /\ phase = "OFFLINE" /\ Finish("STOPPED", "none")
  /\ UNCHANGED <<after, driverVars, stopErr>>
StopOther ==
  /\ phase \in {"CONNECTING", "DHCP", "ONLINE"} /\ DisconnectFor("STOPPED")

\* STOP is accepted unless esp_wifi_stop fails.
StaStop ==
  /\ StopSwitch \/ StopDraining \/ StopOffline \/ StopOther
  /\ stopped' = (state' # "FAILED")
  /\ polled' = FALSE /\ told' = 0
  /\ UNCHANGED <<config, scanning, reported>>

StaClear ==
  /\ phase = "OFFLINE"
  /\ state' = "IDLE" /\ result' = "NONE" /\ reason' = "none" /\ ip' = "none"
  /\ reported' = FALSE /\ polled' = FALSE /\ told' = 0
  /\ UNCHANGED <<phase, deadline, after, config, scanning, driverVars, stopped, stopErr>>

\* STATe? queues the error of a failure the first time it reads it.
ReportAlways == state = "FAILED"  \* fault: queued at every poll
Report == state = "FAILED" /\ ~reported
StaState ==
  /\ state = "FAILED" /\ told < 2 /\ polled' = TRUE
  /\ \/ Report /\ reported' = TRUE /\ told' = told + 1
     \/ ~Report /\ UNCHANGED <<reported, told>>
  /\ UNCHANGED <<resultVars, after, config, scanning, driverVars, stopped, stopErr>>

ScanStart ==
  /\ ~Busy /\ drv # "stopped" /\ scanning' = TRUE
  /\ UNCHANGED <<resultVars, after, config, driverVars, stopped, stopErr, tellVars>>

Scpi == StaConnect \/ StaRefused \/ StaStop \/ StaClear \/ StaState \/ ScanStart

------------------------------------------------------------------------------
(* The event loop takes the oldest event; handlers ignore what their phase  *)
(* does not wait for.                                                       *)

Got(id) == events # <<>> /\ Head(events).id = id
Take == events' = Tail(events)
Ignore == UNCHANGED <<resultVars, drv, net, lease>>

\* sta_event_handler: the driver is restarted once it has stopped.
Restarts == drv' = "idle" /\ UNCHANGED net
StaStopped ==
  /\ Got("STOP") /\ Take /\ UNCHANGED lease
  /\ \/ phase = "SWITCHING" /\ BeginConnect("idle", config)
     \/ phase = "DRAINING" /\ Restarts /\ Finish(after, reason)
     \/ phase \in {"SWITCHING", "DRAINING"} /\ UNCHANGED <<drv, net>>
        /\ Finish("ERROR", "other")
     \/ phase \notin {"SWITCHING", "DRAINING"}
        /\ UNCHANGED <<resultVars, drv, net>>

Connected ==
  /\ Got("CONNECTED") /\ Take
  /\ \/ /\ phase = "CONNECTING" /\ phase' = "DHCP" /\ deadline' = "running"
        /\ UNCHANGED <<state, result, reason, ip, drv, net, lease>>
     \/ phase # "CONNECTING" /\ Ignore

\* A connection that was up is tried once more, an attempt fails, and one that
\* found no access point is repeated within its deadline.
Why == Head(events).reason
MayRetry == phase = "CONNECTING" /\ Why = "no_ap" /\ deadline = "running"
Named(why) == CASE why = "no_ap"   -> "AP_NOT_FOUND"
                [] why = "timeout" -> "TIMEOUT"
                [] why = "auth"    -> "AUTH_FAILED"
                [] OTHER           -> "DISCONNECTED"
Disconnected ==
  /\ Got("DISCONNECTED") /\ Take /\ UNCHANGED lease
  /\ \/ phase = "ONLINE" /\ BeginConnect(drv, config)
     \/ /\ MayRetry /\ Joins(drv, config) /\ reason' = Why /\ ip' = "none"
        /\ UNCHANGED <<phase, state, result, deadline>>
     \/ MayRetry /\ UNCHANGED <<drv, net>> /\ Finish("ERROR", "other")
     \/ /\ phase \in {"CONNECTING", "DHCP"} /\ ~MayRetry
        /\ Finish(Named(Why), Why) /\ UNCHANGED <<drv, net>>
     \/ /\ phase \notin {"ONLINE", "CONNECTING", "DHCP"} /\ ip' = "none"
        /\ UNCHANGED <<phase, state, result, reason, deadline, drv, net>>

GotIp ==
  /\ Got("GOT_IP") /\ Take
  /\ \/ /\ phase = "DHCP"
        /\ phase' = "ONLINE" /\ state' = "DONE" /\ result' = "CONNECTED"
        /\ reason' = "none" /\ ip' = "leased" /\ deadline' = "none"
        /\ UNCHANGED <<drv, net, lease>>
     \/ phase # "DHCP" /\ Ignore

LostIp ==
  /\ Got("LOST_IP") /\ Take
  /\ \/ /\ phase = "ONLINE"
        /\ phase' = "DHCP" /\ state' = "RUNNING" /\ result' = "NONE"
        /\ ip' = "none" /\ deadline' = "running"
        /\ UNCHANGED <<reason, drv, net, lease>>
     \/ phase # "ONLINE" /\ Ignore

ScanDone ==
  /\ Got("SCAN_DONE") /\ Take /\ scanning' = FALSE /\ Ignore
  /\ UNCHANGED <<after, config, stopped, stopErr, tellVars>>

EventLoop ==
  \/ /\ StaStopped \/ Connected \/ Disconnected \/ GotIp \/ LostIp
     /\ UNCHANGED <<after, config, scanning, stopped, stopErr, tellVars>>
  \/ ScanDone

------------------------------------------------------------------------------
(* The timer, and time *)

DeadlinePasses ==
  /\ deadline = "running" /\ deadline' = "due"
  /\ UNCHANGED <<phase, state, result, reason, ip, after, config, scanning, driverVars,
                 stopped, stopErr, tellVars>>

Late == IF phase = "DHCP" THEN "DHCP_TIMEOUT"
        ELSE IF reason = "no_ap" THEN "AP_NOT_FOUND" ELSE "TIMEOUT"
DeadlineHandlerJoining ==  \* fault: the wait for an address is unbounded
  /\ deadline = "due" /\ phase = "CONNECTING" /\ DisconnectFor(Late)
  /\ UNCHANGED <<config, scanning, stopped, tellVars>>
DeadlineHandler ==
  /\ deadline = "due" /\ DisconnectFor(Late)
  /\ UNCHANGED <<config, scanning, stopped, tellVars>>

------------------------------------------------------------------------------
(* The driver and the network (external) *)

Post(e) == Len(events) < MaxEvents /\ events' = Append(events, e)

DrvConnects == drv = "connecting" /\ drv' = "up" /\ Post(Ev("CONNECTED")) /\ UNCHANGED <<net, lease>>
DrvFails ==
  /\ drv \in {"connecting", "up"} /\ drv' = "idle" /\ net' = NoConfig
  /\ \E why \in Reasons : Post([id |-> "DISCONNECTED", reason |-> why])
  /\ lease' = (IF lease = "held" THEN "lost" ELSE lease)
DrvLeases == drv = "up" /\ lease # "held" /\ lease' = "held" /\ Post(Ev("GOT_IP")) /\ UNCHANGED <<drv, net>>
DrvLosesLease == lease = "held" /\ lease' = "lost" /\ UNCHANGED <<drv, net, events>>
LeaseTimer == lease = "lost" /\ lease' = "none" /\ Post(Ev("LOST_IP")) /\ UNCHANGED <<drv, net>>
DrvScanned ==
  /\ scanning /\ (\A i \in DOMAIN events : events[i].id # "SCAN_DONE")
  /\ Post(Ev("SCAN_DONE")) /\ UNCHANGED <<drv, net, lease>>

Driver ==
  /\ DrvConnects \/ DrvFails \/ DrvLeases \/ DrvLosesLease \/ LeaseTimer \/ DrvScanned
  /\ UNCHANGED <<resultVars, after, config, scanning, stopped, stopErr, tellVars>>

WifiNext == Scpi \/ EventLoop \/ DeadlinePasses \/ DeadlineHandler \/ Driver

WifiSpec == WifiInit /\ [][WifiNext]_wifiVars

\* The event loop and the timer task run, and time passes.  Neither the access
\* point nor the host has to do anything.
WifiFairSpec ==
  /\ WifiSpec
  /\ WF_wifiVars(EventLoop) /\ WF_wifiVars(DeadlinePasses) /\ WF_wifiVars(DeadlineHandler)

------------------------------------------------------------------------------
JobTypeOK ==
  /\ phase \in Phase /\ state \in {"IDLE", "RUNNING", "DONE", "FAILED"}
  /\ result \in Failures \cup {"NONE", "STOPPED", "CONNECTED"}
  /\ reason \in Reasons \cup {"none"} /\ ip \in {"none", "leased"}
  /\ deadline \in {"none", "running", "due"}
  /\ after \in {"STOPPED", "TIMEOUT", "DHCP_TIMEOUT", "AP_NOT_FOUND"} /\ told \in 0..2
DriverTypeOK ==
  /\ config \in Config \cup {NoConfig} /\ scanning \in BOOLEAN
  /\ drv \in {"stopped", "idle", "connecting", "up"}
  /\ net \in Config \cup {NoConfig} /\ lease \in {"none", "held", "lost"}
  /\ events \in Seq(Event)
FlagTypeOK ==
  /\ reported \in BOOLEAN /\ polled \in BOOLEAN
  /\ stopped \in BOOLEAN /\ stopErr \in BOOLEAN

\* Every variable keeps its type; the results are those FETCh? documents.
WifiTypeOK == JobTypeOK /\ DriverTypeOK /\ FlagTypeOK

\* What the host reads agrees with what the job does, in every handler of every
\* context: RUNNING exactly during an attempt, DONE with an address exactly
\* while online, a failure with its cause.
ResultMatchesPhase ==
  /\ state = "RUNNING" <=> phase \in Attempt
  /\ state = "DONE" <=> phase = "ONLINE"
  /\ ip # "none" <=> phase = "ONLINE"
  /\ state = "DONE" => result = "CONNECTED"
  /\ state = "FAILED" => result \in Failures
  /\ state = "IDLE" => result \in {"NONE", "STOPPED"}

\* Exactly the two waits for the air are bounded by a deadline: none is left
\* armed when the job ends (it would stop a later one), none is missing.
DeadlineMatchesPhase == deadline # "none" <=> phase \in {"CONNECTING", "DHCP"}

\* The job's three records of itself, its phase, its result and its deadline,
\* agree in every handler of every context.
JobConsistent == ResultMatchesPhase /\ DeadlineMatchesPhase

\* A STOP once accepted wins over every event and timeout still to come: the
\* job never goes online again before the next STARt.
StopWins ==
  stopped => /\ phase \in {"OFFLINE", "DRAINING"}
             /\ phase = "DRAINING" => after = "STOPPED"

\* DONE is reported for the credentials last accepted, never for an earlier
\* network's events.
OnlineIsAsked == phase = "ONLINE" /\ drv = "up" => net = config

\* No old events leak: unless esp_wifi_stop failed, the job that says it is
\* offline has no connection open or on its way.
OfflineMeansDown == phase = "OFFLINE" /\ ~stopErr => drv \in {"idle", "stopped"}

\* No event or connection of an earlier job shows through in a later one.
NoOldConnection == OnlineIsAsked /\ OfflineMeansDown

\* A failed job queues its error once, when STATe? is queried.
FailureToldOnce == state = "FAILED" /\ polled => told = 1

\* Every attempt ends, whatever the access point does or does not do.
AttemptsEnd == state = "RUNNING" ~> state # "RUNNING"
=============================================================================
