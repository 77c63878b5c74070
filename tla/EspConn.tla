------------------------------ MODULE EspConn -------------------------------
(***************************************************************************)
(* Connecting and pairing in the ESP32-S3 application (ble_conn.c): the    *)
(* callbacks on the NimBLE host task and the commands of both SCPI         *)
(* contexts share volatile variables, without a lock.                      *)
(***************************************************************************)
EXTENDS NimbleGap

CONSTANT NoHandle

ASSUME NoHandleAssumption == NoHandle \notin Handle

VARIABLES
  connState, pairState,   \* s_conn_state, s_pair_state
  connHandle, autoPair,   \* s_conn_handle, s_auto_pair
  connPair,               \* s_conn_pair: the job is one that pairs
  cpc, arms               \* where each context is in a command; it is a connect
                          \* that arms the pairing

stateVars == <<connState, pairState, connHandle, autoPair>>
connVars  == <<stateVars, connPair, cpc, arms>>

ConnPc == {"idle", "state", "call", "failed", "arm", "initiate", "unpaired", "keyed", "rejected"}

ConnInit ==
  /\ connState = "IDLE" /\ pairState = "IDLE" /\ connHandle = NoHandle /\ autoPair = FALSE /\ connPair = FALSE
  /\ cpc = [c \in Ctx |-> "idle"] /\ arms = [c \in Ctx |-> FALSE]

ConnTypeOK ==
  /\ connState \in {"IDLE", "CONNECTING", "CONNECTED", "FAILED"}
  /\ pairState \in {"IDLE", "PROGRESS", "INPUT_NEEDED", "DISPLAY_KEY", "NUMCMP_NEEDED", "DONE", "FAILED"}
  /\ connHandle \in Handle \cup {NoHandle} /\ autoPair \in BOOLEAN /\ connPair \in BOOLEAN
  /\ cpc \in [Ctx -> ConnPc] /\ arms \in [Ctx -> BOOLEAN]

Goes(c, from, to) == cpc[c] = from /\ cpc' = [cpc EXCEPT ![c] = to] /\ UNCHANGED <<connPair, arms>>

------------------------------------------------------------------------------
(* gap_conn_cb *)

Returns == cb' = NoCb
Kept == UNCHANGED <<disc, attempt, links, secured, connPair, cpc, arms>>

OnConnect ==
  /\ InCall("connect") /\ Returns /\ Kept
  /\ \/ /\ cb.ok /\ connHandle' = cb.arg /\ connState' = "CONNECTED" /\ autoPair' = FALSE
        /\ \/ autoPair /\ pairState' = "PROGRESS" /\ MayPair(cb.arg)
              /\ smp' = [smp EXCEPT ![cb.arg] = "begun"]
           \/ autoPair /\ pairState' = "FAILED" /\ UNCHANGED smp
           \/ ~autoPair /\ UNCHANGED <<pairState, smp>>
     \/ ~cb.ok /\ connState' = "FAILED" /\ autoPair' = FALSE /\ UNCHANGED <<connHandle, pairState, smp>>
\* Whichever link it was: a single connection is tracked.
OnDisconnect ==
  /\ InCall("disconnect") /\ Returns /\ Kept
  /\ connState' = "IDLE" /\ pairState' = "IDLE" /\ autoPair' = FALSE /\ UNCHANGED <<connHandle, smp>>
OnEncChange ==
  /\ InCall("enc") /\ Returns /\ Kept /\ pairState' = (IF cb.ok THEN "DONE" ELSE "FAILED")
  /\ UNCHANGED <<connState, connHandle, autoPair, smp>>
OnPasskeyAction ==
  /\ InCall("passkey") /\ Returns /\ Kept /\ UNCHANGED <<connState, connHandle, autoPair, smp>>
  /\ pairState' = CASE smp[cb.arg] = "input" -> "INPUT_NEEDED"
                    [] smp[cb.arg] = "compare" -> "NUMCMP_NEEDED"
                    [] OTHER -> "DISPLAY_KEY"

ConnCallback == OnConnect \/ OnDisconnect \/ OnEncChange \/ OnPasskeyAction

------------------------------------------------------------------------------
(* Commands.  The discovery is cancelled as the command begins.              *)

\* cmd_ble_connect_start notes what it is asked for; the old names of ble_conn_start
\* and ble_connpair_start, BLE:CONNect and BLE:CPAIR, do not.
Notes(pair) == connPair' \in {connPair, pair}
ConnectStart(c) ==
  /\ cpc[c] = "idle" /\ cpc' = [cpc EXCEPT ![c] = "state"]
  /\ \E pair \in BOOLEAN : arms' = [arms EXCEPT ![c] = pair] /\ Notes(pair)
  /\ disc' = "off" /\ UNCHANGED <<stateVars, attempt, links, smp, secured, cb>>
\* No such row, or no address of our own: noted all the same.
ConnectUnknown(c) ==
  /\ cpc[c] = "idle" /\ (\E pair \in BOOLEAN : Notes(pair))
  /\ UNCHANGED <<stateVars, cpc, arms, gapVars>>
ConnectState(c) ==
  /\ Goes(c, "state", "call")
  /\ connState' = "CONNECTING" /\ pairState' = "IDLE" /\ autoPair' = FALSE
  /\ UNCHANGED <<connHandle, gapVars>>
ConnectCall(c) ==
  /\ UNCHANGED stateVars
  /\ \/ /\ MayConnect /\ Goes(c, "call", IF arms[c] THEN "arm" ELSE "idle")
        /\ attempt' = TRUE /\ UNCHANGED <<disc, links, smp, secured, cb>>
     \/ Goes(c, "call", "failed") /\ UNCHANGED gapVars
RefusedUnrecorded(c) ==   \* fault: the state of a refused call is not corrected
  /\ Goes(c, "failed", "idle") /\ UNCHANGED <<stateVars, gapVars>>
ConnectFailed(c) ==
  /\ Goes(c, "failed", "idle") /\ connState' = "FAILED"
  /\ UNCHANGED <<pairState, connHandle, autoPair, gapVars>>
ConnectArm(c) ==
  /\ Goes(c, "arm", "idle") /\ autoPair' = TRUE
  /\ UNCHANGED <<connState, pairState, connHandle, gapVars>>

Pairs(c, from, to, state) ==
  /\ Goes(c, from, to) /\ pairState' = state /\ UNCHANGED <<connState, connHandle, autoPair>>

\* ble_pair_start
PairStart(c) == connState = "CONNECTED" /\ Pairs(c, "idle", "initiate", "PROGRESS") /\ UNCHANGED gapVars
PairInitiate(c) ==
  /\ UNCHANGED <<stateVars, disc, attempt, links, secured, cb>>
  /\ \/ /\ MayPair(connHandle) /\ Goes(c, "initiate", "idle")
        /\ smp' = [smp EXCEPT ![connHandle] = "begun"]
     \/ Goes(c, "initiate", "unpaired") /\ UNCHANGED smp
PairRefused(c) == Pairs(c, "unpaired", "idle", "FAILED") /\ UNCHANGED gapVars

\* ble_pair_passkey and ble_pair_confirm: the reply is taken by a link that waits
\* for it, and then written down.  A rejection ends the pairing in the call.
Answers(c, stage, to, next) ==
  /\ connHandle \in links /\ smp[connHandle] = stage /\ Goes(c, "idle", to)
  /\ smp' = [smp EXCEPT ![connHandle] = next] /\ UNCHANGED <<stateVars, disc, attempt, links, secured, cb>>
PairPasskey(c) == pairState = "INPUT_NEEDED" /\ Answers(c, "input", "keyed", "keyed")
PairConfirm(c) ==
  /\ pairState = "NUMCMP_NEEDED"
  /\ Answers(c, "compare", "keyed", "keyed") \/ Answers(c, "compare", "rejected", "none")
PairAnswered(c) ==
  /\ Pairs(c, "keyed", "idle", "PROGRESS") \/ Pairs(c, "rejected", "idle", "FAILED")
  /\ UNCHANGED gapVars

ConnCommand(c) == ConnectStart(c) \/ ConnectUnknown(c) \/ PairStart(c) \/ PairPasskey(c) \/ PairConfirm(c)
ConnThread(c) ==
  \/ ConnectState(c) \/ ConnectCall(c) \/ ConnectFailed(c) \/ ConnectArm(c)
  \/ PairInitiate(c) \/ PairRefused(c) \/ PairAnswered(c)

------------------------------------------------------------------------------
(* What the host is told *)

\* ble_connpair_state
ConnPairState ==
  IF connState # "CONNECTED" THEN connState
  ELSE CASE pairState \in {"IDLE", "PROGRESS"} -> "PAIRING"
         [] pairState = "INPUT_NEEDED" -> "PASSKEY"
         [] pairState = "NUMCMP_NEEDED" -> "CONFIRM"
         [] pairState = "DISPLAY_KEY" -> "DISPLAY"
         [] pairState \in {"DONE", "FAILED"} -> pairState

\* connect_state_word: BLE:CONNect:STATe?
ConnectStateWord ==
  LET state == IF connPair THEN ConnPairState ELSE connState
  IN CASE state \in {"CONNECTING", "PAIRING"} -> "RUNNING"
       [] state = "CONNECTED" -> "DONE"
       [] OTHER -> state

\* ble_sec_info: BLE:SEC?, the result of the workflow, and its security level.
SecFails == connState # "CONNECTED" \/ connHandle \notin links
SecLevel(authenticated, keySize) ==
  IF connHandle \notin secured THEN 1
  ELSE IF ~authenticated THEN 2
  ELSE IF keySize < 16 THEN 3 ELSE 4

------------------------------------------------------------------------------
\* What a context reads of the connection is true of the radio, whatever the two
\* contexts and the host task interleave:
\*   CONNECTING has an attempt, or a call or a callback that will end it;
AttemptBacked ==
  connState = "CONNECTING" =>
    attempt \/ InCall("connect") \/ \E c \in Ctx : cpc[c] \in {"call", "failed"}
\*   CONNECTED is of a link that is up, or whose loss the host task is told of;
ConnectedIsUp == connState = "CONNECTED" => connHandle \in links \/ InCall("disconnect")
\*   a prompt is of a pairing that waits for an answer, or just had one.
PromptIsReal ==
  /\ \A c \in Ctx : cpc[c] \notin {"keyed", "rejected"}
  /\ cb.type \notin {"enc", "disconnect", "passkey"}
  => /\ pairState = "INPUT_NEEDED" => \E h \in links : smp[h] = "input"
     /\ pairState = "NUMCMP_NEEDED" => \E h \in links : smp[h] = "compare"
\*   DONE, of a pairing, is of a link that is encrypted.
DoneIsSecured == pairState = "DONE" => secured # {} \/ InCall("disconnect")
RadioIsSo == AttemptBacked /\ ConnectedIsUp /\ PromptIsReal /\ DoneIsSecured
\*   The word has an attempt or a link behind it, and what a job that pairs has done,
\*   with no second link about, is a link BLE:SEC? calls encrypted.
WordIsTrue ==
  ~InCall("disconnect") =>
    /\ ConnectStateWord = "RUNNING" =>
         \/ attempt \/ InCall("connect") \/ \E c \in Ctx : cpc[c] \in {"call", "failed"}
         \/ connHandle \in links
    /\ ConnectStateWord \in {"PASSKEY", "CONFIRM", "DISPLAY", "DONE"} => ~SecFails
    /\ connPair /\ ConnectStateWord = "DONE" /\ links = {connHandle} =>
         \A authenticated \in BOOLEAN, keySize \in {7, 16} : SecLevel(authenticated, keySize) > 1
ConnectionIsTrue == RadioIsSo /\ WordIsTrue
=============================================================================
