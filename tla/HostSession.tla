---------------------------- MODULE HostSession ----------------------------
(***************************************************************************)
(* The host tool of host/rust: one invocation after the other opens a      *)
(* session (session.rs), runs a workflow of the descriptor (workflow.rs)   *)
(* or the lines a user types (cmd_send, cmd_repl), and ends.  Requests     *)
(* wait in "wire" and replies in "back" while the other side is busy.      *)
(*                                                                         *)
(* The device executes one message at a time.  Of its commands only what   *)
(* the host relies on is here: the error queue, and one job with its       *)
(* state word.  Over TCP a session's end clears the queue; over USBTMC     *)
(* nothing tells the device that another invocation has begun.             *)
(***************************************************************************)
EXTENDS Integers, Sequences, SequencesExt

CONSTANTS
  MaxRuns,     \* bound of the exploration: invocations
  MaxErrors,   \* the length of libscpi's error queue
  MaxDrain,    \* most errors drain_errors collects (64)
  MaxWaiting   \* bound of the exploration: requests and replies left behind

ASSUME HostAssumption ==
  /\ {MaxRuns, MaxErrors, MaxDrain, MaxWaiting} \subseteq Nat \ {0}
  /\ MaxErrors < MaxDrain

VARIABLES
  link,          \* "tcp" or "usb"
  runs, kind,    \* number of the invocation, and what it is
  at,            \* what the host is waiting for
  errs,          \* errors collected so far
  prev, late,    \* prev_state; the deadline has passed
  slow,          \* a read of this session has timed out (history)
  outcome,       \* what the invocation told its user
  wire, back,    \* requests and replies on their way
  errq, job      \* the device: its error queue, its job

hostVars    == <<link, runs, kind, at, errs, prev, late, slow, outcome>>
deviceVars  == <<errq, job>>
sessionVars == <<hostVars, wire, back, deviceVars>>

NoError    == [kind |-> "none", by |-> 0]
NoOutcome  == [kind |-> "none", by |-> 0, errs |-> <<>>]
Request(op) == [op |-> op, does |-> "output", by |-> runs, due |-> TRUE]
Silent(op)  == [op |-> op, does |-> "output", by |-> runs, due |-> FALSE]
Line(does)  == [op |-> "checked", does |-> does, by |-> runs, due |-> TRUE]
Undue(s)    == [i \in DOMAIN s |-> [s[i] EXCEPT !.due = FALSE]]

HostInit ==
  /\ link \in {"tcp", "usb"}
  /\ runs = 0 /\ kind = "repl" /\ at = "closed" /\ errs = <<>>
  /\ prev = "none" /\ late = FALSE /\ slow = FALSE /\ outcome = NoOutcome
  /\ wire = <<>> /\ back = <<>>
  /\ errq = <<>> /\ job = [word |-> "IDLE", by |-> 0, told |-> FALSE]

------------------------------------------------------------------------------
(* The device. *)

\* SCPI_ErrorPush: a full queue ends in its overflow error.
Push(q, e) ==
  IF Len(q) < MaxErrors THEN Append(q, e)
  ELSE [q EXCEPT ![MaxErrors] = [kind |-> "overflow", by |-> e.by]]

Oldest(q)    == IF q = <<>> THEN NoError ELSE Head(q)
WithoutOldest(q) == IF q = <<>> THEN q ELSE Tail(q)
Reply(m, is, e) == [is |-> is, kind |-> e.kind, by |-> e.by, due |-> m.due]

\* Replies reach the session that asked, while it lasts.
Answer(m, replies) ==
  back' = IF m.by = runs /\ at # "closed" THEN back \o replies ELSE back

\* *CLS;<cmd>;:SYSTem:ERRor?
ExecuteChecked(m) ==
  LET q == IF m.does = "error" THEN <<[kind |-> "failed", by |-> m.by]>> ELSE <<>>
  IN /\ errq' = WithoutOldest(q) /\ UNCHANGED job
     /\ Answer(m, (IF m.does = "output" THEN <<Reply(m, "output", NoError)>> ELSE <<>>)
                    \o <<Reply(m, "entry", Oldest(q))>>)

ExecuteError(m) ==
  /\ Answer(m, <<Reply(m, "entry", Oldest(errq))>>)
  /\ errq' = WithoutOldest(errq) /\ UNCHANGED job

\* <job>:STARt, which a job may refuse: in progress, or in conflict.
ExecuteStart(m) ==
  /\ \/ job' = [word |-> "RUNNING", by |-> m.by, told |-> FALSE] /\ UNCHANGED errq
     \/ errq' = Push(errq, [kind |-> "refusal", by |-> m.by]) /\ UNCHANGED job
  /\ UNCHANGED back

\* <job>:STATe?, whose first FAILED queues the reason.
ExecuteState(m) ==
  LET tells == job.word = "FAILED" /\ ~job.told
  IN /\ errq' = IF tells THEN Push(errq, [kind |-> "reason", by |-> job.by]) ELSE errq
     /\ job' = [job EXCEPT !.told = @ \/ tells]
     /\ Answer(m, <<Reply(m, "word", [kind |-> job.word, by |-> job.by])>>)

\* COUNt?, FETCh? and the other queries about the job.
ExecuteQuery(m) ==
  /\ Answer(m, <<Reply(m, "row", [kind |-> "row", by |-> job.by])>>)
  /\ UNCHANGED deviceVars

\* The answer to a prompt, refused when nothing is asked any more.
ExecuteAnswer(m) ==
  /\ IF job.word = "PASSKEY"
     THEN job' = [job EXCEPT !.word = "RUNNING"] /\ UNCHANGED errq
     ELSE errq' = Push(errq, [kind |-> "failed", by |-> m.by]) /\ UNCHANGED job
  /\ UNCHANGED back

\* recv() tells the server that the client is gone.
ExecuteHangup == errq' = <<>> /\ UNCHANGED <<back, job>>

Execute ==
  /\ wire # <<>> /\ wire' = Tail(wire) /\ UNCHANGED hostVars
  /\ LET m == Head(wire)
     IN \/ m.op = "checked" /\ ExecuteChecked(m)
        \/ m.op = "error?"  /\ ExecuteError(m)
        \/ m.op = "start"   /\ ExecuteStart(m)
        \/ m.op = "state?"  /\ ExecuteState(m)
        \/ m.op = "query"   /\ ExecuteQuery(m)
        \/ m.op = "answer"  /\ ExecuteAnswer(m)
        \/ m.op = "hangup"  /\ ExecuteHangup

\* A job goes on by itself.
JobMoves ==
  /\ \/ job.word = "RUNNING" /\ \E w \in {"DONE", "FAILED", "PASSKEY"} : job' = [job EXCEPT !.word = w]
     \/ job.word = "PASSKEY" /\ job' = [job EXCEPT !.word = "FAILED"]
  /\ UNCHANGED <<hostVars, wire, back, errq>>

------------------------------------------------------------------------------
(* The host. *)

\* The process ends and its socket closes; what the server has not yet
\* received of "sent" may be lost.
Finish(sent, said) ==
  /\ at' = "closed" /\ outcome' = said /\ back' = <<>>
  /\ IF link = "usb" THEN wire' = sent
     ELSE \E n \in 0..Len(sent) :
            wire' = Append(SubSeq(sent, 1, n), Silent("hangup"))
  /\ errs' = <<>> /\ prev' = "none" /\ late' = FALSE
  /\ UNCHANGED <<link, runs, kind, slow, deviceVars>>

Says(what, list, by) == [kind |-> what, by |-> by, errs |-> list]
Move(where, list) ==
  /\ at' = where /\ errs' = list
  /\ UNCHANGED <<link, runs, kind, late, slow, outcome, deviceVars>>

\* What is sent makes every earlier request, and its reply, one that nobody
\* waits for any more.
Send(old, reqs) == wire' = Undue(wire) \o reqs /\ back' = Undue(old)

\* An invocation connects.  A workflow reads the descriptor first.
Open ==
  /\ at = "closed" /\ runs < MaxRuns /\ Len(wire) < MaxWaiting
  /\ runs' = runs + 1 /\ outcome' = NoOutcome /\ slow' = FALSE
  /\ \/ kind' = "repl" /\ at' = "line" /\ UNCHANGED wire
     \/ /\ kind' \in {"fetch", "interactive"} /\ at' = "describe"
        /\ wire' = Append(wire, Line("output")')
  /\ UNCHANGED <<link, errs, prev, late, back, deviceVars>>

\* cmd_send, or a line of cmd_repl: a checked command, or the error query.
TypeLine ==
  /\ at = "line" /\ Len(wire) + Len(back) < MaxWaiting /\ UNCHANGED prev
  /\ \/ \E does \in {"output", "nothing", "error"} :
          Send(back, <<Line(does)>>) /\ Move("checked", <<>>)
     \/ Send(back, <<Request("error?")>>) /\ Move("asked", <<>>)
Quit == at = "line" /\ Finish(wire, Says("done", <<>>, 0))

\* The next item of the stream, and what is left when it is taken.
Reading(where) == at \in where /\ back # <<>>
Item == Head(back)
Left == Tail(back)
Keep == wire' = wire /\ back' = Left

NoMore    == Item.is = "entry" /\ Item.kind = "none"
Collected == IF NoMore THEN errs ELSE Append(errs, [kind |-> Item.kind, by |-> Item.by])
\* send_checked drains behind the error it already has.
Most      == IF at = "drain" THEN MaxDrain + 1 ELSE MaxDrain
Drained   == NoMore \/ Len(Collected) >= Most

\* The next SYSTem:ERRor? of drain_errors.
DrainOn(where) ==
  /\ Send(Left, <<Request("error?")>>) /\ Move(where, Collected) /\ UNCHANGED prev

FirstItemEnters == TRUE  \* fault: whatever comes first ends the read
\* send_checked reads on until an item is an error entry.
Entered == Item.is = "entry"

ReadChecked ==
  /\ Reading({"describe", "checked"})
  /\ \/ ~Entered /\ Keep /\ UNCHANGED <<hostVars, deviceVars>>
     \/ Entered /\ ~NoMore /\ DrainOn("drain")
     \/ /\ Entered /\ NoMore /\ at = "checked"
        /\ Keep /\ Move("line", <<>>) /\ UNCHANGED prev
     \/ \* the workflow's trigger, and the first query of check_trigger_accepted
        /\ Entered /\ NoMore /\ at = "describe"
        /\ Send(Left, <<Silent("start"), Request("error?")>>)
        /\ Move("check", <<>>) /\ UNCHANGED prev

\* The error query of a line prints whatever comes.
ReadAsked ==
  Reading({"asked"}) /\ Keep /\ Move("line", <<>>) /\ UNCHANGED prev

\* Only lines get here: a descriptor is served without an error.
ReadDrain ==
  /\ Reading({"drain"})
  /\ \/ Drained /\ Keep /\ Move("line", Collected) /\ UNCHANGED prev
     \/ ~Drained /\ DrainOn("drain")

NeverRejected == FALSE  \* fault: the trigger goes unchecked
\* check_trigger_accepted, and the first poll.
Rejected == Collected # <<>>
ReadCheck ==
  /\ Reading({"check"})
  /\ \/ ~Drained /\ DrainOn("check")
     \/ Drained /\ Rejected /\ Finish(wire, Says("rejected", Collected, 0))
     \/ /\ Drained /\ ~Rejected /\ UNCHANGED prev
        /\ Send(Left, <<Request("state?")>>) /\ Move("poll", <<>>)

NeverExpired == FALSE  \* fault: nothing ends the polling
\* The deadline is looked at after an answer that settles nothing.
Expired == late

\* An answer that changes nothing, or one that prompts the user.
Prompts == kind = "interactive" /\ Item.kind = "PASSKEY" /\ prev # "PASSKEY"
ReadPoll ==
  /\ Reading({"poll"})
  /\ \/ /\ Item.kind = "DONE" /\ Send(Left, <<Request("query")>>)
        /\ Move("row", <<>>) /\ UNCHANGED prev
     \/ /\ Item.kind = "FAILED" /\ Send(Left, <<Request("error?")>>)
        /\ Move("why", <<>>) /\ UNCHANGED prev
     \/ /\ Item.kind \notin {"DONE", "FAILED"} /\ Prompts
        /\ Keep /\ Move("prompt", <<>>) /\ prev' = Item.kind
     \/ /\ Item.kind \notin {"DONE", "FAILED"} /\ ~Prompts /\ Expired
        /\ Finish(wire, Says("timeout", <<>>, 0))
     \/ /\ Item.kind \notin {"DONE", "FAILED"} /\ ~Prompts /\ ~Expired
        /\ Send(Left, <<Request("state?")>>) /\ Move("poll", <<>>) /\ prev' = Item.kind

\* handle_prompt: the user answers, or says no, which ends the workflow.
HandlePrompt ==
  /\ at = "prompt" /\ UNCHANGED prev
  /\ \/ ~Expired /\ Send(back, <<Silent("answer"), Request("state?")>>) /\ Move("poll", <<>>)
     \/ Send(back, <<Silent("answer"), Request("error?")>>) /\ Move("no", <<>>)
PromptExpired ==
  /\ at = "prompt" /\ Expired
  /\ Finish(Append(wire, Silent("answer")), Says("timeout", <<>>, 0))

\* job_failed collects the reasons.
ReadWhy ==
  /\ Reading({"why", "no"})
  /\ \/ ~Drained /\ DrainOn(at)
     \/ /\ Drained
        /\ Finish(wire, Says(IF at = "no" THEN "declined" ELSE "failed", Collected, 0))

\* The count and the rows, or the result: all of one job.
ReadRow == Reading({"row"}) /\ Finish(wire, Says("results", <<>>, Item.by))

\* The transport's read timeout.  The next line of a REPL goes on in spite
\* of it; job_failed makes do without the reasons.
ReadTimesOut ==
  /\ at \notin {"closed", "line", "prompt"} /\ back = <<>>
  /\ IF kind = "repl"
     THEN /\ at' = "line" /\ errs' = <<>> /\ slow' = TRUE
          /\ UNCHANGED <<link, runs, kind, prev, late, outcome, wire, back, deviceVars>>
     ELSE Finish(wire, Says("error", <<>>, 0))

Expire ==
  /\ at \in {"poll", "prompt"} /\ ~late /\ late' = TRUE
  /\ UNCHANGED <<link, runs, kind, at, errs, prev, slow, outcome, wire, back, deviceVars>>

Continue ==
  \/ ReadChecked \/ ReadAsked \/ ReadDrain \/ ReadCheck \/ ReadPoll
  \/ HandlePrompt \/ PromptExpired \/ ReadWhy \/ ReadRow \/ ReadTimesOut

HostNext == Open \/ TypeLine \/ Quit \/ Continue \/ Expire \/ Execute \/ JobMoves

\* A read returns or times out, time passes, a prompted user answers; the
\* device owes nothing.
HostSpec ==
  HostInit /\ [][HostNext]_sessionVars
  /\ WF_sessionVars(Continue) /\ WF_sessionVars(Expire)

------------------------------------------------------------------------------
\* Every variable keeps its type.
Error == [kind : {"failed", "refusal", "reason", "overflow", "output", "none"}, by : 0..MaxRuns]
HostTypeOK ==
  /\ link \in {"tcp", "usb"} /\ runs \in 0..MaxRuns
  /\ kind \in {"repl", "fetch", "interactive"} /\ late \in BOOLEAN /\ slow \in BOOLEAN
  /\ at \in {"closed", "line", "describe", "checked", "asked", "drain", "check",
             "poll", "prompt", "why", "no", "row"}
  /\ errs \in Seq(Error) /\ Len(errs) <= MaxDrain + 1 /\ errq \in Seq(Error) /\ Len(errq) <= MaxErrors

\* A reply is read by the query that asked for it: a trigger and an answer
\* get none, a command of a line may print and one that fails prints nothing,
\* and a line's last item is the error entry (session.rs, "Do not add a read
\* here").  It holds until a read times out; a REPL that goes on then reads
\* every answer one line late, until it quits.
AnswersItsCommand == ~slow => \A i \in DOMAIN back : back[i].due

\* Requests and replies stay paired, and every list within its bound.
SessionInStep == HostTypeOK /\ AnswersItsCommand

\* What the user is told is about the user's own command.  "rejected" names
\* the refusal of the workflow's own trigger and not an error an earlier
\* invocation left in the queue; results are of the job its trigger started
\* and not of one that an earlier invocation left DONE; a job that failed
\* comes with the reason it failed; and the errors printed after a line are
\* that line's (check_trigger_accepted, job_failed, send_checked's *CLS).
OutcomeIsTrue ==
  /\ at = "line" /\ ~slow => errs \in {<<>>, <<[kind |-> "failed", by |-> runs]>>}
  /\ outcome.kind = "rejected" => Head(outcome.errs) = [kind |-> "refusal", by |-> runs]
  /\ outcome.kind = "results"  => outcome.by = runs
  /\ outcome.kind = "failed"   =>
       \E i \in DOMAIN outcome.errs :
          outcome.errs[i] \in {[kind |-> k, by |-> runs] : k \in {"reason", "overflow"}}

\* A workflow ends, whatever the device answers and even if it answers
\* nothing: every read times out, every list of errors is cut off and the
\* polling has its deadline.
WorkflowEnds == (kind # "repl" /\ at # "closed") ~> (at = "closed")
=============================================================================
