----------------------------- MODULE HostProofs -----------------------------
(***************************************************************************)
(* The invariants of the host tool's sessions, for any number of           *)
(* invocations, errors queued and messages left behind: a reply is read by *)
(* the query that asked for it, and what the user is told is about the     *)
(* user's own command.                                                     *)
(***************************************************************************)
EXTENDS HostSession, TLAPS

Does   == {"output", "nothing", "error"}
Phrase == {"IDLE", "RUNNING", "PASSKEY", "DONE", "FAILED"}
Queued == [kind : {"failed", "refusal", "reason", "overflow"}, by : 0..MaxRuns]
Mail   == [op : {"checked", "error?", "start", "state?", "query", "answer", "hangup"},
           does : Does, by : 0..MaxRuns, due : BOOLEAN]
Kinds  == {"failed", "refusal", "reason", "overflow", "output", "none", "row"} \cup Phrase
Post   == [is : {"output", "entry", "word", "row"},
           kind : Kinds, by : 0..MaxRuns, due : BOOLEAN]

\* What travels is older than the next invocation, and a session of lines
\* asks for output and error entries only.
TrafficInv ==
  /\ wire \in Seq(Mail) /\ back \in Seq(Post)
  /\ \A i \in DOMAIN wire : wire[i].by <= runs
  /\ kind = "repl" =>
       /\ \A i \in DOMAIN wire : wire[i].by = runs => wire[i].op \in {"checked", "error?", "hangup"}
       /\ \A i \in DOMAIN back : [kind |-> back[i].kind, by |-> back[i].by] \in Error

\* The device's state is of some invocation there has been, and no queued
\* error reads as the end of the queue.
DeviceInv ==
  /\ errq \in Seq(Queued) /\ Len(errq) <= MaxErrors
  /\ job.word \in Phrase /\ job.by \in 0..runs
  /\ job = [word |-> job.word, by |-> job.by, told |-> job.told] /\ job.told \in BOOLEAN

\* Only a session of lines survives a read that timed out.
ModeInv ==
  /\ at = "closed" => back = <<>> /\ errs = <<>>
  /\ at = "checked" => errs = <<>>
  /\ at = "drain" => Len(errs) <= MaxDrain
  /\ slow => kind = "repl"
  /\ at # "closed" => (kind = "repl" <=> at \in {"line", "checked", "asked", "drain"})

------------------------------------------------------------------------------
(* Where a session is, as long as no read of it timed out.  Earlier sessions *)
(* left their requests in front of its first; from its first reply on there  *)
(* is nothing on its way but what it waits for.                              *)

Sent(reqs)    == wire = reqs /\ back = <<>>
Came(reply)   == wire = <<>> /\ back = <<reply>>
Wanted(is, e) == [is |-> is, kind |-> e.kind, by |-> e.by, due |-> TRUE]
Entry(e)      == Wanted("entry", e)
Refusal       == [kind |-> "refusal", by |-> runs]
Failure       == [kind |-> "failed", by |-> runs]
Cause(e)      == e \in {[kind |-> k, by |-> runs] : k \in {"reason", "overflow"}}
Explained(q)  == \E i \in DOMAIN q : Cause(q[i])

\* The first request of a session, behind those of others.
First(req) ==
  /\ wire # <<>> /\ wire[Len(wire)] = req /\ back = <<>>
  /\ \A i \in 1..Len(wire) - 1 : wire[i].by < runs

LineInv ==
  /\ back = <<>> /\ errs \in {<<>>, <<Failure>>}
  /\ \A i \in DOMAIN wire : wire[i].by < runs
CheckedInv(does) ==
  \/ First(Line(does))
  \/ wire = <<>> /\ errq = <<>> /\ \E e \in {NoError, Failure} :
       /\ does = "error" <=> e = Failure
       /\ back = <<Entry(e)>> \/ (does = "output" /\ back = <<Wanted("output", NoError), Entry(e)>>)
AskedInv == First(Request("error?")) \/ \E e \in Error : Came(Entry(e))
DrainInv ==
  /\ errs = <<Failure>> /\ errq = <<>>
  /\ Sent(<<Request("error?")>>) \/ Came(Entry(NoError))

\* The trigger, its refusal, and the drain that finds it.
TriggerSent    == Sent(<<Silent("start"), Request("error?")>>) /\ errq = <<>>
TriggerRefused == Sent(<<Request("error?")>>) /\ errq = <<Refusal>>
TriggerTaken   == Sent(<<Request("error?")>>) /\ errq = <<>> /\ job.by = runs /\ ~job.told
CheckInv ==
  \/ errs = <<>> /\ (TriggerSent \/ TriggerRefused \/ TriggerTaken)
  \/ errs = <<>> /\ Came(Entry(NoError)) /\ errq = <<>> /\ job.by = runs /\ ~job.told
  \/ errs = <<>> /\ Came(Entry(Refusal)) /\ errq = <<>>
  \/ errs = <<Refusal>> /\ errq = <<>> /\ (Sent(<<Request("error?")>>) \/ Came(Entry(NoError)))

\* A poll answered FAILED has queued the reason.
PollInv ==
  /\ errs = <<>> /\ job.by = runs
  /\ \/ Sent(<<Silent("answer"), Request("state?")>>) /\ ~job.told
     \/ Sent(<<Request("state?")>>) /\ ~job.told
     \/ \E w \in Phrase :
          /\ Came(Wanted("word", [kind |-> w, by |-> runs]))
          /\ w = "FAILED" => Explained(errq)
          /\ w # "FAILED" => ~job.told
PromptInv == Sent(<<>>) /\ errs = <<>> /\ job.by = runs /\ ~job.told
RowInv ==
  /\ job.by = runs
  /\ Sent(<<Request("query")>>) \/ Came(Wanted("row", [kind |-> "row", by |-> runs]))

\* What the queue held when the drain began has come or is still to come.
WhyInv ==
  \/ /\ Sent(<<Request("error?")>>) /\ Len(errs) + Len(errq) <= MaxErrors
     /\ Explained(errs) \/ Explained(errq)
  \/ \E e \in Queued :
       /\ Came(Entry(e)) /\ Len(errs) + Len(errq) < MaxErrors
       /\ Cause(e) \/ Explained(errs) \/ Explained(errq)
  \/ Came(Entry(NoError)) /\ Explained(errs)
NoInv ==
  \/ Sent(<<Silent("answer"), Request("error?")>>) \/ Sent(<<Request("error?")>>)
  \/ \E e \in Error : Came(Entry(e))

TalkInv ==
  /\ at = "line" => LineInv
  /\ at = "describe" => CheckedInv("output") /\ errs = <<>>
  /\ at = "checked" => errs = <<>> /\ \E does \in Does : CheckedInv(does)
  /\ at = "asked" => AskedInv /\ errs = <<>>
  /\ at = "drain" => DrainInv
  /\ at = "check" => CheckInv
  /\ at = "poll" => PollInv
  /\ at = "prompt" => PromptInv
  /\ at = "row" => RowInv
  /\ at = "why" => WhyInv
  /\ at = "no" => NoInv

HostInv ==
  HostTypeOK /\ TrafficInv /\ DeviceInv /\ ModeInv /\ OutcomeIsTrue /\ (~slow => TalkInv)

------------------------------------------------------------------------------
(* Lemmas. *)

LEMMA Undued ==
  ASSUME NEW s \in Seq(Mail)
  PROVE  /\ Undue(s) \in Seq(Mail) /\ Len(Undue(s)) = Len(s)
         /\ \A i \in 1..Len(s) : Undue(s)[i].by = s[i].by /\ Undue(s)[i].op = s[i].op
<1>1. \A i \in 1..Len(s) : /\ [s[i] EXCEPT !.due = FALSE] \in Mail
                           /\ [s[i] EXCEPT !.due = FALSE].by = s[i].by
                           /\ [s[i] EXCEPT !.due = FALSE].op = s[i].op
  <2>1. SUFFICES ASSUME NEW i \in 1..Len(s)
                 PROVE  /\ [s[i] EXCEPT !.due = FALSE] \in Mail
                        /\ [s[i] EXCEPT !.due = FALSE].by = s[i].by
                        /\ [s[i] EXCEPT !.due = FALSE].op = s[i].op
    OBVIOUS
  <2>2. s[i] \in Mail
    OBVIOUS
  <2> QED
    BY <2>2 DEF Mail
<1>2. DOMAIN s = 1..Len(s) /\ Len(s) \in Nat
  OBVIOUS
<1>3. Undue(s) = [i \in 1..Len(s) |-> [s[i] EXCEPT !.due = FALSE]]
  BY <1>2 DEF Undue
<1> HIDE DEF Undue, Mail
<1>4. Undue(s) \in Seq(Mail) /\ Len(Undue(s)) = Len(s)
  BY <1>1, <1>2, <1>3
<1> QED
  BY <1>1, <1>3, <1>4

LEMMA NothingUndue == Undue(<<>>) = <<>>
BY DEF Undue

LEMMA NothingPosted ==
  ASSUME NEW s \in Seq(Post)
  PROVE  s = <<>> => Undue(s) = <<>>
BY NothingUndue

\* The requests of the host are mail of the session's own.
LEMMA Requested ==
  ASSUME HostTypeOK, NEW op \in {"checked", "error?", "start", "state?", "query", "answer", "hangup"}
  PROVE  /\ Request(op) \in Mail /\ Silent(op) \in Mail
         /\ Request(op).by = runs /\ Silent(op).by = runs
         /\ Request(op).op = op /\ Silent(op).op = op
BY DEF HostTypeOK, Request, Silent, Mail, Does

LEMMA Typed ==
  ASSUME HostTypeOK, NEW does \in Does
  PROVE  /\ Line(does) \in Mail /\ Line(does).by = runs /\ Line(does).op = "checked"
         /\ Line(does).does = does
BY DEF HostTypeOK, Line, Mail, Does

LEMMA Pushed ==
  ASSUME HostAssumption, NEW q \in Seq(Queued), Len(q) <= MaxErrors, NEW e \in Queued
  PROVE  /\ Push(q, e) \in Seq(Queued) /\ Len(Push(q, e)) <= MaxErrors
         /\ q = <<>> => Push(q, e) = <<e>>
         /\ e = [kind |-> "reason", by |-> runs] => Explained(Push(q, e))
<1> DEFINE Over == [kind |-> "overflow", by |-> e.by]
<1>1. MaxErrors \in Nat \ {0} /\ Len(q) \in Nat
  BY DEF HostAssumption
<1>2. Over \in Queued
  BY DEF Queued
<1>3. CASE Len(q) < MaxErrors
  <2>1. Push(q, e) = Append(q, e)
    BY <1>3 DEF Push
  <2>2. Append(q, e) \in Seq(Queued) /\ Len(Append(q, e)) = Len(q) + 1 /\ Append(q, e)[Len(q) + 1] = e
    BY <1>1
  <2>3. e = [kind |-> "reason", by |-> runs] => Cause(e)
    BY DEF Cause
  <2> HIDE DEF Queued
  <2>4. Len(q) + 1 \in DOMAIN Append(q, e)
    BY <2>2, <1>1
  <2>5. e = [kind |-> "reason", by |-> runs] => Explained(Append(q, e))
    <3> HIDE DEF Cause
    <3> QED
      BY ONLY <2>2, <2>3, <2>4 DEF Explained
  <2>6. q = <<>> => Append(q, e) = <<e>>
    OBVIOUS
  <2> QED
    BY <2>1, <2>2, <2>5, <2>6, <1>1, <1>3
<1>4. CASE ~(Len(q) < MaxErrors)
  <2> HIDE DEF Over
  <2>1. Push(q, e) = [q EXCEPT ![MaxErrors] = Over] /\ Len(q) = MaxErrors
    BY <1>1, <1>4 DEF Push, Over
  <2> HIDE DEF Queued
  <2>2. MaxErrors \in DOMAIN q
    BY <2>1, <1>1
  <2>3. [q EXCEPT ![MaxErrors] = Over] \in Seq(Queued) /\ Len([q EXCEPT ![MaxErrors] = Over]) = Len(q)
    BY <1>1, <1>2, <2>1
  <2>4. [q EXCEPT ![MaxErrors] = Over][MaxErrors] = Over /\ MaxErrors \in DOMAIN [q EXCEPT ![MaxErrors] = Over]
    BY <2>2
  <2>5. e = [kind |-> "reason", by |-> runs] => Cause(Over)
    BY DEF Cause, Over
  <2>6. q # <<>>
    BY <2>1, <1>1
  <2> QED
    BY <2>1, <2>3, <2>4, <2>5, <2>6, <1>1 DEF Explained
<1> QED
  BY <1>3, <1>4

LEMMA TakenOff ==
  ASSUME NEW q \in Seq(Queued)
  PROVE  /\ WithoutOldest(q) \in Seq(Queued) /\ Len(WithoutOldest(q)) <= Len(q)
         /\ Oldest(q) \in Queued \cup {NoError}
         /\ q # <<>> => /\ Oldest(q) \in Queued /\ Len(WithoutOldest(q)) = Len(q) - 1
                        /\ Explained(q) => Cause(Oldest(q)) \/ Explained(WithoutOldest(q))
<1>1. CASE q = <<>>
  BY <1>1 DEF WithoutOldest, Oldest
<1>2. CASE q # <<>>
  <2> HIDE DEF Queued
  <2>1. /\ WithoutOldest(q) = Tail(q) /\ Oldest(q) = q[1]
        /\ Tail(q) \in Seq(Queued) /\ Len(Tail(q)) = Len(q) - 1 /\ Len(q) \in Nat \ {0}
        /\ q[1] \in Queued /\ \A i \in 1..Len(q) - 1 : Tail(q)[i] = q[i + 1]
    BY <1>2 DEF WithoutOldest, Oldest
  <2>2. ASSUME NEW i \in DOMAIN q, Cause(q[i]), i # 1
        PROVE  Explained(Tail(q))
    <3>1. i - 1 \in DOMAIN Tail(q) /\ Tail(q)[i - 1] = q[i]
      BY <2>1, <2>2
    <3> HIDE DEF Cause
    <3> QED
      BY <2>2, <3>1 DEF Explained
  <2>3. Explained(q) => Cause(q[1]) \/ Explained(Tail(q))
    <3> HIDE DEF Cause
    <3> QED
      BY <2>2 DEF Explained
  <2> QED
    BY <1>2, <2>1, <2>3
<1> QED
  BY <1>1, <1>2

LEMMA Joined ==
  ASSUME NEW S, NEW a \in S, NEW b \in S
  PROVE  <<a>> \o <<b>> = <<a, b>> /\ <<>> \o <<b>> = <<b>> /\ <<>> \o <<a, b>> = <<a, b>>
<1> DEFINE c == <<a>> \o <<b>>
<1>1. c \in Seq(S) /\ Len(c) = 2 /\ c[1] = a /\ c[2] = b
  OBVIOUS
<1> HIDE DEF c
<1>2. c = <<a, b>>
  BY <1>1
<1>3. <<>> \o <<b>> = <<b>> /\ <<>> \o <<a, b>> = <<a, b>>
  OBVIOUS
<1> QED
  BY <1>2, <1>3 DEF c

LEMMA QueueOfErrors == ASSUME NEW q \in Seq(Queued) PROVE q \in Seq(Error)
<1>1. \A e \in Queued : e \in Error
  BY DEF Queued, Error
<1> HIDE DEF Queued, Error
<1>2. \A i \in 1..Len(q) : q[i] \in Error
  BY <1>1
<1> QED
  BY <1>2

\* The device takes the oldest request.
LEMMA Taken ==
  ASSUME wire \in Seq(Mail), wire # <<>>
  PROVE  /\ Head(wire) = wire[1] /\ wire[1] \in Mail /\ 1 \in DOMAIN wire
         /\ Tail(wire) \in Seq(Mail) /\ Len(Tail(wire)) = Len(wire) - 1 /\ Len(wire) \in Nat \ {0}
         /\ \A i \in DOMAIN Tail(wire) : i + 1 \in DOMAIN wire /\ Tail(wire)[i] = wire[i + 1]
<1> HIDE DEF Mail
<1> QED
  OBVIOUS

LEMMA Replied ==
  ASSUME NEW m \in Mail, NEW is \in {"output", "entry", "word", "row"}, NEW e, e.kind \in Kinds, e.by \in 0..MaxRuns
  PROVE  /\ Reply(m, is, e) \in Post /\ Reply(m, is, e).is = is
         /\ Reply(m, is, e).kind = e.kind /\ Reply(m, is, e).by = e.by
         /\ m.due = TRUE => Reply(m, is, e) = Wanted(is, e)
BY DEF Mail, Post, Reply, Wanted

LEMMA EntryReplied ==
  ASSUME HostAssumption, NEW m \in Mail, NEW is \in {"output", "entry"}, NEW e \in Queued \cup {NoError}
  PROVE  Reply(m, is, e) \in Post /\ [kind |-> Reply(m, is, e).kind, by |-> Reply(m, is, e).by] \in Error
<1>1. 0 \in 0..MaxRuns
  BY DEF HostAssumption
<1>2. e.kind \in {"failed", "refusal", "reason", "overflow", "none"} /\ e.by \in 0..MaxRuns
  BY <1>1 DEF Queued, NoError
<1>3. e.kind \in Kinds
  BY <1>2 DEF Kinds
<1>4. m.due \in BOOLEAN
  BY DEF Mail
<1>5. Reply(m, is, e) \in Post /\ Reply(m, is, e).kind = e.kind /\ Reply(m, is, e).by = e.by
  BY <1>2, <1>3, <1>4 DEF Reply, Post
<1> QED
  BY <1>2, <1>5 DEF Error

\* One or two replies reach the session of the request, if any.
LEMMA Answered ==
  ASSUME TrafficInv, runs' = runs, kind' = kind, NEW m \in Mail, NEW replies \in Seq(Post), Answer(m, replies),
         (kind = "repl" /\ m.by = runs) =>
           \A i \in DOMAIN replies : [kind |-> replies[i].kind, by |-> replies[i].by] \in Error
  PROVE  /\ back' \in Seq(Post)
         /\ kind = "repl" => \A i \in DOMAIN back' : [kind |-> back'[i].kind, by |-> back'[i].by] \in Error
<1>1. CASE m.by = runs /\ at # "closed"
  <2>1. back' = back \o replies
    BY <1>1 DEF Answer
  <2>2. back \in Seq(Post) /\ (kind = "repl" => \A i \in DOMAIN back : [kind |-> back[i].kind, by |-> back[i].by] \in Error)
    BY DEF TrafficInv
  <2>3. /\ back \o replies \in Seq(Post)
        /\ \A i \in DOMAIN (back \o replies) :
             \/ i \in DOMAIN back /\ (back \o replies)[i] = back[i]
             \/ i - Len(back) \in DOMAIN replies /\ (back \o replies)[i] = replies[i - Len(back)]
    <3> HIDE DEF Post
    <3> QED
      BY <2>2
  <2> HIDE DEF Post, Error
  <2> QED
    BY <1>1, <2>1, <2>2, <2>3
<1>2. CASE ~(m.by = runs /\ at # "closed")
  BY <1>2 DEF Answer, TrafficInv
<1> QED
  BY <1>1, <1>2

LEMMA ExecuteTypes ==
  ASSUME HostAssumption, HostInv, Execute
  PROVE  HostTypeOK' /\ TrafficInv' /\ DeviceInv' /\ ModeInv' /\ OutcomeIsTrue'
<1> DEFINE m == Head(wire)
<1>1. HostTypeOK /\ TrafficInv /\ DeviceInv /\ ModeInv /\ OutcomeIsTrue
  BY DEF HostInv
<1>2. wire # <<>> /\ wire' = Tail(wire) /\ UNCHANGED hostVars
  BY DEF Execute
<1>3. UNCHANGED <<link, runs, kind, at, errs, prev, late, slow, outcome>>
  BY <1>2 DEF hostVars
<1>4. wire \in Seq(Mail) /\ (\A i \in DOMAIN wire : wire[i].by <= runs) /\ back \in Seq(Post)
  BY <1>1 DEF TrafficInv
<1>5. /\ m = wire[1] /\ m \in Mail /\ 1 \in DOMAIN wire /\ m.by <= runs
      /\ Tail(wire) \in Seq(Mail)
      /\ \A i \in DOMAIN Tail(wire) : i + 1 \in DOMAIN wire /\ Tail(wire)[i] = wire[i + 1]
  BY <1>2, <1>4, Taken
<1>6. kind = "repl" /\ m.by = runs => m.op \in {"checked", "error?", "hangup"}
  BY <1>1, <1>5 DEF TrafficInv
<1>7. /\ errq \in Seq(Queued) /\ Len(errq) <= MaxErrors
      /\ job.word \in Phrase /\ job.by \in 0..runs /\ job.told \in BOOLEAN
      /\ job = [word |-> job.word, by |-> job.by, told |-> job.told]
  BY <1>1 DEF DeviceInv
<1>8. runs \in 0..MaxRuns /\ MaxRuns \in Nat /\ MaxErrors \in Nat \ {0}
  BY <1>1 DEF HostTypeOK, HostAssumption
<1>9. m.by \in 0..runs /\ m.by \in 0..MaxRuns
  BY <1>5, <1>8 DEF Mail
<1> HIDE DEF m
<1> DEFINE Told == /\ back' \in Seq(Post)
                   /\ kind = "repl" => \A i \in DOMAIN back' : [kind |-> back'[i].kind, by |-> back'[i].by] \in Error
           Kept == /\ errq' \in Seq(Queued) /\ Len(errq') <= MaxErrors
                   /\ job'.word \in Phrase /\ job'.by \in 0..runs /\ job'.told \in BOOLEAN
                   /\ job' = [word |-> job'.word, by |-> job'.by, told |-> job'.told]
<1>10. SUFFICES Told /\ Kept
  <2>1. HostTypeOK'
    <3>1. errq' \in Seq(Error) /\ Len(errq') <= MaxErrors
      BY QueueOfErrors, <1>10
    <3> HIDE DEF Told, Kept
    <3> QED
      BY <3>1, <1>1, <1>3 DEF HostTypeOK, Error
  <2>2. TrafficInv'
    <3>1. \A i \in DOMAIN wire' : wire'[i].by <= runs
      BY <1>2, <1>4, <1>5
    <3>2. kind = "repl" => \A i \in DOMAIN wire' : wire'[i].by = runs => wire'[i].op \in {"checked", "error?", "hangup"}
      BY <1>1, <1>2, <1>5 DEF TrafficInv
    <3> HIDE DEF Kept
    <3> QED
      BY <3>1, <3>2, <1>2, <1>3, <1>5, <1>10 DEF TrafficInv, Error
  <2>3. DeviceInv'
    BY <1>3, <1>10 DEF DeviceInv
  <2>4. ModeInv'
    <3>1. at = "closed" => back' = back
      BY <1>2, <1>3 DEF Execute, ExecuteChecked, ExecuteError, ExecuteStart, ExecuteState, ExecuteQuery,
                        ExecuteAnswer, ExecuteHangup, Answer
    <3> QED
      BY <3>1, <1>1, <1>3 DEF ModeInv
  <2>5. OutcomeIsTrue'
    BY <1>1, <1>3 DEF OutcomeIsTrue
  <2> QED
    BY <2>1, <2>2, <2>3, <2>4, <2>5
<1>11. back' = back => Told
  BY <1>1 DEF TrafficInv
<1>12. UNCHANGED deviceVars => Kept
  BY <1>7 DEF deviceVars
<1>13. CASE m.op = "checked" /\ ExecuteChecked(m)
  <2> DEFINE e == [kind |-> "failed", by |-> m.by]
             q == IF m.does = "error" THEN <<e>> ELSE <<>>
             out == IF m.does = "output" THEN <<Reply(m, "output", NoError)>> ELSE <<>>
             all == out \o <<Reply(m, "entry", Oldest(q))>>
  <2>1. errq' = WithoutOldest(q) /\ job' = job /\ Answer(m, all)
    BY <1>13 DEF ExecuteChecked
  <2>2. q \in Seq(Queued) /\ Len(q) <= 1
    <3>1. e \in Queued
      BY <1>9 DEF Queued
    <3> HIDE DEF Queued, e
    <3> QED
      BY <3>1
  <2>3. errq' \in Seq(Queued) /\ Len(errq') <= 1 /\ Oldest(q) \in Queued \cup {NoError}
    <3> HIDE DEF q, Queued, all
    <3> QED
      BY <2>1, <2>2, TakenOff
  <2>4. Kept
    BY <2>1, <2>3, <1>7, <1>8
  <2>5. NoError \in Queued \cup {NoError} /\ Oldest(q) \in Queued \cup {NoError}
    BY <2>3
  <2> HIDE DEF q
  <2> DEFINE r1 == Reply(m, "output", NoError)  r2 == Reply(m, "entry", Oldest(q))
  <2>6. /\ r1 \in Post /\ [kind |-> r1.kind, by |-> r1.by] \in Error
        /\ r2 \in Post /\ [kind |-> r2.kind, by |-> r2.by] \in Error
    BY <1>5, <2>5, EntryReplied
  <2>7. all = <<r1>> \o <<r2>> \/ all = <<>> \o <<r2>>
    OBVIOUS
  <2> HIDE DEF r1, r2, Post, Error, all
  <2>8. all \in Seq(Post) /\ \A i \in DOMAIN all : [kind |-> all[i].kind, by |-> all[i].by] \in Error
    <3>1. /\ <<r1>> \o <<r2>> = <<r1, r2>> /\ <<>> \o <<r2>> = <<r2>>
      BY <2>6, Joined
    <3>2. \A i \in DOMAIN <<r1, r2>> : i = 1 \/ i = 2
      OBVIOUS
    <3>3. CASE all = <<r1, r2>>
      BY <2>6, <3>2, <3>3
    <3>4. CASE all = <<r2>>
      BY <2>6, <3>4
    <3> QED
      BY <2>7, <3>1, <3>3, <3>4
  <2>9. Told
    BY <2>1, <2>8, <1>1, <1>3, <1>5, Answered
  <2> QED
    BY <2>4, <2>9
<1>14. CASE m.op = "error?" /\ ExecuteError(m)
  <2> DEFINE r == Reply(m, "entry", Oldest(errq))
  <2>1. errq' = WithoutOldest(errq) /\ job' = job /\ Answer(m, <<r>>)
    BY <1>14 DEF ExecuteError
  <2>2. Kept
    <3>1. errq' \in Seq(Queued) /\ Len(errq') <= Len(errq) /\ Len(errq') \in Nat /\ Len(errq) \in Nat
      BY <2>1, <1>7, TakenOff
    <3> QED
      BY <3>1, <2>1, <1>7, <1>8
  <2>3. Oldest(errq) \in Queued \cup {NoError}
    BY <1>7, TakenOff
  <2>4. r \in Post /\ [kind |-> r.kind, by |-> r.by] \in Error
    BY <1>5, <2>3, EntryReplied
  <2> HIDE DEF r, Post, Error
  <2>5. <<r>> \in Seq(Post) /\ \A i \in DOMAIN <<r>> : [kind |-> <<r>>[i].kind, by |-> <<r>>[i].by] \in Error
    BY <2>4
  <2>6. Told
    BY <2>1, <2>5, <1>1, <1>3, <1>5, Answered
  <2> QED
    BY <2>2, <2>6
<1>15. CASE m.op = "start" /\ ExecuteStart(m)
  <2>1. back' = back
    BY <1>15 DEF ExecuteStart
  <2>2. CASE job' = [word |-> "RUNNING", by |-> m.by, told |-> FALSE] /\ UNCHANGED errq
    BY <2>1, <2>2, <1>7, <1>9, <1>11 DEF Phrase
  <2>3. CASE errq' = Push(errq, [kind |-> "refusal", by |-> m.by]) /\ UNCHANGED job
    <3>1. [kind |-> "refusal", by |-> m.by] \in Queued
      BY <1>9 DEF Queued
    <3> QED
      BY <2>1, <2>3, <3>1, <1>7, <1>11, Pushed
  <2> QED
    BY <2>2, <2>3, <1>15 DEF ExecuteStart
<1>16. CASE m.op = "state?" /\ ExecuteState(m)
  <2> DEFINE tells == job.word = "FAILED" /\ ~job.told
             r == Reply(m, "word", [kind |-> job.word, by |-> job.by])
  <2>1. /\ errq' = IF tells THEN Push(errq, [kind |-> "reason", by |-> job.by]) ELSE errq
        /\ job' = [job EXCEPT !.told = @ \/ tells] /\ Answer(m, <<r>>)
    BY <1>16 DEF ExecuteState
  <2>2. job.by \in 0..MaxRuns
    BY <1>7, <1>8
  <2>3. errq' \in Seq(Queued) /\ Len(errq') <= MaxErrors
    <3>1. [kind |-> "reason", by |-> job.by] \in Queued
      BY <2>2 DEF Queued
    <3> QED
      BY <2>1, <3>1, <1>7, Pushed
  <2>4. job'.word = job.word /\ job'.by = job.by /\ job'.told \in BOOLEAN
        /\ job' = [word |-> job'.word, by |-> job'.by, told |-> job'.told]
    <3>1. job' = [job EXCEPT !.told = (job.told \/ tells)]
      BY <2>1
    <3> DEFINE t == job.told \/ tells
    <3>2. t \in BOOLEAN
      OBVIOUS
    <3>3. job' = [job EXCEPT !.told = t]
      BY <3>1
    <3> HIDE DEF t
    <3> QED
      BY <3>2, <3>3, <1>7
  <2>5. r \in Post
    BY <1>5, <1>7, <2>2, Replied DEF Kinds
  <2>6. Told
    <3>1. <<r>> \in Seq(Post)
      <4> HIDE DEF r, Post
      <4> QED
        BY <2>5
    <3>2. ~(kind = "repl" /\ m.by = runs)
      BY <1>6, <1>16
    <3> HIDE DEF r
    <3> QED
      BY <2>1, <3>1, <3>2, <1>1, <1>3, <1>5, Answered
  <2> QED
    BY <2>3, <2>4, <2>6, <1>7
<1>17. CASE m.op = "query" /\ ExecuteQuery(m)
  <2> DEFINE r == Reply(m, "row", [kind |-> "row", by |-> job.by])
  <2>1. Answer(m, <<r>>) /\ UNCHANGED deviceVars
    BY <1>17 DEF ExecuteQuery
  <2>2. r \in Post
    <3>1. job.by \in 0..MaxRuns
      BY <1>7, <1>8
    <3> QED
      BY <3>1, <1>5, Replied DEF Kinds
  <2>3. Told
    <3>1. <<r>> \in Seq(Post)
      <4> HIDE DEF r, Post
      <4> QED
        BY <2>2
    <3>2. ~(kind = "repl" /\ m.by = runs)
      BY <1>6, <1>17
    <3> HIDE DEF r
    <3> QED
      BY <2>1, <3>1, <3>2, <1>1, <1>3, <1>5, Answered
  <2> QED
    BY <2>1, <2>3, <1>12
<1>18. CASE m.op = "answer" /\ ExecuteAnswer(m)
  <2>1. back' = back
    BY <1>18 DEF ExecuteAnswer
  <2>2. CASE job' = [job EXCEPT !.word = "RUNNING"] /\ UNCHANGED errq
    BY <2>1, <2>2, <1>7, <1>11 DEF Phrase
  <2>3. CASE errq' = Push(errq, [kind |-> "failed", by |-> m.by]) /\ UNCHANGED job
    <3>1. [kind |-> "failed", by |-> m.by] \in Queued
      BY <1>9 DEF Queued
    <3> QED
      BY <2>1, <2>3, <3>1, <1>7, <1>11, Pushed
  <2> QED
    BY <2>2, <2>3, <1>18 DEF ExecuteAnswer
<1>19. CASE m.op = "hangup" /\ ExecuteHangup
  BY <1>19, <1>7, <1>8, <1>11 DEF ExecuteHangup
<1> QED
  BY <1>2, <1>13, <1>14, <1>15, <1>16, <1>17, <1>18, <1>19 DEF Execute, m

------------------------------------------------------------------------------
(* The device executes a request: what the session waits for is on its way. *)

\* An older request leaves those behind it where they were.
LEMMA Behind ==
  ASSUME wire \in Seq(Mail), runs \in Int, NEW req, req.by = runs, First(req), wire' = Tail(wire), back' = back,
         Head(wire).by # runs
  PROVE  /\ wire' # <<>> /\ wire'[Len(wire')] = req /\ back' = <<>>
         /\ \A i \in 1..Len(wire') - 1 : wire'[i].by < runs
<1>1. wire # <<>> /\ wire[Len(wire)] = req /\ back = <<>> /\ \A i \in 1..Len(wire) - 1 : wire[i].by < runs
  BY DEF First
<1>2. /\ Head(wire) = wire[1] /\ Len(Tail(wire)) = Len(wire) - 1 /\ Len(wire) \in Nat \ {0}
      /\ \A i \in 1..Len(Tail(wire)) : Tail(wire)[i] = wire[i + 1]
  BY <1>1, Taken
<1>3. Len(wire) # 1
  BY <1>1, <1>2
<1> DEFINE n == Len(wire) - 1
<1>4. n \in 1..Len(Tail(wire)) /\ Tail(wire)[n] = wire[n + 1] /\ Len(Tail(wire)) = n /\ n + 1 = Len(wire)
  BY <1>2, <1>3
<1>5. \A i \in 1..n - 1 : Tail(wire)[i].by < runs
  BY <1>1, <1>2
<1> HIDE DEF n
<1> DEFINE t == Tail(wire)
<1>6. t # <<>>
  <2> HIDE DEF t
  <2>1. Len(t) # 0
    BY <1>4 DEF t
  <2> QED
    BY <2>1
<1> QED
  BY <1>1, <1>4, <1>5, <1>6

LEMMA Alone ==
  ASSUME wire \in Seq(Mail), runs \in Int, NEW req, First(req), Head(wire).by = runs
  PROVE  wire = <<req>> /\ Head(wire) = req /\ Tail(wire) = <<>>
<1>1. wire # <<>> /\ wire[Len(wire)] = req /\ \A i \in 1..Len(wire) - 1 : wire[i].by < runs
  BY DEF First
<1>2. Head(wire) = wire[1] /\ Len(wire) \in Nat \ {0}
  BY <1>1, Taken
<1>3. Len(wire) = 1
  <2>1. wire[1].by = runs
    BY <1>2
  <2>2. ~(1 \in 1..Len(wire) - 1)
    BY <1>1, <2>1
  <2> DEFINE n == Len(wire)
  <2>3. n \in Nat \ {0} /\ ~(1 \in 1..n - 1)
    BY <1>2, <2>2
  <2> HIDE DEF n
  <2>4. n = 1
    BY <2>3
  <2> QED
    BY <2>4 DEF n
<1>4. wire = <<req>>
  BY <1>1, <1>3
<1> QED
  BY <1>4

\* What every execution leaves alone.
LEMMA Executed ==
  ASSUME HostInv, Execute
  PROVE  /\ UNCHANGED <<link, runs, kind, at, errs, prev, late, slow, outcome>>
         /\ wire \in Seq(Mail) /\ wire # <<>> /\ wire' = Tail(wire) /\ runs \in Int
         /\ Head(wire).by # runs => back' = back
         /\ at # "closed" /\ Head(wire).by = runs /\ back = <<>> =>
              \A replies \in Seq(Post) : Answer(Head(wire), replies) => back' = replies
<1>1. UNCHANGED <<link, runs, kind, at, errs, prev, late, slow, outcome>>
  BY DEF Execute, hostVars
<1>2. wire \in Seq(Mail) /\ wire # <<>> /\ wire' = Tail(wire) /\ runs \in Int
  BY DEF HostInv, TrafficInv, HostTypeOK, Execute
<1>3. Head(wire).by # runs => back' = back
  BY DEF Execute, ExecuteChecked, ExecuteError, ExecuteStart, ExecuteState, ExecuteQuery, ExecuteAnswer,
         ExecuteHangup, Answer
<1>4. ASSUME at # "closed", Head(wire).by = runs, back = <<>>, NEW replies \in Seq(Post), Answer(Head(wire), replies)
      PROVE  back' = replies
  <2>1. back' = <<>> \o replies
    BY <1>4 DEF Answer
  <2> QED
    BY <2>1
<1> QED
  BY <1>1, <1>2, <1>3, <1>4

LEMMA CheckedStep ==
  ASSUME HostAssumption, HostInv, Execute, at # "closed", NEW does \in Does, CheckedInv(does)
  PROVE  CheckedInv(does)'
<1>1. /\ runs' = runs /\ at' = at /\ wire \in Seq(Mail) /\ wire # <<>> /\ wire' = Tail(wire) /\ runs \in Int
      /\ Head(wire).by # runs => back' = back
  BY Executed
<1>2. First(Line(does))
  BY <1>1 DEF CheckedInv
<1>3. Line(does)' = Line(does) /\ Failure' = Failure
  BY <1>1 DEF Line, Request, Failure
<1>4. Line(does) = [op |-> "checked", does |-> does, by |-> runs, due |-> TRUE]
  BY DEF Line
<1>5. CASE Head(wire).by # runs
  <2>1. /\ wire' # <<>> /\ wire'[Len(wire')] = Line(does) /\ back' = <<>>
        /\ \A i \in 1..Len(wire') - 1 : wire'[i].by < runs
    BY <1>1, <1>2, <1>4, <1>5, Behind
  <2> QED
    BY <2>1, <1>1, <1>3 DEF CheckedInv, First
<1>6. CASE Head(wire).by = runs
  <2> DEFINE m == Head(wire)
             e == IF does = "error" THEN Failure ELSE NoError
             q == IF does = "error" THEN <<Failure>> ELSE <<>>
             out == IF does = "output" THEN <<Wanted("output", NoError)>> ELSE <<>>
  <2>1. m = Line(does) /\ wire' = <<>> /\ back = <<>>
    BY <1>1, <1>2, <1>6, Alone DEF First
  <2>2. m.op = "checked" /\ m.does = does /\ m.by = runs /\ m.due = TRUE
    BY <2>1, <1>4
  <2>3. ExecuteChecked(m)
    BY <2>2 DEF Execute
  <2>4. q = IF m.does = "error" THEN <<[kind |-> "failed", by |-> m.by]>> ELSE <<>>
    BY <2>2 DEF Failure
  <2>5. Oldest(q) = e /\ WithoutOldest(q) = <<>>
    BY DEF Oldest, WithoutOldest
  <2>6. \A is : \A x : Reply(m, is, x) = Wanted(is, x)
    BY <2>2 DEF Reply, Wanted
  <2>7. errq' = <<>> /\ Answer(m, out \o <<Entry(e)>>)
    <3>1. /\ errq' = WithoutOldest(q)
          /\ Answer(m, (IF m.does = "output" THEN <<Reply(m, "output", NoError)>> ELSE <<>>)
                         \o <<Reply(m, "entry", Oldest(q))>>)
      BY <2>3, <2>4 DEF ExecuteChecked
    <3> QED
      BY <3>1, <2>2, <2>5, <2>6 DEF Entry
  <2>8. Wanted("output", NoError) \in Post /\ Entry(e) \in Post
    <3>1. runs \in 0..MaxRuns /\ 0 \in 0..MaxRuns
      BY DEF HostInv, HostTypeOK, HostAssumption
    <3> QED
      BY <3>1 DEF Wanted, Entry, Post, Kinds, NoError, Failure
  <2> DEFINE both == out \o <<Entry(e)>>
  <2>9. both = IF does = "output" THEN <<Wanted("output", NoError), Entry(e)>> ELSE <<Entry(e)>>
    <3> DEFINE a == Wanted("output", NoError)  b == Entry(e)
    <3>1. a \in Post /\ b \in Post
      BY <2>8
    <3> HIDE DEF a, b, Post
    <3>2. <<a>> \o <<b>> = <<a, b>> /\ <<>> \o <<b>> = <<b>>
      BY <3>1, Joined
    <3>3. out = IF does = "output" THEN <<a>> ELSE <<>>
      BY DEF a
    <3> HIDE DEF out
    <3> QED
      BY <3>2, <3>3 DEF a, b
  <2> HIDE DEF e, out, q, Post
  <2>10. both \in Seq(Post)
    <3> DEFINE a == Wanted("output", NoError)  b == Entry(e)
    <3>1. a \in Post /\ b \in Post
      BY <2>8
    <3>2. both = <<a, b>> \/ both = <<b>>
      BY <2>9
    <3> HIDE DEF a, b, both
    <3>3. <<a, b>> \in Seq(Post) /\ <<b>> \in Seq(Post)
      BY <3>1
    <3> QED
      BY <3>2, <3>3
  <2>11. back' = both
    <3> HIDE DEF both
    <3>1. Answer(m, both)
      BY <2>7 DEF both
    <3> QED
      BY <3>1, <2>1, <2>10, <1>6, Executed
  <2>12. /\ e \in {NoError, Failure} /\ (does = "error" <=> e = Failure)
    BY DEF e, NoError, Failure
  <2>13. /\ Entry(e) = [is |-> "entry", kind |-> e.kind, by |-> e.by, due |-> TRUE]
         /\ back' = <<Entry(e)>> \/ (does = "output" /\ back' = <<Wanted("output", NoError), Entry(e)>>)
    BY <2>9, <2>11 DEF Entry, Wanted
  <2> QED
    <3> HIDE DEF m
    <3> QED
      BY <2>1, <2>7, <2>9, <2>11, <2>12, <1>3 DEF CheckedInv, Entry, Wanted
<1> QED
  BY <1>5, <1>6

\* The error query is answered with the oldest error.
LEMMA EntryAnswered ==
  ASSUME HostAssumption, HostInv, Execute, at # "closed", back = <<>>, Head(wire) = Request("error?")
  PROVE  /\ errq' = WithoutOldest(errq) /\ job' = job /\ back' = <<Entry(Oldest(errq))>>
         /\ Oldest(errq) \in Queued \cup {NoError} /\ Oldest(errq) \in Error
<1> DEFINE r == Request("error?")
           m == Head(wire)
<1>1. r = [op |-> "error?", does |-> "output", by |-> runs, due |-> TRUE]
  BY DEF Request
<1>2. m = r /\ m.op = "error?" /\ m.by = runs /\ m.due = TRUE
  BY <1>1
<1>3. ExecuteError(m)
  BY <1>2 DEF Execute
<1>4. Oldest(errq) \in Queued \cup {NoError}
  BY TakenOff DEF HostInv, DeviceInv
<1>5. Reply(m, "entry", Oldest(errq)) = Entry(Oldest(errq))
  <2> HIDE DEF m
  <2> QED
    BY <1>2 DEF Reply, Entry, Wanted
<1>6. Entry(Oldest(errq)) \in Post /\ Oldest(errq) \in Error
  <2>1. 0 \in 0..MaxRuns
    BY DEF HostAssumption
  <2> QED
    BY <1>4, <2>1 DEF Entry, Wanted, Post, Kinds, Queued, Error, NoError
<1>7. <<Entry(Oldest(errq))>> \in Seq(Post) /\ Answer(m, <<Entry(Oldest(errq))>>)
  <2> HIDE DEF Post
  <2> QED
    BY <1>3, <1>5, <1>6 DEF ExecuteError
<1>8. back' = <<Entry(Oldest(errq))>>
  BY <1>2, <1>7, Executed
<1> QED
  BY <1>3, <1>4, <1>6, <1>8 DEF ExecuteError

LEMMA AskedStep ==
  ASSUME HostAssumption, HostInv, Execute, at # "closed", AskedInv
  PROVE  AskedInv'
<1> DEFINE r == Request("error?")
<1>1. /\ runs' = runs /\ at' = at /\ wire \in Seq(Mail) /\ wire # <<>> /\ wire' = Tail(wire) /\ runs \in Int
      /\ Head(wire).by # runs => back' = back
  BY Executed
<1>2. First(r)
  BY <1>1 DEF AskedInv, Came
<1>3. r' = r /\ r = [op |-> "error?", does |-> "output", by |-> runs, due |-> TRUE]
  BY <1>1 DEF Request
<1>4. CASE Head(wire).by # runs
  <2>1. /\ wire' # <<>> /\ wire'[Len(wire')] = r /\ back' = <<>>
        /\ \A i \in 1..Len(wire') - 1 : wire'[i].by < runs
    <3>1. r.by = runs
      BY <1>3
    <3> HIDE DEF r
    <3> QED
      BY <1>1, <1>2, <3>1, <1>4, Behind
  <2> QED
    BY <2>1, <1>1, <1>3 DEF AskedInv, First
<1>5. CASE Head(wire).by = runs
  <2>1. Head(wire) = r /\ wire' = <<>> /\ back = <<>>
    BY <1>1, <1>2, <1>5, Alone DEF First
  <2>2. \E e \in Error : wire' = <<>> /\ back' = <<Entry(e)>>
    BY <2>1, EntryAnswered
  <2> QED
    BY <2>2 DEF AskedInv, Came, Entry, Wanted
<1> QED
  BY <1>4, <1>5

LEMMA DrainStep ==
  ASSUME HostAssumption, HostInv, Execute, at # "closed", DrainInv
  PROVE  DrainInv'
<1>1. runs' = runs /\ errs' = errs /\ wire # <<>> /\ wire' = Tail(wire)
  BY Executed
<1>2. wire = <<Request("error?")>> /\ back = <<>> /\ errs = <<Failure>> /\ errq = <<>>
  BY <1>1 DEF DrainInv, Sent, Came
<1>3. Head(wire) = Request("error?") /\ Tail(wire) = <<>>
  BY <1>2
<1>4. errq' = WithoutOldest(errq) /\ back' = <<Entry(Oldest(errq))>>
  BY <1>2, <1>3, EntryAnswered
<1>5. WithoutOldest(errq) = <<>> /\ Oldest(errq) = NoError
  BY <1>2 DEF WithoutOldest, Oldest
<1>6. Entry(NoError)' = Entry(NoError) /\ Failure' = Failure
  BY <1>1 DEF Entry, Wanted, NoError, Failure
<1> QED
  BY <1>1, <1>2, <1>3, <1>4, <1>5, <1>6 DEF DrainInv, Came

LEMMA RowStep ==
  ASSUME HostAssumption, HostInv, Execute, at # "closed", RowInv
  PROVE  RowInv'
<1> DEFINE m == Head(wire)
           row == [kind |-> "row", by |-> runs]
<1>1. runs' = runs /\ wire # <<>> /\ wire' = Tail(wire)
  BY Executed
<1>2. wire = <<Request("query")>> /\ back = <<>> /\ job.by = runs
  BY <1>1 DEF RowInv, Sent, Came
<1>3. m = [op |-> "query", does |-> "output", by |-> runs, due |-> TRUE] /\ Tail(wire) = <<>>
  BY <1>2 DEF Request
<1>4. m.op = "query" /\ m.by = runs /\ m.due = TRUE
  BY <1>3
<1>5. ExecuteQuery(m)
  BY <1>4 DEF Execute
<1>6. Reply(m, "row", row) = Wanted("row", row)
  <2> HIDE DEF m
  <2> QED
    BY <1>4 DEF Reply, Wanted
<1>7. Answer(m, <<Wanted("row", row)>>) /\ UNCHANGED deviceVars
  <2> HIDE DEF m
  <2> QED
    BY <1>2, <1>5, <1>6 DEF ExecuteQuery
<1>8. <<Wanted("row", row)>> \in Seq(Post)
  <2>1. runs \in 0..MaxRuns
    BY DEF HostInv, HostTypeOK
  <2>2. Wanted("row", row) \in Post
    BY <2>1 DEF Wanted, Post, Kinds
  <2> HIDE DEF Post, row
  <2> QED
    BY <2>2
<1>9. back' = <<Wanted("row", row)>>
  <2> HIDE DEF row
  <2> QED
    BY <1>2, <1>4, <1>7, <1>8, Executed
<1>10. Wanted("row", row)' = Wanted("row", row)
  BY <1>1 DEF Wanted
<1> QED
  BY <1>1, <1>2, <1>3, <1>7, <1>9, <1>10 DEF RowInv, Came, deviceVars

LEMMA CheckStep ==
  ASSUME HostAssumption, HostInv, Execute, at # "closed", CheckInv
  PROVE  CheckInv'
<1>1. runs' = runs /\ errs' = errs /\ wire # <<>> /\ wire' = Tail(wire)
  BY Executed
<1>2. /\ Entry(NoError)' = Entry(NoError) /\ Entry(Refusal)' = Entry(Refusal) /\ Refusal' = Refusal
      /\ Request("error?")' = Request("error?")
  BY <1>1 DEF Entry, Wanted, NoError, Refusal, Request
<1>3. CASE TriggerSent /\ errs = <<>>
  <2> DEFINE m == Head(wire)
  <2>1. wire = <<Silent("start"), Request("error?")>> /\ back = <<>> /\ errq = <<>>
    BY <1>3 DEF TriggerSent, Sent
  <2>2. m = Silent("start") /\ Tail(wire) = <<Request("error?")>>
    BY <2>1
  <2>3. m.op = "start" /\ m.by = runs
    BY <2>2 DEF Silent
  <2>4. ExecuteStart(m)
    BY <2>3 DEF Execute
  <2> HIDE DEF m
  <2>5. wire' = <<Request("error?")>> /\ back' = <<>>
    BY <2>1, <2>2, <2>4, <1>1 DEF ExecuteStart
  <2>6. CASE job' = [word |-> "RUNNING", by |-> m.by, told |-> FALSE] /\ UNCHANGED errq
    <3>1. job'.by = runs /\ ~job'.told /\ errq' = <<>>
      BY <2>1, <2>3, <2>6
    <3> QED
      BY <3>1, <2>5, <1>1, <1>2, <1>3 DEF CheckInv, TriggerTaken, Sent
  <2>7. CASE errq' = Push(errq, [kind |-> "refusal", by |-> m.by]) /\ UNCHANGED job
    <3>1. Push(errq, Refusal) = Append(<<>>, Refusal)
      BY <2>1 DEF Push, HostAssumption
    <3>2. errq' = <<Refusal>>
      BY <3>1, <2>3, <2>7 DEF Refusal
    <3> QED
      BY <3>2, <2>5, <1>1, <1>2, <1>3 DEF CheckInv, TriggerRefused, Sent
  <2> QED
    BY <2>4, <2>6, <2>7 DEF ExecuteStart
<1> DEFINE Asked == /\ wire = <<Request("error?")>> /\ back = <<>>
                    /\ Head(wire) = Request("error?") /\ Tail(wire) = <<>>
<1>4. Asked => /\ wire' = <<>> /\ errq' = WithoutOldest(errq) /\ job' = job
               /\ back' = <<Entry(Oldest(errq))>>
  BY <1>1, EntryAnswered
<1>5. wire = <<Request("error?")>> /\ back = <<>> => Asked
  OBVIOUS
<1>6. errq = <<>> => WithoutOldest(errq) = <<>> /\ Oldest(errq) = NoError
  BY DEF WithoutOldest, Oldest
<1> HIDE DEF Asked
<1>7. CASE TriggerRefused /\ errs = <<>>
  <2>1. Asked /\ errq = <<Refusal>>
    BY <1>5, <1>7 DEF TriggerRefused, Sent
  <2>2. WithoutOldest(errq) = <<>> /\ Oldest(errq) = Refusal
    BY <2>1 DEF WithoutOldest, Oldest
  <2> QED
    BY <2>1, <2>2, <1>1, <1>2, <1>4, <1>7 DEF CheckInv, Came
<1>8. CASE TriggerTaken /\ errs = <<>>
  <2>1. Asked /\ errq = <<>> /\ job.by = runs /\ ~job.told
    BY <1>5, <1>8 DEF TriggerTaken, Sent
  <2> QED
    BY <2>1, <1>1, <1>2, <1>4, <1>6, <1>8 DEF CheckInv, Came
<1>9. CASE errs = <<Refusal>> /\ errq = <<>> /\ Sent(<<Request("error?")>>)
  <2>1. Asked /\ errq = <<>>
    BY <1>5, <1>9 DEF Sent
  <2> QED
    BY <2>1, <1>1, <1>2, <1>4, <1>6, <1>9 DEF CheckInv, Came
<1>10. \A r : ~Came(r)
  BY <1>1 DEF Came
<1> QED
  BY <1>3, <1>7, <1>8, <1>9, <1>10 DEF CheckInv

LEMMA PollStep ==
  ASSUME HostAssumption, HostInv, Execute, at # "closed", PollInv
  PROVE  PollInv'
<1> DEFINE m == Head(wire)
           state == Request("state?")
           word == [kind |-> job.word, by |-> runs]
<1>1. runs' = runs /\ errs' = errs /\ wire # <<>> /\ wire' = Tail(wire)
  BY Executed
<1>2. errs = <<>> /\ job.by = runs /\ ~job.told /\ back = <<>>
  BY <1>1 DEF PollInv, Sent, Came
<1>3. state' = state /\ state = [op |-> "state?", does |-> "output", by |-> runs, due |-> TRUE]
  BY <1>1 DEF Request
<1>4. /\ job.word \in Phrase /\ errq \in Seq(Queued) /\ Len(errq) <= MaxErrors
      /\ job = [word |-> job.word, by |-> job.by, told |-> job.told] /\ runs \in 0..MaxRuns
  BY DEF HostInv, DeviceInv, HostTypeOK
<1>5. CASE wire = <<Silent("answer"), state>>
  <2>1. m = Silent("answer") /\ Tail(wire) = <<state>>
    BY <1>5
  <2>2. m.op = "answer"
    BY <2>1 DEF Silent
  <2>3. ExecuteAnswer(m)
    BY <2>2 DEF Execute
  <2> HIDE DEF m
  <2>4. job' = [job EXCEPT !.word = "RUNNING"] \/ job' = job
    BY <2>3 DEF ExecuteAnswer
  <2>5. job'.by = runs /\ ~job'.told
    BY <2>4, <1>2, <1>4
  <2>6. wire' = <<state>> /\ back' = <<>>
    BY <2>1, <2>3, <1>1, <1>2 DEF ExecuteAnswer
  <2> QED
    BY <2>5, <2>6, <1>1, <1>2, <1>3 DEF PollInv, Sent
<1>6. CASE wire = <<state>>
  <2> DEFINE reason == [kind |-> "reason", by |-> runs]
  <2>1. m = state /\ Tail(wire) = <<>>
    BY <1>6
  <2>2. m.op = "state?" /\ m.by = runs /\ m.due = TRUE
    BY <2>1, <1>3
  <2>3. ExecuteState(m)
    BY <2>2 DEF Execute
  <2> HIDE DEF m
  <2>4. Reply(m, "word", word) = Wanted("word", word)
    BY <2>2 DEF Reply, Wanted
  <2>5. /\ job.word = "FAILED" => errq' = Push(errq, reason)
        /\ job' = [job EXCEPT !.told = @ \/ (job.word = "FAILED" /\ ~job.told)]
        /\ Answer(m, <<Wanted("word", word)>>)
    BY <2>3, <2>4, <1>2 DEF ExecuteState
  <2>6. job'.by = runs /\ (job.word # "FAILED" => ~job'.told)
    <3>1. job'.by = job.by
      BY <2>5, <1>4
    <3>2. ASSUME job.word # "FAILED" PROVE ~job'.told
      <4> DEFINE t == job.told \/ (job.word = "FAILED" /\ ~job.told)
      <4>1. t = FALSE
        BY <3>2, <1>2
      <4>2. job' = [job EXCEPT !.told = t]
        BY <2>5
      <4> HIDE DEF t
      <4>3. job' = [job EXCEPT !.told = FALSE]
        BY <4>1, <4>2
      <4> QED
        BY <4>3, <1>4
    <3> QED
      BY <3>1, <3>2, <1>2
  <2>7. job.word = "FAILED" => Explained(errq')
    <3>1. reason \in Queued
      BY <1>4 DEF Queued
    <3> QED
      BY <3>1, <2>5, <1>4, Pushed
  <2>8. <<Wanted("word", word)>> \in Seq(Post)
    <3>1. Wanted("word", word) \in Post
      BY <1>4 DEF Wanted, Post, Kinds
    <3> HIDE DEF Post, word
    <3> QED
      BY <3>1
  <2>9. back' = <<Wanted("word", word)>>
    <3> HIDE DEF word
    <3> QED
      BY <2>2, <2>5, <2>8, <1>2, Executed DEF m
  <2>10. Wanted("word", word) = [is |-> "word", kind |-> job.word, by |-> runs, due |-> TRUE]
    BY DEF Wanted
  <2>11. /\ wire' = <<>> /\ back' = <<[is |-> "word", kind |-> job.word, by |-> runs', due |-> TRUE]>>
         /\ job.word = "FAILED" => Explained(errq)'
    BY <2>1, <2>7, <2>9, <2>10, <1>1 DEF Explained, Cause
  <2> QED
    <3> HIDE DEF state, word
    <3> QED
      BY <2>6, <2>11, <1>1, <1>2, <1>4 DEF PollInv, Came, Wanted
<1> QED
  BY <1>1, <1>5, <1>6 DEF PollInv, Sent, Came

LEMMA WhyStep ==
  ASSUME HostAssumption, HostInv, Execute, at # "closed", WhyInv
  PROVE  WhyInv'
<1> DEFINE r == Request("error?")
<1>1. runs' = runs /\ errs' = errs /\ wire # <<>> /\ wire' = Tail(wire)
  BY Executed
<1>2. /\ wire = <<r>> /\ back = <<>> /\ Len(errs) + Len(errq) <= MaxErrors
      /\ Explained(errs) \/ Explained(errq)
  BY <1>1 DEF WhyInv, Sent, Came
<1>3. Head(wire) = r /\ Tail(wire) = <<>>
  BY <1>2
<1>4. wire' = <<>> /\ errq' = WithoutOldest(errq) /\ back' = <<Entry(Oldest(errq))>>
  BY <1>1, <1>2, <1>3, EntryAnswered
<1>5. \A q : Explained(q)' = Explained(q)
  BY <1>1 DEF Explained, Cause
<1>6. errq \in Seq(Queued) /\ Len(errs) \in Nat
  BY DEF HostInv, DeviceInv, HostTypeOK
<1>7. CASE errq = <<>>
  <2>1. Oldest(errq) = NoError /\ Explained(errs)
    BY <1>2, <1>7 DEF Oldest, Explained
  <2>2. Explained(errs)'
    BY <2>1, <1>1 DEF Explained, Cause
  <2> QED
    BY <2>1, <2>2, <1>4 DEF WhyInv, Came, Entry, Wanted, NoError
<1>8. CASE errq # <<>>
  <2> DEFINE e == Oldest(errq)
             rest == WithoutOldest(errq)
  <2>1. /\ e \in Queued /\ Len(rest) = Len(errq) - 1 /\ rest \in Seq(Queued)
        /\ Explained(errq) => Cause(e) \/ Explained(rest)
    BY <1>6, <1>8, TakenOff
  <2>2. Len(errs) + Len(rest) < MaxErrors
    BY <2>1, <1>2, <1>6 DEF HostAssumption
  <2> HIDE DEF e, rest
  <2>3. Cause(e) \/ Explained(errs) \/ Explained(rest)
    BY <2>1, <1>2
  <2>4. (\E k \in {"reason", "overflow"} : e = [kind |-> k, by |-> runs']) \/ Explained(errs)' \/ Explained(errq)'
    BY <2>3, <1>1, <1>4 DEF Explained, Cause, rest
  <2>5. wire' = <<>> /\ back' = <<[is |-> "entry", kind |-> e.kind, by |-> e.by, due |-> TRUE]>>
        /\ errs' = errs /\ errq' = rest
    BY <1>1, <1>4 DEF Entry, Wanted, e, rest
  <2> QED
    <3>1. \E x \in Queued :
            /\ wire' = <<>> /\ back' = <<[is |-> "entry", kind |-> x.kind, by |-> x.by, due |-> TRUE]>>
            /\ Len(errs') + Len(errq') < MaxErrors
            /\ \/ x \in {[kind |-> k, by |-> runs'] : k \in {"reason", "overflow"}}
               \/ Explained(errs)' \/ Explained(errq)'
      BY <2>1, <2>2, <2>4, <2>5
    <3> QED
      BY <3>1 DEF WhyInv, Came, Entry, Wanted, Cause
<1> QED
  BY <1>7, <1>8

LEMMA NoStep ==
  ASSUME HostAssumption, HostInv, Execute, at # "closed", NoInv
  PROVE  NoInv'
<1> DEFINE r == Request("error?")
           m == Head(wire)
<1>1. runs' = runs /\ wire # <<>> /\ wire' = Tail(wire)
  BY Executed
<1>2. back = <<>> /\ r' = r
  BY <1>1 DEF NoInv, Sent, Came, Request
<1>3. CASE wire = <<Silent("answer"), r>>
  <2>1. m = Silent("answer") /\ Tail(wire) = <<r>>
    BY <1>3
  <2>2. m.op = "answer"
    BY <2>1 DEF Silent
  <2>3. ExecuteAnswer(m)
    BY <2>2 DEF Execute
  <2>4. wire' = <<r>> /\ back' = <<>>
    BY <2>1, <2>3, <1>1, <1>2 DEF ExecuteAnswer
  <2> QED
    BY <2>4, <1>2 DEF NoInv, Sent
<1>4. CASE wire = <<r>>
  <2>1. Head(wire) = r /\ Tail(wire) = <<>>
    BY <1>4
  <2>2. \E e \in Error : wire' = <<>> /\ back' = <<Entry(e)>>
    BY <2>1, <1>1, <1>2, EntryAnswered
  <2> QED
    BY <2>2 DEF NoInv, Came, Entry, Wanted
<1> QED
  BY <1>1, <1>3, <1>4 DEF NoInv, Sent, Came

LEMMA ExecuteTalks ==
  ASSUME HostAssumption, HostInv, Execute, TalkInv
  PROVE  TalkInv'
<1>1. /\ runs' = runs /\ at' = at /\ errs' = errs /\ wire # <<>> /\ wire' = Tail(wire)
      /\ wire \in Seq(Mail) /\ runs \in Int
      /\ Head(wire).by # runs => back' = back
  BY Executed
<1>2. at = "line" => LineInv'
  <2>1. SUFFICES ASSUME at = "line" PROVE LineInv'
    OBVIOUS
  <2>2. LineInv
    BY <2>1 DEF TalkInv
  <2>3. Head(wire).by # runs
    BY <2>2, <1>1, Taken DEF LineInv
  <2>4. \A i \in DOMAIN wire' : wire'[i].by < runs
    BY <2>2, <1>1, Taken DEF LineInv
  <2>5. Failure' = Failure
    BY <1>1 DEF Failure
  <2> QED
    BY <2>2, <2>3, <2>4, <2>5, <1>1 DEF LineInv
<1>3. at = "describe" => CheckedInv("output")' /\ errs' = <<>>
  BY <1>1, CheckedStep DEF TalkInv, Does
<1>4. at = "checked" => errs' = <<>> /\ \E does \in Does : CheckedInv(does)'
  BY <1>1, CheckedStep DEF TalkInv
<1>5. at = "asked" => AskedInv' /\ errs' = <<>>
  BY <1>1, AskedStep DEF TalkInv
<1>6. (at = "drain" => DrainInv') /\ (at = "check" => CheckInv') /\ (at = "poll" => PollInv')
  BY DrainStep, CheckStep, PollStep DEF TalkInv
<1>7. at # "prompt"
  BY <1>1 DEF TalkInv, PromptInv, Sent
<1>8. (at = "row" => RowInv') /\ (at = "why" => WhyInv') /\ (at = "no" => NoInv')
  BY RowStep, WhyStep, NoStep DEF TalkInv
<1> QED
  BY <1>1, <1>2, <1>3, <1>4, <1>5, <1>6, <1>7, <1>8 DEF TalkInv

LEMMA ExecuteKeeps ==
  ASSUME HostAssumption, HostInv, Execute
  PROVE  HostInv'
<1>1. slow' = slow
  BY Executed
<1> QED
  BY <1>1, ExecuteTypes, ExecuteTalks DEF HostInv

------------------------------------------------------------------------------
(* The host moves. *)

LEMMA UnduedPost ==
  ASSUME NEW s \in Seq(Post)
  PROVE  /\ Undue(s) \in Seq(Post) /\ Len(Undue(s)) = Len(s)
         /\ \A i \in 1..Len(s) : Undue(s)[i].kind = s[i].kind /\ Undue(s)[i].by = s[i].by
<1>1. \A i \in 1..Len(s) : /\ [s[i] EXCEPT !.due = FALSE] \in Post
                           /\ [s[i] EXCEPT !.due = FALSE].by = s[i].by
                           /\ [s[i] EXCEPT !.due = FALSE].kind = s[i].kind
  <2>1. SUFFICES ASSUME NEW i \in 1..Len(s)
                 PROVE  /\ [s[i] EXCEPT !.due = FALSE] \in Post
                        /\ [s[i] EXCEPT !.due = FALSE].by = s[i].by
                        /\ [s[i] EXCEPT !.due = FALSE].kind = s[i].kind
    OBVIOUS
  <2>2. s[i] \in Post
    OBVIOUS
  <2> QED
    BY <2>2 DEF Post
<1>2. DOMAIN s = 1..Len(s) /\ Len(s) \in Nat
  OBVIOUS
<1>3. Undue(s) = [i \in 1..Len(s) |-> [s[i] EXCEPT !.due = FALSE]]
  BY <1>2 DEF Undue
<1> HIDE DEF Undue, Post
<1>4. Undue(s) \in Seq(Post) /\ Len(Undue(s)) = Len(s)
  BY <1>1, <1>2, <1>3
<1> QED
  BY <1>1, <1>3, <1>4

\* What is sent joins what is still on its way.
LEMMA SendTypes ==
  ASSUME TrafficInv, runs \in Int, UNCHANGED <<runs, kind>>, NEW old \in Seq(Post), NEW reqs \in Seq(Mail), Send(old, reqs),
         \A i \in DOMAIN reqs : reqs[i].by = runs,
         kind = "repl" => /\ \A i \in DOMAIN old : [kind |-> old[i].kind, by |-> old[i].by] \in Error
                          /\ \A i \in DOMAIN reqs : reqs[i].op \in {"checked", "error?", "hangup"}
  PROVE  TrafficInv'
<1>1. wire' = Undue(wire) \o reqs /\ back' = Undue(old)
  BY DEF Send
<1>2. /\ wire \in Seq(Mail) /\ \A i \in DOMAIN wire : wire[i].by <= runs
      /\ kind = "repl" => \A i \in DOMAIN wire : wire[i].by = runs => wire[i].op \in {"checked", "error?", "hangup"}
  BY DEF TrafficInv
<1>3. /\ Undue(wire) \in Seq(Mail) /\ Len(Undue(wire)) = Len(wire)
      /\ \A i \in 1..Len(wire) : Undue(wire)[i].by = wire[i].by /\ Undue(wire)[i].op = wire[i].op
  BY <1>2, Undued
<1>4. /\ Undue(old) \in Seq(Post) /\ Len(Undue(old)) = Len(old)
      /\ \A i \in 1..Len(old) : Undue(old)[i].kind = old[i].kind /\ Undue(old)[i].by = old[i].by
  BY UnduedPost
<1> DEFINE all == Undue(wire) \o reqs
<1>5. /\ all \in Seq(Mail)
      /\ \A i \in DOMAIN all : \/ i \in 1..Len(wire) /\ all[i] = Undue(wire)[i]
                               \/ i - Len(wire) \in DOMAIN reqs /\ all[i] = reqs[i - Len(wire)]
  <2> HIDE DEF Mail, Undue
  <2> QED
    BY <1>2, <1>3
<1> HIDE DEF all, Mail, Post, Undue
<1>6. DOMAIN wire = 1..Len(wire) /\ DOMAIN old = 1..Len(old) /\ DOMAIN Undue(old) = 1..Len(old)
  BY <1>2, <1>4
<1>7. \A i \in DOMAIN all : all[i].by <= runs
  BY <1>2, <1>3, <1>5, <1>6
<1>8. kind = "repl" => \A i \in DOMAIN all : all[i].by = runs => all[i].op \in {"checked", "error?", "hangup"}
  BY <1>2, <1>3, <1>5, <1>6
<1>9. kind = "repl" => \A i \in DOMAIN Undue(old) : [kind |-> Undue(old)[i].kind, by |-> Undue(old)[i].by] \in Error
  BY <1>4, <1>6
<1>10. wire' = all /\ back' = Undue(old)
  BY <1>1 DEF all
<1> HIDE DEF Error
<1>11. Error' = Error
  BY DEF Error
<1> QED
  BY <1>4, <1>5, <1>7, <1>8, <1>9, <1>10, <1>11 DEF TrafficInv

LEMMA TwoRequests ==
  ASSUME HostTypeOK, NEW first \in {"start", "answer"}, NEW second \in {"error?", "state?"}
  PROVE  /\ <<Silent(first), Request(second)>> \in Seq(Mail)
         /\ \A i \in DOMAIN <<Silent(first), Request(second)>> : <<Silent(first), Request(second)>>[i].by = runs
<1> DEFINE a == Silent(first)  b == Request(second)
<1>1. a \in Mail /\ b \in Mail /\ a.by = runs /\ b.by = runs
  BY Requested
<1> HIDE DEF a, b, Mail
<1>2. <<a, b>> \in Seq(Mail) /\ \A i \in DOMAIN <<a, b>> : <<a, b>>[i].by = runs
  BY <1>1
<1> QED
  BY <1>2 DEF a, b

\* With nothing on its way, what is sent is all there is.
LEMMA SentAlone ==
  ASSUME wire = <<>>, NEW old, old = <<>>, NEW reqs \in Seq(Mail), Send(old, reqs)
  PROVE  wire' = reqs /\ back' = <<>>
<1>1. wire' = <<>> \o reqs /\ back' = <<>>
  BY NothingUndue DEF Send
<1> QED
  BY <1>1

Places == {"closed", "line", "describe", "checked", "asked", "drain", "check", "poll", "prompt", "why", "no", "row"}
Lines  == {"line", "checked", "asked", "drain"}

LEMMA Moved ==
  ASSUME HostInv, NEW where \in Places \ {"closed"}, NEW list \in Seq(Error), Len(list) <= MaxDrain + 1,
         Move(where, list), at # "closed", kind = "repl" <=> where \in Lines,
         where = "checked" => list = <<>>, where = "drain" => Len(list) <= MaxDrain,
         where = "line" /\ ~slow => list \in {<<>>, <<Failure>>}
  PROVE  HostTypeOK' /\ DeviceInv' /\ ModeInv' /\ OutcomeIsTrue'
<1>1. /\ UNCHANGED <<link, runs, kind, late, slow, outcome, errq, job>>
      /\ at' = where /\ errs' = list
  BY DEF Move, deviceVars
<1>2. HostTypeOK /\ DeviceInv /\ ModeInv /\ OutcomeIsTrue
  BY DEF HostInv
<1>3. HostTypeOK'
  BY <1>1, <1>2 DEF HostTypeOK, Error, Places
<1>4. DeviceInv'
  BY <1>1, <1>2 DEF DeviceInv
<1>5. ModeInv'
  BY <1>1, <1>2 DEF ModeInv, Lines
<1>6. OutcomeIsTrue'
  BY <1>1, <1>2 DEF OutcomeIsTrue, Failure
<1> QED
  BY <1>3, <1>4, <1>5, <1>6

\* The first item that waits, and what a read collects of it.
LEMMA NextItem ==
  ASSUME HostAssumption, HostInv, back # <<>>
  PROVE  /\ Item = back[1] /\ Item \in Post /\ Left \in Seq(Post) /\ Len(Left) = Len(back) - 1
         /\ \A i \in DOMAIN Left : i + 1 \in DOMAIN back /\ Left[i] = back[i + 1]
         /\ kind = "repl" => /\ [kind |-> Item.kind, by |-> Item.by] \in Error
                             /\ \A i \in DOMAIN Left : [kind |-> Left[i].kind, by |-> Left[i].by] \in Error
<1>1. /\ back \in Seq(Post)
      /\ kind = "repl" => \A i \in DOMAIN back : [kind |-> back[i].kind, by |-> back[i].by] \in Error
  BY DEF HostInv, TrafficInv
<1>2. /\ Item = back[1] /\ Item \in Post /\ Left \in Seq(Post) /\ Len(Left) = Len(back) - 1
      /\ 1 \in DOMAIN back
      /\ \A i \in DOMAIN Left : i + 1 \in DOMAIN back /\ Left[i] = back[i + 1]
  <2> HIDE DEF Post
  <2> QED
    BY <1>1 DEF Item, Left
<1> HIDE DEF Item, Left, Error, Post
<1> QED
  BY <1>1, <1>2

LEMMA Collects ==
  ASSUME HostAssumption, HostInv, back # <<>>, [kind |-> Item.kind, by |-> Item.by] \in Error
  PROVE  Collected \in Seq(Error) /\ Len(Collected) <= Len(errs) + 1 /\ Len(errs) \in Nat /\ Len(Collected) \in Nat
<1>1. errs \in Seq(Error)
  BY DEF HostInv, HostTypeOK
<1> DEFINE e == [kind |-> Item.kind, by |-> Item.by]
<1>2. Collected = errs \/ Collected = Append(errs, e)
  BY DEF Collected
<1> HIDE DEF Error, e, Collected
<1>3. e \in Error
  BY DEF e
<1> QED
  BY SMTT(30), <1>1, <1>2, <1>3

\* A line's errors, or a workflow's, are drained one query at a time.
LEMMA DrainsOn ==
  ASSUME HostAssumption, HostInv, back # <<>>, [kind |-> Item.kind, by |-> Item.by] \in Error, at # "closed",
         ~Drained \/ errs = <<>>, NEW where \in {"drain", "check", "why", "no"}, kind = "repl" <=> where = "drain",
         DrainOn(where)
  PROVE  HostTypeOK' /\ TrafficInv' /\ DeviceInv' /\ ModeInv' /\ OutcomeIsTrue' /\ slow' = slow
<1>1. Send(Left, <<Request("error?")>>) /\ Move(where, Collected)
  BY DEF DrainOn
<1>2. /\ Collected \in Seq(Error) /\ Len(Collected) <= Len(errs) + 1 /\ Len(errs) \in Nat /\ Len(Collected) \in Nat
      /\ MaxDrain \in Nat
  BY Collects DEF HostAssumption
<1>3. Len(Collected) <= MaxDrain
  <2>1. CASE ~Drained
    BY <1>2, <2>1 DEF Drained, Most
  <2>2. CASE errs = <<>>
    BY <1>2, <2>2 DEF HostAssumption
  <2> QED
    BY <2>1, <2>2
<1>4. HostTypeOK' /\ DeviceInv' /\ ModeInv' /\ OutcomeIsTrue'
  <2> HIDE DEF Collected
  <2> QED
    BY <1>1, <1>2, <1>3, Moved DEF Places, Lines
<1>5. TrafficInv'
  <2> DEFINE r == Request("error?")
  <2>1. r \in Mail /\ r.by = runs /\ r.op = "error?"
    BY Requested DEF HostInv
  <2>2. /\ Left \in Seq(Post)
        /\ kind = "repl" => \A i \in DOMAIN Left : [kind |-> Left[i].kind, by |-> Left[i].by] \in Error
    BY NextItem
  <2>3. UNCHANGED <<runs, kind>> /\ runs \in Int /\ TrafficInv
    BY <1>1 DEF Move, HostInv, HostTypeOK
  <2> HIDE DEF r, Mail, Left
  <2>4. <<r>> \in Seq(Mail) /\ \A i \in DOMAIN <<r>> : <<r>>[i].by = runs /\ <<r>>[i].op = "error?"
    BY <2>1
  <2>5. Send(Left, <<r>>)
    BY <1>1 DEF r
  <2> QED
    BY <2>2, <2>3, <2>4, <2>5, SendTypes
<1> QED
  BY <1>1, <1>4, <1>5 DEF Move

LEMMA Finished ==
  ASSUME HostAssumption, HostInv, NEW sent \in Seq(Mail), NEW said,
         \A i \in DOMAIN sent : sent[i].by <= runs,
         kind = "repl" => \A i \in DOMAIN sent : sent[i].by = runs => sent[i].op \in {"checked", "error?", "hangup"},
         said.kind = "rejected" => Head(said.errs) = [kind |-> "refusal", by |-> runs],
         said.kind = "results" => said.by = runs,
         said.kind = "failed" => Explained(said.errs),
         Finish(sent, said)
  PROVE  HostInv'
<1>1. /\ at' = "closed" /\ outcome' = said /\ back' = <<>> /\ errs' = <<>> /\ late' = FALSE
      /\ UNCHANGED <<link, runs, kind, slow, errq, job>>
  BY DEF Finish, deviceVars
<1>2. HostTypeOK /\ TrafficInv /\ DeviceInv /\ ModeInv /\ OutcomeIsTrue
  BY DEF HostInv
<1>3. HostTypeOK'
  <2>1. <<>> \in Seq(Error) /\ Len(<<>>) <= MaxDrain + 1
    BY DEF HostAssumption
  <2> QED
    BY <2>1, <1>1, <1>2 DEF HostTypeOK, Error
<1>4. DeviceInv' /\ ModeInv'
  BY <1>1, <1>2 DEF DeviceInv, ModeInv
<1>5. OutcomeIsTrue'
  BY <1>1 DEF OutcomeIsTrue, Explained, Cause
<1>6. TrafficInv'
  <2> DEFINE bye == Silent("hangup")
  <2>1. bye \in Mail /\ bye.by = runs /\ bye.op = "hangup" /\ runs \in Int
    BY <1>2, Requested DEF HostTypeOK
  <2>2. CASE wire' = sent
    BY <2>2, <1>1 DEF TrafficInv
  <2>3. ASSUME NEW n \in 0..Len(sent), wire' = Append(SubSeq(sent, 1, n), bye)
        PROVE  TrafficInv'
    <3> DEFINE part == SubSeq(sent, 1, n)
    <3>1. part \in Seq(Mail) /\ Len(part) = n /\ n \in Nat /\ \A i \in 1..n : part[i] = sent[i] /\ i \in DOMAIN sent
      <4> HIDE DEF Mail
      <4> QED
        OBVIOUS
    <3> HIDE DEF part, bye, Mail
    <3>2. /\ Append(part, bye) \in Seq(Mail)
          /\ \A i \in DOMAIN Append(part, bye) : \/ i \in 1..n /\ Append(part, bye)[i] = part[i]
                                                 \/ Append(part, bye)[i] = bye
      BY <2>1, <3>1
    <3>3. wire' = Append(part, bye)
      BY <2>3 DEF part
    <3>4. \A i \in DOMAIN wire' : wire'[i].by <= runs
      BY <2>1, <3>1, <3>2, <3>3
    <3>5. kind = "repl" => \A i \in DOMAIN wire' : wire'[i].by = runs => wire'[i].op \in {"checked", "error?", "hangup"}
      BY <2>1, <3>1, <3>2, <3>3
    <3>6. \A i \in DOMAIN back' : FALSE
      BY <1>1
    <3> QED
      BY <1>1, <3>2, <3>3, <3>4, <3>5, <3>6 DEF TrafficInv
  <2> QED
    BY <2>2, <2>3 DEF Finish
<1> QED
  BY <1>1, <1>3, <1>4, <1>5, <1>6 DEF HostInv, TalkInv

\* A session that ends by itself has sent what is on its way.
LEMMA Ended ==
  ASSUME HostAssumption, HostInv, NEW said,
         said.kind = "rejected" => Head(said.errs) = [kind |-> "refusal", by |-> runs],
         said.kind = "results" => said.by = runs,
         said.kind = "failed" => Explained(said.errs),
         Finish(wire, said)
  PROVE  HostInv'
BY Finished DEF HostInv, TrafficInv

LEMMA InitHolds == ASSUME HostAssumption, HostInit PROVE HostInv
<1>1. HostTypeOK
  <2>1. <<>> \in Seq(Error) /\ Len(<<>>) <= MaxDrain + 1 /\ Len(<<>>) <= MaxErrors /\ 0 \in 0..MaxRuns
    BY DEF HostAssumption
  <2> QED
    BY <2>1 DEF HostInit, HostTypeOK
<1>2. TrafficInv
  BY DEF HostInit, TrafficInv
<1>3. DeviceInv
  BY DEF HostInit, DeviceInv, HostAssumption, Phrase
<1>4. ModeInv /\ OutcomeIsTrue /\ TalkInv
  BY DEF HostInit, ModeInv, OutcomeIsTrue, TalkInv, NoOutcome
<1> QED
  BY <1>1, <1>2, <1>3, <1>4 DEF HostInv

\* Where a session is says nothing of the job's word, nor of time.
LEMMA SameTalk ==
  ASSUME UNCHANGED <<runs, at, errs, wire, back, errq>>, job'.by = job.by, job'.told = job.told, TalkInv
  PROVE  TalkInv'
<1>1. (at = "line" => LineInv') /\ (at = "drain" => DrainInv')
  BY DEF TalkInv, LineInv, DrainInv, Failure, Sent, Came, Entry, Wanted, NoError, Request
<1>2. \A does : CheckedInv(does) => CheckedInv(does)'
  BY DEF CheckedInv, First, Line, Entry, Wanted, NoError, Failure
<1>3. (at = "asked" => AskedInv') /\ (at = "no" => NoInv')
  BY DEF TalkInv, AskedInv, NoInv, First, Request, Silent, Sent, Came, Entry, Wanted
<1>4. at = "check" => CheckInv'
  BY DEF TalkInv, CheckInv, TriggerSent, TriggerRefused, TriggerTaken, Refusal, Request, Silent,
         Sent, Came, Entry, Wanted, NoError
<1>5. at = "poll" => PollInv'
  BY DEF TalkInv, PollInv, Request, Silent, Sent, Came, Wanted, Explained, Cause
<1>6. (at = "prompt" => PromptInv') /\ (at = "row" => RowInv')
  BY DEF TalkInv, PromptInv, RowInv, Request, Sent, Came, Wanted
<1>7. at = "why" => WhyInv'
  BY DEF TalkInv, WhyInv, Request, Sent, Came, Entry, Wanted, NoError, Explained, Cause
<1> QED
  BY <1>1, <1>2, <1>3, <1>4, <1>5, <1>6, <1>7 DEF TalkInv

LEMMA JobMovesKeeps ==
  ASSUME HostAssumption, HostInv, JobMoves
  PROVE  HostInv'
<1>1. UNCHANGED <<link, runs, kind, at, errs, prev, late, slow, outcome, wire, back, errq>>
  BY DEF JobMoves, hostVars
<1>2. /\ HostTypeOK /\ TrafficInv /\ DeviceInv /\ ModeInv /\ OutcomeIsTrue /\ (~slow => TalkInv)
  BY DEF HostInv
<1>3. \E w \in Phrase : job' = [job EXCEPT !.word = w]
  BY DEF JobMoves, Phrase
<1>4. /\ job'.word \in Phrase /\ job'.by = job.by /\ job'.told = job.told
      /\ job' = [word |-> job'.word, by |-> job'.by, told |-> job'.told]
  BY <1>2, <1>3 DEF DeviceInv
<1>5. DeviceInv'
  BY <1>1, <1>2, <1>4 DEF DeviceInv
<1>6. HostTypeOK' /\ TrafficInv' /\ ModeInv' /\ OutcomeIsTrue'
  BY <1>1, <1>2 DEF HostTypeOK, TrafficInv, ModeInv, OutcomeIsTrue, Error
<1>7. TalkInv => TalkInv'
  BY <1>1, <1>4, SameTalk
<1> QED
  BY <1>1, <1>2, <1>5, <1>6, <1>7 DEF HostInv

LEMMA Opened ==
  ASSUME HostTypeOK, UNCHANGED <<link, errs, late, errq>>, slow' = FALSE, runs' \in 1..MaxRuns,
         kind' \in {"repl", "fetch", "interactive"}, at' \in {"line", "describe"}
  PROVE  HostTypeOK'
<1>1. runs' \in 0..MaxRuns
  OBVIOUS
<1>2. Error' = Error
  BY DEF Error
<1> HIDE DEF Error
<1> QED
  BY <1>1, <1>2 DEF HostTypeOK

LEMMA OpenKeeps ==
  ASSUME HostAssumption, HostInv, Open
  PROVE  HostInv'
<1>1. /\ at = "closed" /\ runs' = runs + 1 /\ runs < MaxRuns /\ outcome' = NoOutcome /\ slow' = FALSE
      /\ UNCHANGED <<link, errs, late, back, errq, job>>
  BY DEF Open, deviceVars
<1>2. HostTypeOK /\ TrafficInv /\ DeviceInv /\ ModeInv
  BY DEF HostInv
<1>3. /\ back = <<>> /\ errs = <<>> /\ runs \in 0..MaxRuns /\ runs' \in 1..MaxRuns
      /\ wire \in Seq(Mail) /\ \A i \in DOMAIN wire : wire[i].by <= runs /\ wire[i].by \in 0..MaxRuns
  <2>1. wire \in Seq(Mail) /\ \A i \in DOMAIN wire : wire[i].by <= runs
    BY <1>2 DEF TrafficInv
  <2>2. \A i \in DOMAIN wire : wire[i].by \in 0..MaxRuns
    <3>1. \A m \in Mail : m.by \in 0..MaxRuns
      BY DEF Mail
    <3> HIDE DEF Mail
    <3> QED
      BY <2>1, <3>1
  <2>3. runs \in 0..MaxRuns /\ MaxRuns \in Nat
    BY <1>2 DEF HostTypeOK, HostAssumption
  <2> QED
    BY <2>1, <2>2, <2>3, <1>1, <1>2 DEF ModeInv
<1>4. \A i \in DOMAIN wire : wire[i].by < runs'
  BY <1>1, <1>3
<1>5. DeviceInv'
  BY <1>1, <1>2, <1>3 DEF DeviceInv
<1>6. OutcomeIsTrue'
  BY <1>1, <1>3 DEF OutcomeIsTrue, NoOutcome
<1>7. CASE kind' = "repl" /\ at' = "line" /\ UNCHANGED wire
  <2>1. HostTypeOK'
    BY <1>1, <1>2, <1>3, <1>7, Opened
  <2>2. TrafficInv'
    BY <1>1, <1>3, <1>4, <1>7 DEF TrafficInv
  <2>3. ModeInv' /\ LineInv'
    BY <1>1, <1>3, <1>4, <1>7 DEF ModeInv, LineInv
  <2> QED
    BY <2>1, <2>2, <2>3, <1>5, <1>6, <1>7 DEF HostInv, TalkInv
<1> DEFINE r == Line("output")'
<1>8. CASE kind' \in {"fetch", "interactive"} /\ at' = "describe" /\ wire' = Append(wire, r)
  <2>1. r = [op |-> "checked", does |-> "output", by |-> runs', due |-> TRUE]
    BY DEF Line
  <2>2. r \in Mail /\ r.by = runs'
    <3>1. runs' \in 0..MaxRuns
      BY <1>3
    <3> HIDE DEF r
    <3> QED
      BY <2>1, <3>1 DEF Mail, Does
  <2>3. HostTypeOK'
    BY <1>1, <1>2, <1>3, <1>8, Opened
  <2>4. /\ wire' \in Seq(Mail) /\ Len(wire') = Len(wire) + 1 /\ Len(wire) \in Nat /\ wire'[Len(wire')] = r
        /\ \A i \in 1..Len(wire') : i = Len(wire') \/ (i \in DOMAIN wire /\ wire'[i] = wire[i])
    <3> HIDE DEF r, Mail
    <3> QED
      BY <2>2, <1>3, <1>8
  <2>5. TrafficInv'
    <3> HIDE DEF r
    <3> QED
      BY <2>2, <2>4, <1>1, <1>3, <1>4, <1>8 DEF TrafficInv
  <2>6. ModeInv'
    BY <1>1, <1>3, <1>8 DEF ModeInv
  <2>7. /\ wire' # <<>> /\ wire'[Len(wire')] = Line("output")' /\ back' = <<>>
        /\ \A i \in 1..Len(wire') - 1 : wire'[i].by < runs'
    <3>1. wire' # <<>>
      BY <2>4
    <3>2. \A i \in 1..Len(wire') - 1 : wire'[i].by < runs'
      BY <2>4, <1>4
    <3> QED
      BY <3>1, <3>2, <2>1, <2>4, <1>1, <1>3 DEF Line
  <2>8. CheckedInv("output")'
    BY <2>7 DEF CheckedInv, First, Line
  <2> QED
    BY <2>3, <2>5, <2>6, <2>8, <1>1, <1>3, <1>5, <1>6, <1>8 DEF HostInv, TalkInv
<1> QED
  BY <1>7, <1>8 DEF Open

\* What a line sends waits behind the requests of others.
LEMMA SentBehind ==
  ASSUME HostInv, LineInv, NEW req \in Mail, req.by = runs, Send(back, <<req>>), runs' = runs
  PROVE  /\ wire' # <<>> /\ wire'[Len(wire')] = req /\ back' = <<>>
         /\ \A i \in 1..Len(wire') - 1 : wire'[i].by < runs
<1>1. wire \in Seq(Mail) /\ back = <<>> /\ \A i \in DOMAIN wire : wire[i].by < runs
  BY DEF HostInv, TrafficInv, LineInv
<1>2. /\ Undue(wire) \in Seq(Mail) /\ Len(Undue(wire)) = Len(wire)
      /\ \A i \in 1..Len(wire) : Undue(wire)[i].by = wire[i].by
  BY <1>1, Undued
<1>3. wire' = Undue(wire) \o <<req>> /\ back' = <<>>
  BY <1>1, NothingUndue DEF Send
<1> HIDE DEF Undue, Mail
<1> DEFINE u == Undue(wire)
<1>4. /\ u \in Seq(Mail) /\ \A i \in 1..Len(u) : u[i].by < runs
  BY <1>1, <1>2
<1> HIDE DEF u
<1>5. /\ u \o <<req>> \in Seq(Mail) /\ Len(u \o <<req>>) = Len(u) + 1 /\ Len(u) \in Nat
      /\ (u \o <<req>>)[Len(u) + 1] = req /\ \A i \in 1..Len(u) : (u \o <<req>>)[i] = u[i]
  BY <1>4
<1>6. wire' = u \o <<req>>
  BY <1>3 DEF u
<1>7. wire' # <<>>
  BY <1>5, <1>6
<1> QED
  BY <1>3, <1>4, <1>5, <1>6, <1>7

LEMMA Typing ==
  ASSUME HostAssumption, HostInv, at = "line", NEW req, NEW where \in {"checked", "asked"},
         Send(back, <<req>>), Move(where, <<>>),
         \/ where = "checked" /\ \E does \in Does : req = Line(does)
         \/ where = "asked" /\ req = Request("error?")
  PROVE  HostInv'
<1>1. at = "line" /\ UNCHANGED <<runs, kind, slow>> /\ at' = where /\ errs' = <<>>
  BY DEF Move
<1>2. HostTypeOK /\ TrafficInv /\ ModeInv /\ kind = "repl" /\ runs \in Int
  BY <1>1 DEF HostInv, ModeInv, HostTypeOK
<1>3. req \in Mail /\ req.by = runs /\ req.op \in {"checked", "error?"}
  BY <1>2, Requested, Typed
<1>4. HostTypeOK' /\ DeviceInv' /\ ModeInv' /\ OutcomeIsTrue'
  <2>1. <<>> \in Seq(Error) /\ Len(<<>>) <= MaxDrain + 1
    BY DEF HostAssumption
  <2> QED
    BY <2>1, <1>1, <1>2, Moved DEF Places, Lines
<1>5. TrafficInv'
  <2>1. /\ back \in Seq(Post)
        /\ kind = "repl" => \A i \in DOMAIN back : [kind |-> back[i].kind, by |-> back[i].by] \in Error
    BY <1>2 DEF TrafficInv
  <2>2. <<req>> \in Seq(Mail) /\ \A i \in DOMAIN <<req>> : <<req>>[i].by = runs /\ <<req>>[i].op \in {"checked", "error?", "hangup"}
    <3> HIDE DEF Mail
    <3> QED
      BY <1>3
  <2> QED
    BY <2>1, <2>2, <1>1, <1>2, SendTypes
<1>6. ASSUME ~slow PROVE TalkInv'
  <2>1. LineInv
    BY <1>1, <1>6 DEF HostInv, TalkInv
  <2>2. /\ wire' # <<>> /\ wire'[Len(wire')] = req /\ back' = <<>>
        /\ \A i \in 1..Len(wire') - 1 : wire'[i].by < runs'
    BY <2>1, <1>1, <1>3, SentBehind
  <2>3. CASE where = "checked"
    <3>1. PICK does \in Does : req = Line(does)
      BY <2>3
    <3>2. Line(does)' = Line(does)
      BY <1>1 DEF Line
    <3>3. CheckedInv(does)'
      BY <2>2, <3>1, <3>2 DEF CheckedInv, First
    <3> QED
      BY <3>3, <2>3, <1>1 DEF TalkInv
  <2>4. CASE where = "asked"
    <3>1. Request("error?")' = Request("error?") /\ req = Request("error?")
      BY <1>1, <2>4 DEF Request
    <3>2. AskedInv'
      BY <2>2, <3>1 DEF AskedInv, First
    <3> QED
      BY <3>2, <2>4, <1>1 DEF TalkInv
  <2> QED
    BY <2>3, <2>4
<1> QED
  BY <1>1, <1>4, <1>5, <1>6 DEF HostInv

LEMMA TypeLineKeeps ==
  ASSUME HostAssumption, HostInv, TypeLine
  PROVE  HostInv'
<1>1. ASSUME NEW does \in Does, Send(back, <<Line(does)>>), Move("checked", <<>>)
      PROVE  HostInv'
  BY <1>1, Typing DEF TypeLine
<1>2. ASSUME Send(back, <<Request("error?")>>), Move("asked", <<>>)
      PROVE  HostInv'
  BY <1>2, Typing DEF TypeLine
<1> QED
  BY <1>1, <1>2 DEF TypeLine, Does

LEMMA QuitKeeps ==
  ASSUME HostAssumption, HostInv, Quit
  PROVE  HostInv'
<1> DEFINE said == Says("done", <<>>, 0)
<1>1. said.kind = "done"
  BY DEF Says
<1>2. Finish(wire, said)
  BY DEF Quit
<1> HIDE DEF said
<1> QED
  BY <1>1, <1>2, Ended

LEMMA ReadTimesOutKeeps ==
  ASSUME HostAssumption, HostInv, ReadTimesOut
  PROVE  HostInv'
<1>1. CASE kind = "repl"
  <2>1. /\ at \notin {"closed", "line", "prompt"} /\ at' = "line" /\ errs' = <<>> /\ slow' = TRUE
        /\ UNCHANGED <<link, runs, kind, late, outcome, wire, back, errq, job>>
    BY <1>1 DEF ReadTimesOut, deviceVars
  <2>2. HostTypeOK /\ TrafficInv /\ DeviceInv /\ ModeInv /\ OutcomeIsTrue
    BY DEF HostInv
  <2>3. HostTypeOK'
    <3>1. <<>> \in Seq(Error) /\ Len(<<>>) <= MaxDrain + 1
      BY DEF HostAssumption
    <3> QED
      BY <3>1, <2>1, <2>2 DEF HostTypeOK, Error
  <2>4. TrafficInv' /\ DeviceInv' /\ ModeInv' /\ OutcomeIsTrue'
    BY <2>1, <2>2, <1>1 DEF TrafficInv, DeviceInv, ModeInv, OutcomeIsTrue, Error
  <2> QED
    BY <2>1, <2>3, <2>4 DEF HostInv
<1>2. CASE kind # "repl"
  <2> DEFINE said == Says("error", <<>>, 0)
  <2>1. said.kind = "error"
    BY DEF Says
  <2>2. Finish(wire, said)
    BY <1>2 DEF ReadTimesOut
  <2> HIDE DEF said
  <2> QED
    BY <2>1, <2>2, Ended
<1> QED
  BY <1>1, <1>2

\* The deadline passes: nothing else changes.
LEMMA ExpireKeeps ==
  ASSUME HostInv, Expire
  PROVE  HostInv'
<1>1. UNCHANGED <<link, runs, kind, at, errs, slow, outcome, wire, back, errq, job>> /\ late' \in BOOLEAN
  BY DEF Expire, deviceVars
<1>2. HostTypeOK' /\ TrafficInv' /\ DeviceInv' /\ ModeInv' /\ OutcomeIsTrue'
  BY <1>1 DEF HostInv, HostTypeOK, TrafficInv, DeviceInv, ModeInv, OutcomeIsTrue, Error
<1> QED
  BY <1>1, <1>2, SameTalk DEF HostInv

------------------------------------------------------------------------------
(* The host reads. *)

LEMMA KeptTypes ==
  ASSUME HostAssumption, HostInv, back # <<>>, Keep, UNCHANGED <<runs, kind>>
  PROVE  TrafficInv'
<1>1. /\ Left \in Seq(Post) /\ back' = Left /\ wire' = wire
      /\ kind = "repl" => \A i \in DOMAIN Left : [kind |-> Left[i].kind, by |-> Left[i].by] \in Error
  BY NextItem DEF Keep
<1>2. TrafficInv /\ Error' = Error
  BY DEF HostInv, Error
<1> HIDE DEF Error, Left
<1> QED
  BY <1>1, <1>2 DEF TrafficInv

\* A single item of an error query, read by whoever drains the queue.
LEMMA LastEntry ==
  ASSUME NEW e \in Error, Came(Entry(e))
  PROVE  /\ wire = <<>> /\ back # <<>> /\ Left = <<>> /\ Item.is = "entry" /\ Item.kind = e.kind /\ Item.by = e.by
         /\ [kind |-> Item.kind, by |-> Item.by] = e /\ Entered /\ (NoMore <=> e.kind = "none")
<1>1. Item = Entry(e) /\ Left = <<>> /\ wire = <<>> /\ back # <<>>
  BY DEF Came, Item, Left
<1>2. Item.is = "entry" /\ Item.kind = e.kind /\ Item.by = e.by
  BY <1>1 DEF Entry, Wanted
<1>3. [kind |-> e.kind, by |-> e.by] = e
  BY DEF Error
<1> QED
  BY <1>1, <1>2, <1>3 DEF Entered, NoMore

LEMMA Entries ==
  ASSUME HostAssumption, HostInv
  PROVE  /\ NoError \in Error /\ Failure \in Error /\ Refusal \in Error
         /\ NoError.kind = "none" /\ Failure.kind = "failed" /\ Refusal.kind = "refusal"
BY DEF HostInv, HostTypeOK, HostAssumption, NoError, Failure, Refusal, Error

\* What a line's command, or the descriptor's, is answered with.
LEMMA CheckedAnswer ==
  ASSUME back # <<>>, NEW does \in Does, CheckedInv(does)
  PROVE  /\ wire = <<>> /\ errq = <<>>
         /\ \E e \in {NoError, Failure} :
              /\ does = "error" <=> e = Failure
              /\ \/ Came(Entry(e))
                 \/ does = "output" /\ back = <<Wanted("output", NoError), Entry(e)>>
BY DEF CheckedInv, First, Came

LEMMA SkipsOutput ==
  ASSUME HostAssumption, HostInv, NEW does \in Does, CheckedInv(does), back # <<>>, ~Entered, Keep, UNCHANGED <<runs, errq>>
  PROVE  CheckedInv(does)'
<1>1. PICK e \in {NoError, Failure} :
        /\ does = "error" <=> e = Failure
        /\ \/ Came(Entry(e))
           \/ does = "output" /\ back = <<Wanted("output", NoError), Entry(e)>>
  BY CheckedAnswer
<1>2. ~Came(Entry(e))
  BY LastEntry, Entries
<1>3. back = <<Wanted("output", NoError), Entry(e)>> /\ does = "output"
  BY <1>1, <1>2
<1>4. Left = <<Entry(e)>>
  BY <1>3 DEF Left
<1>5. wire' = <<>> /\ errq' = <<>> /\ back' = <<Entry(e)>>
  BY <1>4, CheckedAnswer DEF Keep
<1>6. NoError' = NoError /\ Failure' = Failure
  BY DEF NoError, Failure
<1>7. e \in {NoError, Failure'} /\ (does = "error" <=> e = Failure')
  BY <1>1, <1>6
<1> QED
  BY <1>5, <1>7 DEF CheckedInv, Entry, Wanted, NoError

LEMMA ReadCheckedKeeps ==
  ASSUME HostAssumption, HostInv, ReadChecked
  PROVE  HostInv'
<1>1. at \in {"describe", "checked"} /\ back # <<>>
  BY DEF ReadChecked, Reading
<1>2. /\ HostTypeOK /\ TrafficInv /\ DeviceInv /\ ModeInv /\ OutcomeIsTrue /\ runs \in Int
  BY DEF HostInv, HostTypeOK
<1>3. /\ at = "checked" => kind = "repl" /\ errs = <<>>
      /\ at = "describe" => kind # "repl" /\ ~slow
  BY <1>1, <1>2 DEF ModeInv
<1>4. ~slow => /\ at = "describe" => CheckedInv("output")
               /\ at = "checked" => \E does \in Does : CheckedInv(does)
               /\ errs = <<>>
  BY <1>1 DEF HostInv, TalkInv
<1>5. CASE ~Entered /\ Keep /\ UNCHANGED <<hostVars, deviceVars>>
  <2>1. UNCHANGED <<link, runs, kind, at, errs, prev, late, slow, outcome, errq, job>>
    BY <1>5 DEF hostVars, deviceVars
  <2>2. TrafficInv'
    BY <1>1, <1>5, <2>1, KeptTypes
  <2>3. HostTypeOK' /\ DeviceInv' /\ ModeInv' /\ OutcomeIsTrue'
    BY <1>1, <1>2, <2>1 DEF HostTypeOK, DeviceInv, ModeInv, OutcomeIsTrue, Error
  <2>4. ASSUME ~slow PROVE TalkInv'
    <3>1. at = "describe" => CheckedInv("output")'
      BY <2>1, <2>4, <1>1, <1>4, <1>5, SkipsOutput DEF Does
    <3>2. at = "checked" => \E does \in Does : CheckedInv(does)'
      BY <2>1, <2>4, <1>1, <1>4, <1>5, SkipsOutput
    <3> QED
      BY <3>1, <3>2, <2>1, <2>4, <1>1, <1>4 DEF TalkInv
  <2> QED
    BY <2>1, <2>2, <2>3, <2>4 DEF HostInv
<1>6. ASSUME Entered, ~slow, NEW does \in Does, CheckedInv(does)
      PROVE  /\ wire = <<>> /\ errq = <<>> /\ Left = <<>>
             /\ NoMore \/ (does = "error" /\ [kind |-> Item.kind, by |-> Item.by] = Failure)
  <2>1. PICK e \in {NoError, Failure} :
          /\ does = "error" <=> e = Failure
          /\ \/ Came(Entry(e))
             \/ does = "output" /\ back = <<Wanted("output", NoError), Entry(e)>>
    BY <1>1, <1>6, CheckedAnswer
  <2>2. ~(back = <<Wanted("output", NoError), Entry(e)>>)
    <3>1. Wanted("output", NoError).is = "output"
      BY DEF Wanted
    <3> QED
      BY <3>1, <1>6 DEF Entered, Item
  <2>3. Came(Entry(e))
    BY <2>1, <2>2
  <2> QED
    BY <2>1, <2>3, <1>1, <1>6, LastEntry, Entries, CheckedAnswer
<1>7. CASE Entered /\ ~NoMore /\ DrainOn("drain")
  <2>1. at = "checked"
    BY <1>1, <1>3, <1>4, <1>6, <1>7 DEF Does
  <2>2. HostTypeOK' /\ TrafficInv' /\ DeviceInv' /\ ModeInv' /\ OutcomeIsTrue' /\ slow' = slow
    BY <2>1, <1>1, <1>3, <1>7, NextItem, DrainsOn
  <2>3. ASSUME ~slow PROVE TalkInv'
    <3>1. wire = <<>> /\ errq = <<>> /\ Left = <<>> /\ [kind |-> Item.kind, by |-> Item.by] = Failure
      BY <2>1, <2>3, <1>4, <1>6, <1>7
    <3>2. Collected = <<Failure>>
      BY <3>1, <2>1, <1>3, <1>7 DEF Collected
    <3>3. /\ Send(Left, <<Request("error?")>>) /\ at' = "drain" /\ errs' = Collected
          /\ UNCHANGED <<runs, errq>>
      BY <1>7 DEF DrainOn, Move, deviceVars
    <3>4. <<Request("error?")>> \in Seq(Mail)
      <4>1. Request("error?") \in Mail
        BY <1>2, Requested
      <4> HIDE DEF Mail
      <4> QED
        BY <4>1
    <3>5. wire' = <<Request("error?")>> /\ back' = <<>>
      BY <3>1, <3>3, <3>4, SentAlone
    <3>6. Request("error?")' = Request("error?") /\ Failure' = Failure
      BY <3>3 DEF Request, Failure
    <3>7. DrainInv'
      BY <3>1, <3>2, <3>3, <3>5, <3>6 DEF DrainInv, Sent
    <3> QED
      BY <3>3, <3>7 DEF TalkInv
  <2> QED
    BY <2>2, <2>3 DEF HostInv
<1>8. CASE Entered /\ NoMore /\ at = "checked" /\ Keep /\ Move("line", <<>>)
  <2>1. HostTypeOK' /\ DeviceInv' /\ ModeInv' /\ OutcomeIsTrue'
    <3>1. <<>> \in Seq(Error) /\ Len(<<>>) <= MaxDrain + 1
      BY DEF HostAssumption
    <3> QED
      BY <3>1, <1>3, <1>8, Moved DEF Places, Lines
  <2>2. UNCHANGED <<runs, kind, slow>> /\ at' = "line" /\ errs' = <<>>
    BY <1>8 DEF Move
  <2>3. TrafficInv'
    BY <2>2, <1>1, <1>8, KeptTypes
  <2>4. ASSUME ~slow PROVE TalkInv'
    <3>1. wire = <<>> /\ Left = <<>>
      BY <2>4, <1>4, <1>6, <1>8
    <3>2. LineInv'
      BY <3>1, <2>2, <1>8 DEF LineInv, Keep
    <3> QED
      BY <3>2, <2>2 DEF TalkInv
  <2> QED
    BY <2>1, <2>2, <2>3, <2>4 DEF HostInv
<1>9. CASE Entered /\ NoMore /\ at = "describe" /\ Send(Left, <<Silent("start"), Request("error?")>>) /\ Move("check", <<>>)
  <2> DEFINE reqs == <<Silent("start"), Request("error?")>>
  <2>1. HostTypeOK' /\ DeviceInv' /\ ModeInv' /\ OutcomeIsTrue'
    <3>1. <<>> \in Seq(Error) /\ Len(<<>>) <= MaxDrain + 1
      BY DEF HostAssumption
    <3> QED
      BY <3>1, <1>3, <1>9, Moved DEF Places, Lines
  <2>2. UNCHANGED <<runs, kind, slow, errq>> /\ at' = "check" /\ errs' = <<>>
    BY <1>9 DEF Move, deviceVars
  <2>3. reqs \in Seq(Mail) /\ \A i \in DOMAIN reqs : reqs[i].by = runs
    BY <1>2, TwoRequests
  <2>4. TrafficInv'
    <3> HIDE DEF reqs
    <3> QED
      BY <2>2, <2>3, <1>1, <1>2, <1>3, <1>9, NextItem, SendTypes DEF reqs
  <2>5. wire = <<>> /\ Left = <<>> /\ errq = <<>>
    BY <1>3, <1>4, <1>6, <1>9 DEF Does
  <2>6. wire' = reqs /\ back' = <<>>
    BY <2>3, <2>5, <1>9, SentAlone
  <2>7. Silent("start")' = Silent("start") /\ Request("error?")' = Request("error?")
    BY <2>2 DEF Silent, Request
  <2>8. CheckInv'
    BY <2>2, <2>5, <2>6, <2>7 DEF CheckInv, TriggerSent, Sent
  <2> QED
    BY <2>1, <2>2, <2>4, <2>8 DEF HostInv, TalkInv
<1> QED
  BY <1>5, <1>7, <1>8, <1>9 DEF ReadChecked

LEMMA ReadAskedKeeps ==
  ASSUME HostAssumption, HostInv, ReadAsked
  PROVE  HostInv'
<1>1. at = "asked" /\ back # <<>> /\ Keep /\ Move("line", <<>>)
  BY DEF ReadAsked, Reading
<1>2. UNCHANGED <<runs, kind, slow>> /\ at' = "line" /\ errs' = <<>> /\ kind = "repl"
  BY <1>1 DEF Move, HostInv, ModeInv
<1>3. HostTypeOK' /\ DeviceInv' /\ ModeInv' /\ OutcomeIsTrue'
  <2>1. <<>> \in Seq(Error) /\ Len(<<>>) <= MaxDrain + 1
    BY DEF HostAssumption
  <2> QED
    BY <2>1, <1>1, <1>2, Moved DEF Places, Lines
<1>4. TrafficInv'
  BY <1>1, <1>2, KeptTypes
<1>5. ASSUME ~slow PROVE TalkInv'
  <2>1. AskedInv
    BY <1>1, <1>5 DEF HostInv, TalkInv
  <2>2. \E e \in Error : Came(Entry(e))
    BY <2>1, <1>1 DEF AskedInv, First
  <2>3. wire = <<>> /\ Left = <<>>
    BY <2>2, LastEntry
  <2>4. LineInv'
    BY <2>3, <1>1, <1>2 DEF LineInv, Keep
  <2> QED
    BY <2>4, <1>2 DEF TalkInv
<1> QED
  BY <1>2, <1>3, <1>4, <1>5 DEF HostInv

LEMMA ReadDrainKeeps ==
  ASSUME HostAssumption, HostInv, ReadDrain
  PROVE  HostInv'
<1>1. at = "drain" /\ back # <<>>
  BY DEF ReadDrain, Reading
<1>2. kind = "repl" /\ Len(errs) <= MaxDrain /\ HostTypeOK
  BY <1>1 DEF HostInv, ModeInv
<1>3. [kind |-> Item.kind, by |-> Item.by] \in Error
  BY <1>1, <1>2, NextItem
<1>4. Collected \in Seq(Error) /\ Len(Collected) <= Len(errs) + 1 /\ Len(errs) \in Nat /\ Len(Collected) \in Nat
  BY <1>1, <1>3, Collects
<1>5. ~slow => wire = <<>> /\ Left = <<>> /\ NoMore /\ errs = <<Failure>>
  <2>1. SUFFICES ASSUME ~slow PROVE wire = <<>> /\ Left = <<>> /\ NoMore /\ errs = <<Failure>>
    OBVIOUS
  <2>2. DrainInv
    BY <2>1, <1>1 DEF HostInv, TalkInv
  <2>3. Came(Entry(NoError)) /\ errs = <<Failure>>
    BY <2>2, <1>1 DEF DrainInv, Sent
  <2> QED
    BY <2>3, LastEntry, Entries
<1>6. CASE Drained /\ Keep /\ Move("line", Collected)
  <2>1. UNCHANGED <<runs, kind, slow>> /\ at' = "line" /\ errs' = Collected
    BY <1>6 DEF Move
  <2>2. Len(Collected) <= MaxDrain + 1
    BY <1>2, <1>4 DEF HostAssumption
  <2>3. ~slow => Collected = <<Failure>>
    BY <1>5 DEF Collected
  <2>4. HostTypeOK' /\ DeviceInv' /\ ModeInv' /\ OutcomeIsTrue'
    <3> HIDE DEF Collected
    <3> QED
      BY <2>2, <2>3, <1>1, <1>2, <1>4, <1>6, Moved DEF Places, Lines
  <2>5. TrafficInv'
    BY <2>1, <1>1, <1>6, KeptTypes
  <2>6. ASSUME ~slow PROVE TalkInv'
    <3>1. Failure' = Failure
      BY <2>1 DEF Failure
    <3>2. LineInv'
      BY <3>1, <2>1, <2>3, <2>6, <1>5, <1>6 DEF LineInv, Keep
    <3> QED
      BY <3>2, <2>1 DEF TalkInv
  <2> QED
    BY <2>1, <2>4, <2>5, <2>6 DEF HostInv
<1>7. CASE ~Drained /\ DrainOn("drain")
  <2>1. HostTypeOK' /\ TrafficInv' /\ DeviceInv' /\ ModeInv' /\ OutcomeIsTrue' /\ slow' = slow
    BY <1>1, <1>2, <1>3, <1>7, DrainsOn
  <2>2. slow
    BY <1>5, <1>7 DEF Drained
  <2> QED
    BY <2>1, <2>2 DEF HostInv
<1> QED
  BY <1>6, <1>7 DEF ReadDrain

LEMMA SentOne ==
  ASSUME HostTypeOK, NEW op \in {"error?", "state?", "query"}
  PROVE  <<Request(op)>> \in Seq(Mail) /\ \A i \in DOMAIN <<Request(op)>> : <<Request(op)>>[i].by = runs
<1> DEFINE r == Request(op)
<1>1. r \in Mail /\ r.by = runs
  BY Requested
<1> HIDE DEF r, Mail
<1>2. <<r>> \in Seq(Mail) /\ \A i \in DOMAIN <<r>> : <<r>>[i].by = runs
  BY <1>1
<1> QED
  BY <1>2 DEF r

\* A workflow that reads an answer sends its next query.
LEMMA AsksNext ==
  ASSUME HostAssumption, HostInv, kind # "repl", at # "closed", wire = <<>>, NEW old \in Seq(Post), old = <<>>,
         NEW op \in {"error?", "state?", "query"}, NEW where \in Places \ Lines, where # "closed",
         Send(old, <<Request(op)>>), Move(where, <<>>)
  PROVE  /\ HostTypeOK' /\ TrafficInv' /\ DeviceInv' /\ ModeInv' /\ OutcomeIsTrue'
         /\ wire' = <<Request(op)>> /\ back' = <<>> /\ at' = where /\ errs' = <<>>
         /\ UNCHANGED <<runs, kind, slow, errq, job>>
<1>1. at' = where /\ errs' = <<>> /\ UNCHANGED <<runs, kind, slow, errq, job>>
  BY DEF Move, deviceVars
<1>2. <<>> \in Seq(Error) /\ Len(<<>>) <= MaxDrain + 1
  BY DEF HostAssumption
<1>3. HostTypeOK' /\ DeviceInv' /\ ModeInv' /\ OutcomeIsTrue'
  BY <1>2, Moved DEF Lines
<1> DEFINE reqs == <<Request(op)>>
<1>4. reqs \in Seq(Mail) /\ \A i \in DOMAIN reqs : reqs[i].by = runs
  BY SentOne DEF HostInv
<1>5. TrafficInv /\ runs \in Int /\ Send(old, reqs)
  BY DEF HostInv, HostTypeOK
<1>6. TrafficInv'
  <2> HIDE DEF reqs
  <2> QED
    BY <1>1, <1>4, <1>5, SendTypes
<1>7. wire' = reqs /\ back' = <<>>
  <2> HIDE DEF reqs
  <2> QED
    BY <1>4, <1>5, SentAlone
<1> QED
  BY <1>1, <1>3, <1>6, <1>7

LEMMA ReadCheckKeeps ==
  ASSUME HostAssumption, HostInv, ReadCheck
  PROVE  HostInv'
<1>1. at = "check" /\ back # <<>>
  BY DEF ReadCheck, Reading
<1>2. kind # "repl" /\ ~slow /\ CheckInv /\ HostTypeOK
  BY <1>1 DEF HostInv, ModeInv, TalkInv
<1>3. PICK e \in {NoError, Refusal} :
        /\ Came(Entry(e)) /\ errq = <<>>
        /\ \/ errs = <<>> /\ (e = NoError => job.by = runs /\ ~job.told)
           \/ errs = <<Refusal>> /\ e = NoError
  <2>1. NoError # Refusal
    BY DEF NoError, Refusal
  <2>2. ~(TriggerSent \/ TriggerRefused \/ TriggerTaken) /\ \A r : ~Sent(r)
    BY <1>1 DEF TriggerSent, TriggerRefused, TriggerTaken, Sent
  <2>3. \/ errs = <<>> /\ Came(Entry(NoError)) /\ errq = <<>> /\ job.by = runs /\ ~job.told
        \/ errs = <<>> /\ Came(Entry(Refusal)) /\ errq = <<>>
        \/ errs = <<Refusal>> /\ errq = <<>> /\ Came(Entry(NoError))
    BY <2>2, <1>2 DEF CheckInv
  <2> QED
    BY <2>1, <2>3
<1>4. e \in Error /\ (e.kind = "none" <=> e = NoError)
  BY Entries
<1>5. /\ wire = <<>> /\ Left = <<>> /\ Item.kind = e.kind
      /\ [kind |-> Item.kind, by |-> Item.by] = e /\ (NoMore <=> e = NoError)
  BY <1>3, <1>4, LastEntry
<1>6. Left \in Seq(Post)
  BY <1>1, NextItem
<1>7. CASE ~Drained /\ DrainOn("check")
  <2>1. HostTypeOK' /\ TrafficInv' /\ DeviceInv' /\ ModeInv' /\ OutcomeIsTrue' /\ slow' = slow
    BY <1>1, <1>2, <1>4, <1>5, <1>7, DrainsOn
  <2>2. e = Refusal /\ errs = <<>>
    BY <1>3, <1>5, <1>7 DEF Drained
  <2>3. Collected = <<Refusal>>
    BY <2>2, <1>5, <1>7 DEF Collected, Drained
  <2>4. /\ Send(Left, <<Request("error?")>>) /\ at' = "check" /\ errs' = <<Refusal>>
        /\ UNCHANGED <<runs, errq>>
    BY <2>3, <1>7 DEF DrainOn, Move, deviceVars
  <2>5. wire' = <<Request("error?")>> /\ back' = <<>>
    BY <2>4, <1>2, <1>5, SentOne, SentAlone
  <2>6. Request("error?")' = Request("error?") /\ Refusal' = Refusal
    BY <2>4 DEF Request, Refusal
  <2>7. CheckInv'
    BY <2>4, <2>5, <2>6, <1>3 DEF CheckInv, Sent
  <2> QED
    BY <2>1, <2>4, <2>7 DEF HostInv, TalkInv
<1>8. CASE Drained /\ Rejected /\ Finish(wire, Says("rejected", Collected, 0))
  <2>1. Collected = <<Refusal>>
    <3>1. CASE e = NoError
      BY <3>1, <1>3, <1>5, <1>8 DEF Collected, Rejected
    <3>2. CASE e = Refusal
      <4>1. ~NoMore /\ errs = <<>>
        BY <3>2, <1>3, <1>4, <1>5, Entries
      <4> QED
        BY <4>1, <3>2, <1>5 DEF Collected
    <3> QED
      BY <3>1, <3>2
  <2> DEFINE said == Says("rejected", Collected, 0)
  <2>2. said.kind = "rejected" /\ Head(said.errs) = [kind |-> "refusal", by |-> runs]
    BY <2>1 DEF Says, Refusal
  <2>3. Finish(wire, said)
    BY <1>8
  <2> HIDE DEF said
  <2> QED
    BY <2>2, <2>3, Ended
<1>9. CASE Drained /\ ~Rejected /\ Send(Left, <<Request("state?")>>) /\ Move("poll", <<>>)
  <2>1. /\ HostTypeOK' /\ TrafficInv' /\ DeviceInv' /\ ModeInv' /\ OutcomeIsTrue'
        /\ wire' = <<Request("state?")>> /\ back' = <<>> /\ at' = "poll" /\ errs' = <<>>
        /\ UNCHANGED <<runs, kind, slow, errq, job>>
    BY <1>1, <1>2, <1>5, <1>6, <1>9, AsksNext DEF Places, Lines
  <2>2. e = NoError /\ errs = <<>>
    BY <1>3, <1>5, <1>9 DEF Collected, Rejected
  <2>3. Request("state?")' = Request("state?")
    BY <2>1 DEF Request
  <2>4. PollInv'
    BY <2>1, <2>2, <2>3, <1>3 DEF PollInv, Sent
  <2> QED
    BY <2>1, <2>4 DEF HostInv, TalkInv
<1> QED
  BY <1>7, <1>8, <1>9 DEF ReadCheck

LEMMA ReadPollKeeps ==
  ASSUME HostAssumption, HostInv, ReadPoll
  PROVE  HostInv'
<1>1. at = "poll" /\ back # <<>>
  BY DEF ReadPoll, Reading
<1>2. kind # "repl" /\ ~slow /\ PollInv /\ HostTypeOK /\ DeviceInv
  BY <1>1 DEF HostInv, ModeInv, TalkInv
<1>3. PICK w \in Phrase : /\ Came(Wanted("word", [kind |-> w, by |-> runs]))
                          /\ w = "FAILED" => Explained(errq)
                          /\ w # "FAILED" => ~job.told
  BY <1>1, <1>2 DEF PollInv, Sent
<1>4. errs = <<>> /\ job.by = runs
  BY <1>2 DEF PollInv
<1>5. wire = <<>> /\ Left = <<>> /\ Item.kind = w
  BY <1>3 DEF Came, Item, Left, Wanted
<1>6. Left \in Seq(Post)
  BY <1>1, NextItem
<1>7. CASE Item.kind = "DONE" /\ Send(Left, <<Request("query")>>) /\ Move("row", <<>>)
  <2>1. /\ HostTypeOK' /\ TrafficInv' /\ DeviceInv' /\ ModeInv' /\ OutcomeIsTrue'
        /\ wire' = <<Request("query")>> /\ back' = <<>> /\ at' = "row" /\ errs' = <<>>
        /\ UNCHANGED <<runs, kind, slow, errq, job>>
    BY <1>1, <1>2, <1>5, <1>6, <1>7, AsksNext DEF Places, Lines
  <2>2. Request("query")' = Request("query")
    BY <2>1 DEF Request
  <2>3. RowInv'
    BY <2>1, <2>2, <1>4 DEF RowInv, Sent
  <2> QED
    BY <2>1, <2>3 DEF HostInv, TalkInv
<1>8. CASE Item.kind = "FAILED" /\ Send(Left, <<Request("error?")>>) /\ Move("why", <<>>)
  <2>1. /\ HostTypeOK' /\ TrafficInv' /\ DeviceInv' /\ ModeInv' /\ OutcomeIsTrue'
        /\ wire' = <<Request("error?")>> /\ back' = <<>> /\ at' = "why" /\ errs' = <<>>
        /\ UNCHANGED <<runs, kind, slow, errq, job>>
    BY <1>1, <1>2, <1>5, <1>6, <1>8, AsksNext DEF Places, Lines
  <2>2. Request("error?")' = Request("error?")
    BY <2>1 DEF Request
  <2>3. Explained(errq)'
    BY <2>1, <1>3, <1>5, <1>8 DEF Explained, Cause
  <2>4. Len(errs') + Len(errq') <= MaxErrors
    BY <2>1, <1>2 DEF DeviceInv
  <2>5. WhyInv'
    BY <2>1, <2>2, <2>3, <2>4 DEF WhyInv, Sent
  <2> QED
    BY <2>1, <2>5 DEF HostInv, TalkInv
<1>9. CASE Item.kind \notin {"DONE", "FAILED"} /\ Keep /\ Move("prompt", <<>>)
  <2>1. /\ at' = "prompt" /\ errs' = <<>> /\ wire' = <<>> /\ back' = <<>>
        /\ UNCHANGED <<runs, kind, slow, errq, job>>
    BY <1>5, <1>9 DEF Move, Keep, deviceVars
  <2>2. HostTypeOK' /\ DeviceInv' /\ ModeInv' /\ OutcomeIsTrue'
    <3>1. <<>> \in Seq(Error) /\ Len(<<>>) <= MaxDrain + 1
      BY DEF HostAssumption
    <3> QED
      BY <3>1, <1>1, <1>2, <1>9, Moved DEF Places, Lines
  <2>3. TrafficInv'
    BY <2>1, <1>1, <1>9, KeptTypes
  <2>4. PromptInv'
    BY <2>1, <1>3, <1>4, <1>5, <1>9 DEF PromptInv, Sent
  <2> QED
    BY <2>1, <2>2, <2>3, <2>4 DEF HostInv, TalkInv
<1>10. CASE Finish(wire, Says("timeout", <<>>, 0))
  <2> DEFINE said == Says("timeout", <<>>, 0)
  <2>1. said.kind = "timeout" /\ Finish(wire, said)
    BY <1>10 DEF Says
  <2> HIDE DEF said
  <2> QED
    BY <2>1, Ended
<1>11. CASE Item.kind \notin {"DONE", "FAILED"} /\ Send(Left, <<Request("state?")>>) /\ Move("poll", <<>>)
  <2>1. /\ HostTypeOK' /\ TrafficInv' /\ DeviceInv' /\ ModeInv' /\ OutcomeIsTrue'
        /\ wire' = <<Request("state?")>> /\ back' = <<>> /\ at' = "poll" /\ errs' = <<>>
        /\ UNCHANGED <<runs, kind, slow, errq, job>>
    BY <1>1, <1>2, <1>5, <1>6, <1>11, AsksNext DEF Places, Lines
  <2>2. Request("state?")' = Request("state?")
    BY <2>1 DEF Request
  <2>3. PollInv'
    BY <2>1, <2>2, <1>3, <1>4, <1>5, <1>11 DEF PollInv, Sent
  <2> QED
    BY <2>1, <2>3 DEF HostInv, TalkInv
<1> QED
  BY <1>7, <1>8, <1>9, <1>10, <1>11 DEF ReadPoll

LEMMA HandlePromptKeeps ==
  ASSUME HostAssumption, HostInv, HandlePrompt
  PROVE  HostInv'
<1>1. at = "prompt"
  BY DEF HandlePrompt
<1>2. kind # "repl" /\ ~slow /\ HostTypeOK /\ TrafficInv /\ wire = <<>> /\ back = <<>> /\ job.by = runs /\ ~job.told
      /\ runs \in Int
  BY <1>1 DEF HostInv, ModeInv, TalkInv, PromptInv, Sent, HostTypeOK
<1>3. <<>> \in Seq(Error) /\ Len(<<>>) <= MaxDrain + 1
  BY DEF HostAssumption
<1>4. ASSUME NEW second \in {"error?", "state?"}, NEW where \in {"poll", "no"},
             Send(back, <<Silent("answer"), Request(second)>>), Move(where, <<>>)
      PROVE  /\ HostTypeOK' /\ TrafficInv' /\ DeviceInv' /\ ModeInv' /\ OutcomeIsTrue'
             /\ wire' = <<Silent("answer"), Request(second)>> /\ back' = <<>> /\ at' = where /\ errs' = <<>>
             /\ UNCHANGED <<runs, slow, job>>
  <2> DEFINE reqs == <<Silent("answer"), Request(second)>>
  <2>1. at' = where /\ errs' = <<>> /\ UNCHANGED <<runs, kind, slow, job>>
    BY <1>4 DEF Move, deviceVars
  <2>2. HostTypeOK' /\ DeviceInv' /\ ModeInv' /\ OutcomeIsTrue'
    BY <1>1, <1>2, <1>3, <1>4, Moved DEF Places, Lines
  <2>3. reqs \in Seq(Mail) /\ \A i \in DOMAIN reqs : reqs[i].by = runs
    BY <1>2, TwoRequests
  <2>4. back \in Seq(Post) /\ Send(back, reqs)
    BY <1>2, <1>4 DEF TrafficInv
  <2> HIDE DEF reqs
  <2>5. TrafficInv'
    BY <2>1, <2>3, <2>4, <1>2, SendTypes
  <2>6. wire' = reqs /\ back' = <<>>
    BY <2>3, <2>4, <1>2, SentAlone
  <2> QED
    BY <2>1, <2>2, <2>5, <2>6 DEF reqs
<1>5. CASE Send(back, <<Silent("answer"), Request("state?")>>) /\ Move("poll", <<>>)
  <2>1. /\ HostTypeOK' /\ TrafficInv' /\ DeviceInv' /\ ModeInv' /\ OutcomeIsTrue'
        /\ wire' = <<Silent("answer"), Request("state?")>> /\ back' = <<>> /\ at' = "poll" /\ errs' = <<>>
        /\ UNCHANGED <<runs, slow, job>>
    BY <1>4, <1>5
  <2>2. Silent("answer")' = Silent("answer") /\ Request("state?")' = Request("state?")
    BY <2>1 DEF Silent, Request
  <2>3. PollInv'
    BY <2>1, <2>2, <1>2 DEF PollInv, Sent
  <2> QED
    BY <2>1, <2>3 DEF HostInv, TalkInv
<1>6. CASE Send(back, <<Silent("answer"), Request("error?")>>) /\ Move("no", <<>>)
  <2>1. /\ HostTypeOK' /\ TrafficInv' /\ DeviceInv' /\ ModeInv' /\ OutcomeIsTrue'
        /\ wire' = <<Silent("answer"), Request("error?")>> /\ back' = <<>> /\ at' = "no" /\ errs' = <<>>
        /\ UNCHANGED <<runs, slow, job>>
    BY <1>4, <1>6
  <2>2. Silent("answer")' = Silent("answer") /\ Request("error?")' = Request("error?")
    BY <2>1 DEF Silent, Request
  <2>3. NoInv'
    BY <2>1, <2>2 DEF NoInv, Sent
  <2> QED
    BY <2>1, <2>3 DEF HostInv, TalkInv
<1> QED
  BY <1>5, <1>6 DEF HandlePrompt

LEMMA PromptExpiredKeeps ==
  ASSUME HostAssumption, HostInv, PromptExpired
  PROVE  HostInv'
<1> DEFINE said == Says("timeout", <<>>, 0)
           bye == Silent("answer")
           sent == Append(wire, bye)
<1>1. at = "prompt" /\ Finish(sent, said) /\ said.kind = "timeout"
  BY DEF PromptExpired, Says
<1>2. kind # "repl" /\ ~slow /\ HostTypeOK /\ wire = <<>> /\ runs \in Int
  BY <1>1 DEF HostInv, ModeInv, TalkInv, PromptInv, Sent, HostTypeOK
<1>3. bye \in Mail /\ bye.by = runs
  BY <1>2, Requested
<1>4. sent = <<bye>>
  BY <1>2
<1> HIDE DEF said, bye, Mail, sent
<1>5. sent \in Seq(Mail) /\ \A i \in DOMAIN sent : sent[i].by <= runs
  BY <1>2, <1>3, <1>4
<1> QED
  BY <1>1, <1>2, <1>5, Finished

LEMMA ReadWhyKeeps ==
  ASSUME HostAssumption, HostInv, ReadWhy
  PROVE  HostInv'
<1>1. at \in {"why", "no"} /\ back # <<>>
  BY DEF ReadWhy, Reading
<1>2. kind # "repl" /\ ~slow /\ HostTypeOK /\ DeviceInv /\ (at = "why" => WhyInv) /\ (at = "no" => NoInv)
  BY <1>1 DEF HostInv, ModeInv, TalkInv
<1>3. PICK e \in Error :
        /\ Came(Entry(e))
        /\ at = "why" => \/ /\ e.kind # "none" /\ Len(errs) + Len(errq) < MaxErrors
                            /\ Cause(e) \/ Explained(errs) \/ Explained(errq)
                         \/ e = NoError /\ Explained(errs)
  <2>1. \A q \in Queued : q \in Error /\ q.kind # "none"
    BY DEF Queued, Error
  <2> QED
    BY <2>1, <1>1, <1>2, Entries DEF WhyInv, NoInv, Sent
<1>4. /\ wire = <<>> /\ Left = <<>> /\ [kind |-> Item.kind, by |-> Item.by] = e /\ (NoMore <=> e.kind = "none")
  BY <1>3, LastEntry
<1>5. /\ Collected \in Seq(Error) /\ Len(errs) \in Nat /\ errs \in Seq(Error)
      /\ Collected = IF NoMore THEN errs ELSE Append(errs, e)
  BY <1>1, <1>2, <1>4, Collects DEF Collected, HostTypeOK
<1>6. errq \in Seq(Queued) /\ Len(errq) \in Nat
  BY <1>2 DEF DeviceInv
<1>7. Cause(e) \/ Explained(errs) => Explained(Append(errs, e))
  <2> HIDE DEF Error, Cause
  <2>1. /\ Len(errs) + 1 \in DOMAIN Append(errs, e) /\ Append(errs, e)[Len(errs) + 1] = e
        /\ \A i \in DOMAIN errs : i \in DOMAIN Append(errs, e) /\ Append(errs, e)[i] = errs[i]
    BY <1>5
  <2> QED
    BY <2>1 DEF Explained
<1>8. CASE ~Drained /\ DrainOn(at)
  <2>1. HostTypeOK' /\ TrafficInv' /\ DeviceInv' /\ ModeInv' /\ OutcomeIsTrue' /\ slow' = slow
    BY <1>1, <1>2, <1>4, <1>8, DrainsOn
  <2>2. /\ Send(Left, <<Request("error?")>>) /\ at' = at /\ errs' = Append(errs, e) /\ ~NoMore
        /\ UNCHANGED <<runs, errq>>
    BY <1>5, <1>8 DEF DrainOn, Move, deviceVars, Drained
  <2>3. wire' = <<Request("error?")>> /\ back' = <<>>
    BY <2>2, <1>2, <1>4, SentOne, SentAlone
  <2>4. Request("error?")' = Request("error?")
    BY <2>2 DEF Request
  <2>5. CASE at = "why"
    <3>1. Len(errs) + Len(errq) < MaxErrors /\ (Cause(e) \/ Explained(errs) \/ Explained(errq))
      BY <2>2, <2>5, <1>3, <1>4, Entries
    <3>2. Len(errs') + Len(errq') <= MaxErrors
      <4>1. Len(Append(errs, e)) = Len(errs) + 1
        BY <1>5
      <4> QED
        BY <4>1, <3>1, <2>2, <1>5, <1>6 DEF HostAssumption
    <3>3. Explained(errs)' \/ Explained(errq)'
      <4>1. Explained(Append(errs, e)) \/ Explained(errq)
        BY <3>1, <1>7
      <4> QED
        BY <4>1, <2>2 DEF Explained, Cause
    <3>4. WhyInv'
      BY <3>2, <3>3, <2>3, <2>4 DEF WhyInv, Sent
    <3> QED
      BY <3>4, <2>1, <2>2, <2>5 DEF HostInv, TalkInv
  <2>6. CASE at = "no"
    <3>1. NoInv'
      BY <2>3, <2>4 DEF NoInv, Sent
    <3> QED
      BY <3>1, <2>1, <2>2, <2>6 DEF HostInv, TalkInv
  <2> QED
    BY <2>5, <2>6, <1>1
<1>9. CASE Drained /\ Finish(wire, Says(IF at = "no" THEN "declined" ELSE "failed", Collected, 0))
  <2> DEFINE said == Says(IF at = "no" THEN "declined" ELSE "failed", Collected, 0)
  <2>1. said.kind \in {"declined", "failed"} /\ (said.kind = "failed" => at = "why") /\ said.errs = Collected
    BY <1>1 DEF Says
  <2>2. at = "why" => Explained(Collected)
    <3>1. SUFFICES ASSUME at = "why" PROVE Explained(Collected)
      OBVIOUS
    <3>2. CASE NoMore
      BY <3>1, <3>2, <1>3, <1>4, <1>5
    <3>3. CASE ~NoMore
      <4>1. Len(errs) + Len(errq) < MaxErrors
        BY <3>1, <3>3, <1>3, <1>4, Entries
      <4>2. Len(Collected) = Len(errs) + 1
        BY <3>3, <1>5
      <4>3. Len(Collected) < MaxDrain
        BY <4>1, <4>2, <1>5, <1>6 DEF HostAssumption
      <4> QED
        BY <4>3, <4>2, <3>1, <3>3, <1>5, <1>9 DEF Drained, Most, HostAssumption
    <3> QED
      BY <3>2, <3>3
  <2>3. Finish(wire, said)
    BY <1>9
  <2> HIDE DEF said
  <2> QED
    BY <2>1, <2>2, <2>3, Ended
<1> QED
  BY <1>8, <1>9 DEF ReadWhy

LEMMA ReadRowKeeps ==
  ASSUME HostAssumption, HostInv, ReadRow
  PROVE  HostInv'
<1>1. at = "row" /\ back # <<>> /\ Finish(wire, Says("results", <<>>, Item.by))
  BY DEF ReadRow, Reading
<1>2. RowInv
  BY <1>1 DEF HostInv, ModeInv, TalkInv
<1>3. Item.by = runs
  BY <1>1, <1>2 DEF RowInv, Sent, Came, Item, Wanted
<1> DEFINE said == Says("results", <<>>, Item.by)
<1>4. said.kind = "results" /\ said.by = runs /\ Finish(wire, said)
  BY <1>1, <1>3 DEF Says
<1> HIDE DEF said
<1> QED
  BY <1>4, Ended

------------------------------------------------------------------------------
(* The theorems. *)

LEMMA NextKeeps ==
  ASSUME HostAssumption, HostInv, [HostNext]_sessionVars
  PROVE  HostInv'
<1>1. CASE Open \/ TypeLine \/ Quit
  BY <1>1, OpenKeeps, TypeLineKeeps, QuitKeeps
<1>2. CASE ReadChecked \/ ReadAsked \/ ReadDrain \/ ReadCheck \/ ReadPoll
  BY <1>2, ReadCheckedKeeps, ReadAskedKeeps, ReadDrainKeeps, ReadCheckKeeps, ReadPollKeeps
<1>3. CASE HandlePrompt \/ PromptExpired \/ ReadWhy \/ ReadRow \/ ReadTimesOut
  BY <1>3, HandlePromptKeeps, PromptExpiredKeeps, ReadWhyKeeps, ReadRowKeeps, ReadTimesOutKeeps
<1>4. CASE Expire \/ Execute \/ JobMoves
  BY <1>4, ExpireKeeps, ExecuteKeeps, JobMovesKeeps
<1>5. CASE UNCHANGED sessionVars
  <2>1. UNCHANGED <<link, runs, kind, at, errs, prev, late, slow, outcome, wire, back, errq, job>>
    BY <1>5 DEF sessionVars, hostVars, deviceVars
  <2>2. HostTypeOK' /\ TrafficInv' /\ DeviceInv' /\ ModeInv' /\ OutcomeIsTrue'
    BY <2>1 DEF HostInv, HostTypeOK, TrafficInv, DeviceInv, ModeInv, OutcomeIsTrue, Error
  <2> QED
    BY <2>1, <2>2, SameTalk DEF HostInv
<1> QED
  BY <1>1, <1>2, <1>3, <1>4, <1>5 DEF HostNext, Continue

\* While no read has timed out, whatever waits to be read is due.
LEMMA AllIsDue == ASSUME HostInv PROVE AnswersItsCommand
<1>1. SUFFICES ASSUME ~slow PROVE \A i \in DOMAIN back : back[i].due
  BY DEF AnswersItsCommand
<1>2. TalkInv /\ (at = "closed" => back = <<>>) /\ HostTypeOK
  BY <1>1 DEF HostInv, ModeInv
<1>3. \A is, e : Came(Wanted(is, e)) => \A i \in DOMAIN back : back[i].due
  BY DEF Came, Wanted
<1>4. back = <<>> => \A i \in DOMAIN back : back[i].due
  OBVIOUS
<1>5. \A does : CheckedInv(does) => \A i \in DOMAIN back : back[i].due
  BY <1>3 DEF CheckedInv, First, Entry, Wanted
<1>6. CASE at \in {"line", "describe", "checked", "asked"}
  BY <1>2, <1>3, <1>4, <1>5, <1>6 DEF TalkInv, LineInv, AskedInv, First, Entry
<1>7. CASE at \in {"drain", "check", "poll", "prompt"}
  BY <1>2, <1>3, <1>4, <1>7 DEF TalkInv, DrainInv, CheckInv, PollInv, PromptInv, TriggerSent, TriggerRefused,
                                TriggerTaken, Sent, Entry
<1>8. CASE at \in {"row", "why", "no"}
  BY <1>2, <1>3, <1>4, <1>8 DEF TalkInv, RowInv, WhyInv, NoInv, Sent, Entry
<1> QED
  BY <1>2, <1>4, <1>6, <1>7, <1>8 DEF HostTypeOK

\* The invariant holds of every session of every invocation.
THEOREM HostInvariant == HostSpec => []HostInv
<1>1. HostInit => HostInv
  BY InitHolds, HostAssumption
<1>2. HostInv /\ [HostNext]_sessionVars => HostInv'
  BY NextKeeps, HostAssumption
<1> QED
  BY <1>1, <1>2, PTL DEF HostSpec

\* A reply is read by the query that asked for it, as long as no read of the
\* session has timed out, and every list of errors ends within its bound:
\* write, query and send_checked of session.rs over both transports.
THEOREM SessionAlwaysInStep == HostSpec => []SessionInStep
<1>1. HostInv => SessionInStep
  BY AllIsDue DEF HostInv, SessionInStep
<1> QED
  BY <1>1, HostInvariant, PTL

\* What the user is told is about the user's own command: the refusal is of
\* the workflow's own trigger, the results are of the job it started, a job
\* that failed comes with its reason, a line with its own error (workflow.rs
\* check_trigger_accepted and job_failed, session.rs send_checked).
THEOREM OutcomeAlwaysTrue == HostSpec => []OutcomeIsTrue
<1>1. HostInv => OutcomeIsTrue
  BY DEF HostInv
<1> QED
  BY <1>1, HostInvariant, PTL

=============================================================================
