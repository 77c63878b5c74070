----------------------------- MODULE CanProofs ------------------------------
(***************************************************************************)
(* The invariants of the CAN examples: of the Linux daemon's capture, for  *)
(* any number of interfaces opened in turn, queues of any length and a     *)
(* loss counter of any width; and of the SocketCAN application's capture,  *)
(* transmissions and channels, for any number of controllers, mailboxes    *)
(* and contexts and rings of any size.                                     *)
(***************************************************************************)
EXTENDS CanCapture, GsUsb, FiniteSetTheorems, SequenceTheorems, TLAPS

------------------------------------------------------------------------------
(* The daemon *)

CanTypeOK ==
  /\ file \in [Fds -> 0..opened] /\ opened \in 0..MaxOpen
  /\ canFd \in Fds \cup {NoFd} /\ newFd \in Fds \cup {NoFd} /\ fd \in Fds \cup {NoFd}
  /\ running \in BOOLEAN /\ haveOvfl \in BOOLEAN
  /\ spc \in {"ready", "swap", "reset", "close"}
  /\ ppc \in {"top", "check", "poll", "recv", "reading", "count", "base", "push", "dead"}
  /\ queue \in [Sockets -> Seq(Nat)] /\ losses \in [Sockets -> 0..MaxLoss]
  /\ dropped \in Nat /\ lastOvfl \in Nat /\ frame \in Nat
  /\ missed \in Nat /\ ringLost \in Nat /\ afterStop \in Nat
  /\ seen \in [Sockets -> Nat]
  /\ sock \in 0..opened /\ (ppc = "reading" => sock # NoSocket)
  /\ ppc \in {"poll", "recv"} => fd # NoFd

\* An OPEN in progress holds a descriptor of its own; a CLOSe has stopped the
\* capture before it takes the interface away; and a producer past its checks
\* has captured nothing since STOP yet.
FdsInv ==
  /\ OneSocket /\ RunningMeansOpen
  /\ spc = "swap" => newFd \in Fds /\ newFd # canFd
  /\ spc # "swap" => newFd = NoFd
  /\ spc = "close" => ~running
StopInv ==
  /\ AtMostOneAfterStop
  /\ ~running /\ ppc \notin {"top", "check", "dead"} => afterStop = 0

\* The frames of a socket carry its losses in order, from those of the last read.
QueueInOrder(s) ==
  /\ \A i \in DOMAIN queue[s] :
       /\ seen[s] <= queue[s][i] /\ queue[s][i] <= losses[s]
       /\ \A j \in i..Len(queue[s]) : queue[s][i] <= queue[s][j]
  /\ seen[s] <= losses[s]
QueuesInv == \A s \in Sockets : QueueInOrder(s)

\* With a single socket, the drop total is behind what its frames carried.
LossInv ==
  opened <= 1 =>
    /\ missed = seen[1] /\ lastOvfl <= seen[1]
    /\ ppc \in {"count", "base"} => frame = seen[1]
    /\ ppc # "base" => dropped <= ringLost + lastOvfl
    /\ ppc = "base" => dropped <= ringLost + seen[1]

CanInv == CanTypeOK /\ FdsInv /\ StopInv /\ QueuesInv /\ LossInv

USE DEF Fds, NoFd, NoSocket, Sockets, kernelVars, sharedVars, scpiVars, prodVars, histVars

LEMMA Constants ==
  MaxOpen \in Nat \ {0} /\ MaxLoss \in Nat /\ Word \in Nat /\ Word > MaxLoss
BY CanAssumption DEF CanAssumption

\* The width of the counter does not show in a difference it can hold.
LEMMA ModWithin ==
  ASSUME NEW n \in Nat, NEW m \in Nat, n < m PROVE n % m = n
OBVIOUS

\* A capture that has not begun satisfies them all.
LEMMA InitInv == CanInit => CanInv
<1> SUFFICES ASSUME CanInit PROVE CanInv
  OBVIOUS
<1>1. CanTypeOK
  <2>1. file \in [Fds -> 0..opened] /\ opened \in 0..MaxOpen /\ sock \in 0..opened
    BY Constants DEF CanInit
  <2>2. queue \in [Sockets -> Seq(Nat)]
    BY DEF CanInit
  <2>3. losses \in [Sockets -> 0..MaxLoss] /\ seen \in [Sockets -> Nat]
    BY Constants DEF CanInit
  <2> QED BY <2>1, <2>2, <2>3 DEF CanInit, CanTypeOK
<1>2. FdsInv
  BY DEF CanInit, FdsInv, OneSocket, RunningMeansOpen
<1>3. StopInv
  BY DEF CanInit, StopInv, AtMostOneAfterStop
<1>4. QueuesInv
  BY DEF CanInit, QueuesInv, QueueInOrder
<1>5. LossInv
  BY Constants DEF CanInit, LossInv
<1> QED BY <1>1, <1>2, <1>3, <1>4, <1>5 DEF CanInv

------------------------------------------------------------------------------
\* There is a free descriptor for an OPEN, and it is not the interface's.
LEMMA FreeFd ==
  ASSUME CanInv, spc = "ready"
  PROVE  LET n == Min({m \in Fds : file[m] = NoSocket})
         IN n \in Fds /\ file[n] = NoSocket /\ n # canFd
<1> DEFINE S == {m \in Fds : file[m] = NoSocket}
<1>1. \A m \in Fds : file[m] # NoSocket <=> m = canFd
  BY DEF CanInv, CanTypeOK, FdsInv, OneSocket
<1>2. \E n \in S : \A m \in S : n <= m
  <2>1. CASE canFd = 1
    BY <1>1, <2>1
  <2>2. CASE canFd # 1
    BY <1>1, <2>2
  <2> QED BY <2>1, <2>2
<1>3. Min(S) \in S
  BY <1>2 DEF Min
<1> QED BY <1>1, <1>3

\* What a reported loss adds to the drop total is a number.
LEMMA LossType == ASSUME CanTypeOK PROVE LossSince \in Nat
<1>1. frame - lastOvfl \in Int /\ Word \in Nat \ {0}
  BY Constants DEF CanTypeOK
<1> QED BY <1>1 DEF LossSince

\* The frame at the head of a queue carries no less than those before it.
LEMMA ReadMore ==
  ASSUME CanInv, NEW s \in Sockets, queue[s] # <<>>
  PROVE  /\ queue[s] \in Seq(Nat) /\ Head(queue[s]) \in Nat
         /\ seen[s] \in Nat /\ losses[s] \in Nat
         /\ seen[s] <= Head(queue[s]) /\ Head(queue[s]) <= losses[s]
         /\ \A i \in DOMAIN Tail(queue[s]) :
              /\ Head(queue[s]) <= Tail(queue[s])[i] /\ Tail(queue[s])[i] <= losses[s]
              /\ \A j \in i..Len(Tail(queue[s])) : Tail(queue[s])[i] <= Tail(queue[s])[j]
<1>1. /\ queue[s] \in Seq(Nat) /\ Len(queue[s]) \in Nat \ {0}
      /\ Head(queue[s]) = queue[s][1] /\ Head(queue[s]) \in Nat
      /\ seen[s] \in Nat /\ losses[s] \in Nat
  <2>1. queue[s] \in Seq(Nat) /\ seen[s] \in Nat /\ losses[s] \in 0..MaxLoss
    BY DEF CanInv, CanTypeOK
  <2> QED BY <2>1, Constants
<1>2. /\ Len(Tail(queue[s])) = Len(queue[s]) - 1
      /\ \A i \in 1..(Len(queue[s]) - 1) : Tail(queue[s])[i] = queue[s][i + 1]
  BY <1>1
<1>3. /\ \A i \in 1..Len(queue[s]) :
           /\ seen[s] <= queue[s][i] /\ queue[s][i] <= losses[s]
           /\ \A j \in i..Len(queue[s]) : queue[s][i] <= queue[s][j]
  BY <1>1 DEF CanInv, QueuesInv, QueueInOrder
<1>4. DOMAIN Tail(queue[s]) = 1..(Len(queue[s]) - 1)
  BY <1>1, <1>2
<1>5. seen[s] <= Head(queue[s]) /\ Head(queue[s]) <= losses[s]
  BY <1>1, <1>3
<1>6. ASSUME NEW i \in 1..(Len(queue[s]) - 1)
      PROVE  /\ Head(queue[s]) <= Tail(queue[s])[i] /\ Tail(queue[s])[i] <= losses[s]
             /\ \A j \in i..Len(Tail(queue[s])) : Tail(queue[s])[i] <= Tail(queue[s])[j]
  <2>1. i + 1 \in 1..Len(queue[s]) /\ Tail(queue[s])[i] = queue[s][i + 1]
    BY <1>1, <1>2
  <2>2. queue[s][1] <= queue[s][i + 1] /\ queue[s][i + 1] <= losses[s]
    BY <1>1, <1>3, <2>1
  <2>3. ASSUME NEW j \in i..Len(Tail(queue[s]))
        PROVE  Tail(queue[s])[i] <= Tail(queue[s])[j]
    <3>1. j \in 1..(Len(queue[s]) - 1) /\ j + 1 \in (i + 1)..Len(queue[s])
      BY <1>1, <1>2
    <3> QED BY <1>2, <1>3, <2>1, <3>1
  <2> QED BY <1>1, <2>1, <2>2, <2>3
<1> QED BY <1>1, <1>4, <1>5, <1>6

\* Every step keeps the types.
LEMMA TypeStep == ASSUME CanInv, [CanNext]_canVars PROVE CanTypeOK'
<1> USE DEF CanInv, CanTypeOK
<1>1. CASE Arrive
  <2> PICK s \in Sockets :
        \/ /\ queue' = [queue EXCEPT ![s] = Append(@, losses[s])] /\ UNCHANGED losses
        \/ /\ losses[s] < MaxLoss /\ losses' = [losses EXCEPT ![s] = @ + 1]
           /\ UNCHANGED queue
    BY <1>1 DEF Arrive
  <2>0. losses[s] \in 0..MaxLoss /\ queue[s] \in Seq(Nat)
    OBVIOUS
  <2>1. losses[s] \in Nat
    BY <2>0, Constants
  <2>2. Append(queue[s], losses[s]) \in Seq(Nat)
    BY <2>0, <2>1
  <2>3. queue' \in [Sockets -> Seq(Nat)]
    BY <2>2
  <2>4. losses' \in [Sockets -> 0..MaxLoss]
    <3>1. losses[s] < MaxLoss => losses[s] + 1 \in 0..MaxLoss
      <4> HIDE DEF CanInv, CanTypeOK
      <4> QED BY <2>1, Constants
    <3> QED BY <2>0, <3>1
  <2> QED BY SMTT(30), <1>1, <2>3, <2>4 DEF Arrive
<1>2. CASE Open
  <2>1. newFd' \in Fds
    BY <1>2, FreeFd DEF Open, FdsInv
  <2>2. opened' \in 0..MaxOpen /\ opened' = opened + 1 /\ opened \in Nat
    BY <1>2, Constants DEF Open
  <2>3. file' \in [Fds -> 0..opened']
    BY <1>2, <2>1, <2>2 DEF Open
  <2>4. sock' \in 0..opened'
    BY <1>2, <2>2 DEF Open
  <2> QED BY <1>2, <2>1, <2>2, <2>3, <2>4 DEF Open
<1>3. CASE OpenFails
  <2>0. 0 \in 0..opened
    BY Constants
  <2>1. file' \in [Fds -> 0..opened']
    BY <1>3, <2>0 DEF OpenFails
  <2> QED BY <1>3, <2>1 DEF OpenFails
<1>4. CASE Swap
  BY <1>4 DEF Swap, Closed
<1>5. CASE Close
  BY <1>5 DEF Close
<1>6. CASE CloseFd
  BY <1>6 DEF CloseFd, Closed
<1>7. CASE ReadFd \/ CheckRunning \/ Poll \/ RecvFails
  BY <1>7 DEF ReadFd, CheckRunning, Poll, RecvFails
<1>8. CASE RecvEnters
  <2>1. file[fd] \in 0..opened
    BY <1>8 DEF RecvEnters
  <2> QED BY <1>8, <2>1 DEF RecvEnters
<1>14. CASE ForgetOvfl
  BY <1>14 DEF ForgetOvfl
<1>15. CASE Start
  BY <1>15 DEF Start
<1>16. CASE Stop
  BY <1>16 DEF Stop
<1>9. CASE Recv
  <2>1. sock \in Sockets
    BY <1>9, Constants DEF Recv
  <2>2. queue[sock] \in Seq(Nat) /\ queue[sock] # <<>>
    BY <1>9, <2>1 DEF Recv
  <2>3. Head(queue[sock]) \in Nat /\ Tail(queue[sock]) \in Seq(Nat)
    BY SMTT(30), <2>2
  <2>4. queue' \in [Sockets -> Seq(Nat)] /\ frame' \in Nat /\ seen' \in [Sockets -> Nat]
    BY <1>9, <2>1, <2>3 DEF Recv
  <2>5. frame' - seen[sock] \in Nat
    <3>1. seen[sock] \in Nat /\ seen[sock] <= Head(queue[sock])
      BY <2>1, <2>2, ReadMore
    <3>2. frame' = Head(queue[sock])
      BY <1>9 DEF Recv
    <3> QED BY SMTT(30), <2>3, <3>1, <3>2
  <2>6. missed' \in Nat
    BY SMTT(30), <1>9, <2>5 DEF Recv
  <2> QED BY <1>9, <2>4, <2>6 DEF Recv
<1>10. CASE CountLoss
  BY <1>10, LossType DEF CountLoss
<1>11. CASE SetBase
  BY <1>11 DEF SetBase
<1>12. CASE PushRecord
  <2>1. /\ ppc' = "top"
        /\ UNCHANGED <<file, opened, queue, losses, canFd, newFd, spc, fd, sock, running,
                       haveOvfl, lastOvfl, frame, missed, seen>>
    BY <1>12 DEF PushRecord, Continue, kernelVars, scpiVars
  <2>2. dropped' \in Nat /\ ringLost' \in Nat /\ afterStop' \in Nat
    BY SMTT(30), <1>12 DEF PushRecord
  <2> QED BY <2>1, <2>2
<1>13. CASE UNCHANGED canVars
  BY <1>13 DEF canVars
<1> QED BY <1>1, <1>2, <1>3, <1>4, <1>5, <1>6, <1>7, <1>8, <1>9, <1>10, <1>11, <1>12, <1>13,
           <1>14, <1>15, <1>16 DEF CanNext, Scpi, Producer

\* The interface's descriptor and that of an OPEN are the only ones.
LEMMA FdsStep == ASSUME CanInv, [CanNext]_canVars PROVE FdsInv'
<1> USE DEF FdsInv, OneSocket, RunningMeansOpen
<1>0. FdsInv /\ CanTypeOK
  BY DEF CanInv
<1>1. CASE Arrive \/ Producer
  <2>1. UNCHANGED <<file, canFd, newFd, spc, running>>
    BY <1>1 DEF Arrive, Producer, ReadFd, CheckRunning, Poll, RecvEnters, RecvFails, Recv,
                CountLoss, SetBase, PushRecord
  <2> QED BY <1>0, <2>1
<1>2. CASE Open
  <2>1. /\ newFd' \in Fds /\ file[newFd'] = NoSocket /\ newFd' # canFd
        /\ opened + 1 # NoSocket
    BY <1>0, <1>2, FreeFd, Constants DEF Open, CanTypeOK
  <2>2. /\ file' = [file EXCEPT ![newFd'] = opened + 1] /\ spc' = "swap"
        /\ UNCHANGED <<canFd, running>> /\ newFd = NoFd
    BY <1>0, <1>2 DEF Open
  <2>3. \A n \in Fds : file'[n] = IF n = newFd' THEN opened + 1 ELSE file[n]
    BY <1>0, <2>1, <2>2 DEF CanTypeOK
  <2> QED BY <1>0, <2>1, <2>2, <2>3
<1>3. CASE OpenFails
  <2>1. \A n \in Fds : file'[n] = IF n = newFd THEN NoSocket ELSE file[n]
    BY <1>0, <1>3 DEF OpenFails, CanTypeOK
  <2> QED BY <1>0, <1>3, <2>1 DEF OpenFails
<1>4. CASE Swap
  <2>1. \A n \in Fds : file'[n] = IF n = canFd THEN NoSocket ELSE file[n]
    BY <1>0, <1>4 DEF Swap, Closed, CanTypeOK
  <2> QED BY <1>0, <1>4, <2>1 DEF Swap
<1>5. CASE CloseFd
  <2>1. \A n \in Fds : file'[n] = IF n = canFd THEN NoSocket ELSE file[n]
    BY <1>0, <1>5 DEF CloseFd, Closed, CanTypeOK
  <2> QED BY <1>0, <1>5, <2>1 DEF CloseFd
<1>6. CASE ForgetOvfl
  BY <1>0, <1>6 DEF ForgetOvfl
<1>7. CASE Close
  BY <1>0, <1>7 DEF Close
<1>8. CASE Start
  BY <1>0, <1>8 DEF Start
<1>9. CASE Stop
  BY <1>0, <1>9 DEF Stop
<1>10. CASE UNCHANGED canVars
  BY <1>0, <1>10 DEF canVars
<1> QED BY <1>1, <1>2, <1>3, <1>4, <1>5, <1>6, <1>7, <1>8, <1>9, <1>10 DEF CanNext, Scpi

\* What the producer captures after STOP is the frame it was past its checks with.
LEMMA StopStep == ASSUME CanInv, [CanNext]_canVars PROVE StopInv'
<1> USE DEF StopInv, AtMostOneAfterStop
<1>0. /\ StopInv /\ afterStop \in Nat /\ running \in BOOLEAN
  BY DEF CanInv, CanTypeOK
<1>1. CASE Arrive \/ Open \/ OpenFails \/ Swap \/ ForgetOvfl \/ CloseFd
  <2>1. UNCHANGED <<running, ppc, afterStop>>
    BY <1>1 DEF Arrive, Open, OpenFails, Swap, ForgetOvfl, CloseFd
  <2> QED BY <1>0, <2>1
<1>2. CASE Close \/ Stop
  <2>1. running' = FALSE /\ ppc' = ppc /\ afterStop' = IF running THEN 0 ELSE afterStop
    BY <1>2 DEF Close, Stop
  <2> QED BY <1>0, <2>1
<1>3. CASE Start
  BY <1>0, <1>3 DEF Start
<1>4. CASE ReadFd \/ CheckRunning \/ Poll \/ RecvEnters \/ RecvFails \/ Recv \/ CountLoss \/ SetBase
  <2>1. UNCHANGED <<running, afterStop>>
    BY <1>4 DEF ReadFd, CheckRunning, Poll, RecvEnters, RecvFails, Recv, CountLoss, SetBase
  <2>2. ppc' \in {"top", "check", "dead"} \/ running \/ ppc \notin {"top", "check", "dead"}
    BY <1>4 DEF ReadFd, CheckRunning, Poll, RecvEnters, RecvFails, Recv, CountLoss, SetBase
  <2> QED BY <1>0, <2>1, <2>2
<1>5. CASE PushRecord
  <2>1. ppc = "push" /\ ppc' = "top" /\ running' = running
    BY <1>5 DEF PushRecord, Continue
  <2>2. afterStop' \in {afterStop, IF running THEN 0 ELSE afterStop + 1}
    BY <1>5 DEF PushRecord
  <2> QED BY <1>0, <2>1, <2>2
<1>6. CASE UNCHANGED canVars
  BY <1>0, <1>6 DEF canVars
<1> QED BY <1>1, <1>2, <1>3, <1>4, <1>5, <1>6 DEF CanNext, Scpi, Producer

\* Losses grow while frames wait, and frames are read from the head.
LEMMA QueuesStep == ASSUME CanInv, [CanNext]_canVars PROVE QueuesInv'
<1>0. CanTypeOK /\ QueuesInv
  BY DEF CanInv
<1>1. CASE Arrive
  <2> PICK s \in Sockets :
        \/ /\ queue' = [queue EXCEPT ![s] = Append(@, losses[s])] /\ UNCHANGED losses
        \/ /\ losses' = [losses EXCEPT ![s] = @ + 1] /\ UNCHANGED queue
    BY <1>1 DEF Arrive
  <2>1. seen' = seen
    BY <1>1 DEF Arrive
  <2> SUFFICES ASSUME NEW t \in Sockets PROVE QueueInOrder(t)'
    BY DEF QueuesInv
  <2>2. /\ queue[t] \in Seq(Nat) /\ losses[t] \in Nat /\ seen[t] \in Nat
        /\ queue \in [Sockets -> Seq(Nat)] /\ losses \in [Sockets -> 0..MaxLoss]
    <3>1. losses[t] \in 0..MaxLoss
      BY <1>0 DEF CanTypeOK
    <3>2. losses[t] \in Nat
      BY <3>1, Constants
    <3> QED BY <1>0, <3>2 DEF CanTypeOK
  <2>3. QueueInOrder(t)
    BY <1>0 DEF QueuesInv
  <2>4. CASE t # s
    <3>1. queue'[t] = queue[t] /\ losses'[t] = losses[t]
      BY <2>2, <2>4
    <3> QED BY <2>1, <2>3, <3>1 DEF QueueInOrder
  <2>5. CASE t = s /\ queue' = [queue EXCEPT ![s] = Append(@, losses[s])] /\ UNCHANGED losses
    <3>1. queue'[t] = Append(queue[t], losses[t]) /\ losses'[t] = losses[t]
      BY <2>2, <2>5
    <3>2. /\ DOMAIN queue'[t] = 1..(Len(queue[t]) + 1) /\ Len(queue'[t]) = Len(queue[t]) + 1
          /\ \A i \in 1..Len(queue[t]) : queue'[t][i] = queue[t][i]
          /\ queue'[t][Len(queue[t]) + 1] = losses[t]
          /\ Len(queue[t]) \in Nat
      BY <2>2, <3>1
    <3>3. \A i \in 1..Len(queue[t]) :
            /\ seen[t] <= queue[t][i] /\ queue[t][i] <= losses[t] /\ queue[t][i] \in Nat
            /\ \A j \in i..Len(queue[t]) : queue[t][i] <= queue[t][j]
      BY SMTT(30), <2>2, <2>3 DEF QueueInOrder
    <3>4. seen[t] <= losses[t]
      BY <2>3 DEF QueueInOrder
    <3>5. ASSUME NEW i \in 1..(Len(queue[t]) + 1)
          PROVE  /\ seen[t] <= queue'[t][i] /\ queue'[t][i] <= losses[t]
                 /\ \A j \in i..(Len(queue[t]) + 1) : queue'[t][i] <= queue'[t][j]
      <4>1. CASE i = Len(queue[t]) + 1
        BY <2>2, <3>2, <3>4, <4>1
      <4>2. CASE i \in 1..Len(queue[t])
        <5>1. ASSUME NEW j \in i..(Len(queue[t]) + 1) PROVE queue'[t][i] <= queue'[t][j]
          <6>1. queue'[t][i] = queue[t][i]
            BY <3>2, <4>2
          <6>2. CASE j = Len(queue[t]) + 1
            <7>1. queue'[t][j] = losses[t] /\ queue[t][i] <= losses[t]
              BY <3>2, <3>3, <4>2, <6>2
            <7> QED BY <6>1, <7>1
          <6>3. CASE j \in i..Len(queue[t])
            <7>1. queue'[t][j] = queue[t][j] /\ queue[t][i] <= queue[t][j]
              BY <3>2, <3>3, <4>2, <6>3
            <7> QED BY <6>1, <7>1
          <6> QED BY <3>2, <6>2, <6>3
        <5>2. queue'[t][i] = queue[t][i] /\ seen[t] <= queue[t][i] /\ queue[t][i] <= losses[t]
          BY <3>2, <3>3, <4>2
        <5> QED BY <5>1, <5>2
      <4> QED BY <3>2, <4>1, <4>2
    <3> QED BY <2>1, <3>1, <3>2, <3>4, <3>5 DEF QueueInOrder
  <2>6. CASE t = s /\ losses' = [losses EXCEPT ![s] = @ + 1] /\ UNCHANGED queue
    <3>1. losses'[t] = losses[t] + 1 /\ queue'[t] = queue[t]
      BY <2>2, <2>6
    <3>2. \A i \in DOMAIN queue[t] : queue[t][i] \in Nat
      BY <2>2
    <3> QED BY <2>1, <2>2, <2>3, <3>1, <3>2 DEF QueueInOrder
  <2> QED BY <2>4, <2>5, <2>6
<1>2. CASE Recv
  <2>1. /\ sock \in Sockets /\ queue[sock] # <<>>
        /\ queue' = [queue EXCEPT ![sock] = Tail(@)]
        /\ seen' = [seen EXCEPT ![sock] = Head(queue[sock])] /\ losses' = losses
    <3>1. sock \in 0..opened /\ sock # NoSocket /\ opened \in 0..MaxOpen
      BY <1>0, <1>2 DEF Recv, CanTypeOK
    <3> QED BY <1>2, <3>1, Constants DEF Recv
  <2> SUFFICES ASSUME NEW t \in Sockets PROVE QueueInOrder(t)'
    BY DEF QueuesInv
  <2>2. QueueInOrder(t) /\ queue \in [Sockets -> Seq(Nat)] /\ seen \in [Sockets -> Nat]
    BY <1>0 DEF QueuesInv, CanTypeOK
  <2>3. CASE t # sock
    <3>1. queue'[t] = queue[t] /\ seen'[t] = seen[t]
      BY <2>1, <2>2, <2>3
    <3> QED BY <2>1, <2>2, <3>1 DEF QueueInOrder
  <2>4. CASE t = sock
    <3>1. queue'[t] = Tail(queue[t]) /\ seen'[t] = Head(queue[t])
      BY <2>1, <2>2, <2>4
    <3> QED BY <2>1, <2>4, <3>1, ReadMore DEF QueueInOrder
  <2> QED BY <2>3, <2>4
<1>3. CASE UNCHANGED <<queue, losses, seen>>
  BY <1>0, <1>3 DEF QueuesInv, QueueInOrder
<1>4. CASE Scpi
  BY <1>3, <1>4 DEF Scpi, Open, OpenFails, Swap, ForgetOvfl, Close, CloseFd, Start, Stop
<1>5. CASE Producer /\ ~Recv
  BY <1>3, <1>5 DEF Producer, ReadFd, CheckRunning, Poll, RecvEnters, RecvFails, CountLoss,
                    SetBase, PushRecord
<1>6. CASE UNCHANGED canVars
  BY <1>3, <1>6 DEF canVars
<1> QED BY <1>1, <1>2, <1>4, <1>5, <1>6 DEF CanNext, Producer

\* The drop total adds the difference between two frames of a socket, once.
LEMMA LossStep == ASSUME CanInv, [CanNext]_canVars PROVE LossInv'
<1>0. CanTypeOK /\ QueuesInv /\ LossInv
  BY DEF CanInv
<1>1. /\ seen[1] \in Nat /\ losses[1] \in 0..MaxLoss /\ seen[1] <= losses[1]
      /\ missed \in Nat /\ lastOvfl \in Nat /\ frame \in Nat /\ dropped \in Nat
      /\ ringLost \in Nat /\ opened \in Nat
  <2>1. 1 \in Sockets
    BY Constants
  <2>2. seen[1] <= losses[1]
    BY <1>0, <2>1 DEF QueuesInv, QueueInOrder
  <2> QED BY <1>0, <2>1, <2>2, Constants DEF CanTypeOK
<1>2. CASE UNCHANGED <<opened, missed, seen, lastOvfl, frame, dropped, ringLost, ppc>>
  BY <1>0, <1>2 DEF LossInv
<1>3. CASE Arrive \/ OpenFails \/ Swap \/ ForgetOvfl \/ Close \/ CloseFd \/ Start \/ Stop
  BY <1>2, <1>3 DEF Arrive, OpenFails, Swap, ForgetOvfl, Close, CloseFd, Start, Stop
<1>4. CASE Open
  <2>1. opened' = opened + 1 /\ UNCHANGED <<missed, seen, lastOvfl, frame, dropped, ringLost, ppc>>
    BY <1>4 DEF Open
  <2> QED BY <1>0, <1>1, <2>1 DEF LossInv
<1>5. CASE ReadFd \/ CheckRunning \/ Poll \/ RecvEnters \/ RecvFails
  <2>1. /\ ppc \notin {"base", "count"} /\ ppc' \notin {"base", "count"}
        /\ UNCHANGED <<opened, missed, seen, lastOvfl, frame, dropped, ringLost>>
    BY <1>5 DEF ReadFd, CheckRunning, Poll, RecvEnters, RecvFails
  <2> QED BY <1>0, <2>1 DEF LossInv
<1>6. CASE Recv
  <2> SUFFICES ASSUME opened <= 1 PROVE LossInv'
    BY <1>6 DEF Recv, LossInv
  <2>1. sock = 1 /\ 1 \in Sockets
    BY <1>0, <1>1, <1>6, Constants DEF Recv, CanTypeOK
  <2>2. Head(queue[1]) \in Nat /\ seen[1] <= Head(queue[1])
    BY <1>6, <2>1, ReadMore DEF Recv
  <2>3. /\ ppc = "reading" /\ ppc' = "count" /\ frame' = Head(queue[1])
        /\ missed' = missed + (frame' - seen[1]) /\ seen'[1] = frame'
        /\ UNCHANGED <<opened, lastOvfl, dropped, ringLost>>
    BY <1>0, <1>6, <2>1 DEF Recv, CanTypeOK
  <2> QED BY <1>0, <1>1, <2>2, <2>3 DEF LossInv
<1>7. CASE CountLoss
  <2> SUFFICES ASSUME opened <= 1 PROVE LossInv'
    BY <1>7 DEF CountLoss, LossInv
  <2>1. /\ ppc = "count" /\ ppc' = "base"
        /\ dropped' \in {dropped, dropped + LossSince}
        /\ UNCHANGED <<opened, missed, seen, lastOvfl, frame, ringLost>>
    BY <1>1, <1>7 DEF CountLoss
  <2>2. lastOvfl <= frame /\ frame = seen[1] /\ dropped <= ringLost + lastOvfl /\ missed = seen[1]
    BY <1>0, <2>1 DEF LossInv
  <2>3. LossSince = frame - lastOvfl
    <3>1. frame - lastOvfl \in Nat /\ frame - lastOvfl < Word
      BY <1>1, <2>2, Constants
    <3> QED BY <3>1, Constants, ModWithin DEF LossSince
  <2>4. dropped' <= ringLost + seen[1]
    BY <1>1, <2>1, <2>2, <2>3
  <2> QED BY <1>1, <2>1, <2>2, <2>4 DEF LossInv
<1>8. CASE SetBase
  <2> SUFFICES ASSUME opened <= 1 PROVE LossInv'
    BY <1>8 DEF SetBase, LossInv
  <2>1. /\ ppc = "base" /\ ppc' = "push"
        /\ lastOvfl' = IF frame # 0 THEN frame ELSE lastOvfl
        /\ UNCHANGED <<opened, missed, seen, frame, dropped, ringLost>>
    BY <1>8 DEF SetBase, Reported
  <2> QED BY <1>0, <1>1, <2>1 DEF LossInv
<1>9. CASE PushRecord
  <2>1. /\ ppc = "push" /\ ppc' = "top" /\ UNCHANGED <<opened, missed, seen, lastOvfl, frame>>
        /\ \/ UNCHANGED <<dropped, ringLost>>
           \/ dropped' = dropped + 1 /\ ringLost' = ringLost + 1
    BY <1>9 DEF PushRecord, Continue
  <2> QED BY <1>0, <1>1, <2>1 DEF LossInv
<1>10. CASE UNCHANGED canVars
  BY <1>2, <1>10 DEF canVars
<1> QED BY <1>3, <1>4, <1>5, <1>6, <1>7, <1>8, <1>9, <1>10 DEF CanNext, Scpi, Producer

------------------------------------------------------------------------------
\* The invariant of the capture.
THEOREM CanInvariant == CanSpec => []CanInv
<1>1. ASSUME CanInv, [CanNext]_canVars PROVE CanInv'
  BY <1>1, TypeStep, FdsStep, StopStep, QueuesStep, LossStep DEF CanInv
<1>2. QED BY InitInv, <1>1, PTL DEF CanSpec

\* However OPEN, CLOSe and their failures follow one another, no descriptor is
\* leaked or closed twice, and a capture that runs has its interface.
THEOREM SocketsAlwaysKept == CanSpec => []SocketsKept
<1>1. CanInv => SocketsKept
  BY DEF CanInv, FdsInv, SocketsKept
<1>2. QED BY <1>1, CanInvariant, PTL

\* STOP and CLOSe end the capture within the frame at hand.
THEOREM StopsWithinAFrame == CanSpec => []AtMostOneAfterStop
<1>1. CanInv => AtMostOneAfterStop
  BY DEF CanInv, StopInv
<1>2. QED BY <1>1, CanInvariant, PTL

\* On its first interface the daemon never reports more losses than there were,
\* whatever the width of the kernel's counter.
THEOREM NeverOvercountsEver == CanSpec => []NeverOvercounts
<1>1. CanInv => NeverOvercounts
  <2> SUFFICES ASSUME CanInv, opened <= 1 PROVE dropped <= missed + ringLost
    BY DEF NeverOvercounts
  <2>1. dropped \in Nat /\ missed \in Nat /\ ringLost \in Nat /\ lastOvfl \in Nat
    BY DEF CanInv, CanTypeOK
  <2> QED BY <2>1 DEF CanInv, LossInv
<1>2. QED BY <1>1, CanInvariant, PTL

------------------------------------------------------------------------------
(* The SocketCAN application *)

\* The capture.  A record of an earlier plug-in is gone by the first pump after
\* the new one, and until then nobody reads.
CaptureTypeOK ==
  /\ mounted \in BOOLEAN /\ streamRunning \in BOOLEAN /\ framing \in BOOLEAN
  /\ plugs \in Nat /\ count \in Nat /\ lost \in Nat /\ offered \in Nat
  /\ records \in Seq(Nat) /\ pipe \in Seq(Nat)
  /\ starting \in {"no", "count", "lost"}
AllOf(s, p) == \A i \in 1..Len(s) : s[i] = p
CaptureInv ==
  /\ CaptureTypeOK
  /\ starting = "no" => offered = count + lost
  /\ starting # "no" => mounted /\ ~streamRunning /\ offered = 0
  /\ starting = "lost" => count = 0
  /\ ~mounted => pipe = <<>> /\ ~framing /\ ~streamRunning
  /\ AllOf(pipe, plugs)
  /\ mounted /\ (loop # "pump" \/ framing) => AllOf(records, plugs)

USE DEF plugVars, streamVars

------------------------------------------------------------------------------
(* The capture: what a step is to it.                                        *)

LEMMA CaptureCases ==
  ASSUME GsNext
  PROVE  \/ UNCHANGED <<plugVars, streamVars>> /\ (loop' = loop \/ loop' = "pump" \/ loop # "pump")
         \/ Push /\ UNCHANGED <<plugVars, loop>>
         \/ /\ loop = "usb" /\ loop' = "pump" /\ starting = "no" /\ mounted
            /\ StreamStart \/ StreamStop \/ StreamFraming
            /\ UNCHANGED plugVars
         \/ /\ loop = "usb" /\ loop' = "pump" /\ StreamReset
            /\ mounted /\ mounted' = FALSE /\ UNCHANGED plugs
         \/ /\ loop = "usb" /\ loop' = "pump" /\ starting = "no"
            /\ ~mounted /\ mounted' = TRUE /\ plugs' = plugs + 1 /\ UNCHANGED streamVars
         \/ (ClearCount \/ ClearLost) /\ UNCHANGED <<plugVars, loop>>
         \/ loop = "pump" /\ loop' = "poll" /\ starting = "no" /\ Pump /\ UNCHANGED plugVars
         \/ ReadPipe /\ UNCHANGED <<plugVars, loop>>
<1> HIDE DEF plugVars, streamVars
<1>1. CASE UsbEvent
  <2>1. CASE ControlRequest
    BY <1>1, <2>1 DEF UsbEvent, Goes, ControlRequest
  <2>2. CASE mounted /\ ScpiCommand
    BY <1>1, <2>2 DEF UsbEvent, Goes, ScpiCommand
  <2>3. CASE Unmount
    BY <1>1, <2>3 DEF UsbEvent, Goes, Unmount
  <2>4. CASE Mount
    BY <1>1, <2>4 DEF UsbEvent, Goes, Mount
  <2> QED BY <1>1, <2>1, <2>2, <2>3, <2>4 DEF UsbEvent
<1>2. CASE NoUsbEvent \/ PollCompleted \/ SendOut \/ GiveIn
  BY <1>2 DEF NoUsbEvent, PollCompleted, SendOut, GiveIn, Goes
<1>3. CASE StartGoesOn
  BY <1>3 DEF StartGoesOn
<1>4. CASE StreamPump
  BY <1>4 DEF StreamPump, Goes
<1>5. CASE DriverSends \/ DriverReads
  BY <1>5 DEF DriverSends, DriverReads
<1>6. CASE ReaderReads
  BY <1>6 DEF ReaderReads
<1>7. CASE \E ch \in Chan : RxIsr(ch)
  BY <1>7 DEF RxIsr, QueueForDriver, QueueForScpi
<1>8. CASE \E ch \in Chan : \E mb \in Mailbox : Transmits(ch, mb)
  BY <1>8 DEF Transmits
<1> QED BY <1>1, <1>2, <1>3, <1>4, <1>5, <1>6, <1>7, <1>8 DEF GsNext, MainLoop

\* Pieces of a queue whose records are all of one plug-in are so too.
LEMMA OnePlug ==
  ASSUME NEW s \in Seq(Nat), NEW t \in Seq(Nat), NEW p \in Nat, NEW n \in 0..Len(s),
         AllOf(s, p), AllOf(t, p)
  PROVE  /\ SubSeq(s, n + 1, Len(s)) \in Seq(Nat) /\ AllOf(SubSeq(s, n + 1, Len(s)), p)
         /\ t \o SubSeq(s, 1, n) \in Seq(Nat) /\ AllOf(t \o SubSeq(s, 1, n), p)
<1>1. SubSeq(s, n + 1, Len(s)) \in Seq(Nat) /\ AllOf(SubSeq(s, n + 1, Len(s)), p)
  BY DEF AllOf
<1>2. /\ SubSeq(s, 1, n) \in Seq(Nat) /\ Len(SubSeq(s, 1, n)) = n
      /\ \A i \in 1..n : SubSeq(s, 1, n)[i] = p
  BY DEF AllOf
<1>3. t \o SubSeq(s, 1, n) \in Seq(Nat) /\ AllOf(t \o SubSeq(s, 1, n), p)
  BY <1>2 DEF AllOf
<1> QED BY <1>1, <1>3

LEMMA AppendOne ==
  ASSUME NEW s \in Seq(Nat), NEW p \in Nat
  PROVE  /\ Append(s, p) \in Seq(Nat) /\ (AllOf(s, p) => AllOf(Append(s, p), p))
         /\ AllOf(<<>>, p) /\ <<>> \in Seq(Nat)
         /\ s # <<>> => Tail(s) \in Seq(Nat)
         /\ s # <<>> /\ AllOf(s, p) => AllOf(Tail(s), p)
BY DEF AllOf

LEMMA CaptureStep == ASSUME CaptureInv, GsNext PROVE CaptureInv'
<1> USE DEF CaptureInv, CaptureTypeOK
<1>1. CASE UNCHANGED <<plugVars, streamVars>> /\ (loop' = loop \/ loop' = "pump" \/ loop # "pump")
  BY <1>1
<1>2. CASE Push /\ UNCHANGED <<plugVars, loop>>
  <2>1. CASE RecordFits
    <3>1. records' = Append(records, plugs) /\ count' = count + 1 /\ lost' = lost
      BY <1>2, <2>1 DEF Push
    <3>2. records' \in Seq(Nat) /\ (AllOf(records, plugs) => AllOf(records', plugs'))
      BY <1>2, <3>1, AppendOne
    <3> QED BY <1>2, <3>1, <3>2 DEF Push
  <2>2. CASE ~RecordFits
    <3>1. /\ streamRunning /\ records' = records /\ count' = count /\ lost' = lost + 1
          /\ offered' = offered + 1 /\ UNCHANGED <<streamRunning, framing, pipe, starting>>
      BY <1>2, <2>2 DEF Push
    <3> QED BY <1>2, <3>1
  <2> QED BY <2>1, <2>2
<1>3. CASE /\ loop = "usb" /\ loop' = "pump" /\ starting = "no" /\ mounted
           /\ StreamStart \/ StreamStop \/ StreamFraming
           /\ UNCHANGED plugVars
  <2>1. CASE StreamStart
    BY <1>3, <2>1 DEF StreamStart
  <2>2. CASE StreamStop
    BY <1>3, <2>2 DEF StreamStop
  <2>3. CASE StreamFraming
    BY <1>3, <2>3 DEF StreamFraming
  <2> QED BY <1>3, <2>1, <2>2, <2>3
<1>4. CASE /\ loop = "usb" /\ loop' = "pump" /\ StreamReset
           /\ mounted /\ mounted' = FALSE /\ UNCHANGED plugs
  <2>1. /\ streamRunning' = FALSE /\ framing' = FALSE /\ pipe' = <<>> /\ plugs' = plugs
        /\ UNCHANGED <<records, count, lost, starting, offered>> /\ starting = "no"
    BY <1>4 DEF StreamReset
  <2>2. pipe' \in Seq(Nat) /\ AllOf(pipe', plugs')
    BY <2>1, AppendOne
  <2>3. CaptureTypeOK'
    BY <1>4, <2>1, <2>2
  <2> QED BY <1>4, <2>1, <2>2, <2>3
<1>5. CASE /\ loop = "usb" /\ loop' = "pump" /\ starting = "no"
           /\ ~mounted /\ mounted' = TRUE /\ plugs' = plugs + 1 /\ UNCHANGED streamVars
  BY <1>5, AppendOne
<1>6. CASE (ClearCount \/ ClearLost) /\ UNCHANGED <<plugVars, loop>>
  <2>1. CASE ClearCount
    BY <1>6, <2>1 DEF ClearCount
  <2>2. CASE ClearLost
    BY <1>6, <2>2 DEF ClearLost
  <2> QED BY <1>6, <2>1, <2>2
<1>7. CASE loop = "pump" /\ loop' = "poll" /\ starting = "no" /\ Pump /\ UNCHANGED plugVars
  <2>1. CASE ~Listening
    BY <1>7, <2>1, AppendOne DEF Pump, Listening
  <2>2. CASE Listening
    <3>1. AllOf(records, plugs)
      BY <1>7, <2>2 DEF Listening
    <3>2. PICK n \in 0..Len(records) : /\ pipe' = pipe \o SubSeq(records, 1, n)
                                       /\ records' = SubSeq(records, n + 1, Len(records))
      BY <1>7, <2>2 DEF Pump, ToHost
    <3>3. pipe' \in Seq(Nat) /\ records' \in Seq(Nat) /\ AllOf(pipe', plugs') /\ AllOf(records', plugs')
      BY <1>7, <3>1, <3>2, OnePlug
    <3> QED BY <1>7, <2>2, <3>3 DEF Pump, Listening
  <2> QED BY <2>1, <2>2
<1>8. CASE ReadPipe /\ UNCHANGED <<plugVars, loop>>
  <2>1. Tail(pipe) \in Seq(Nat) /\ AllOf(Tail(pipe), plugs)
    BY <1>8, AppendOne DEF ReadPipe
  <2> QED BY <1>8, <2>1 DEF ReadPipe
<1> QED BY <1>1, <1>2, <1>3, <1>4, <1>5, <1>6, <1>7, <1>8, CaptureCases

\* can_stream.h: COUNt? and DROPped? account for every frame since STARt, and a
\* host reads no record of the host before it.
THEOREM CaptureAlwaysAccounted == GsSpec => []CaptureAccounted
<1>1. GsInit => CaptureInv
  <2> SUFFICES ASSUME GsInit PROVE CaptureInv
    OBVIOUS
  <2>1. <<>> \in Seq(Nat) /\ AllOf(<<>>, plugs)
    BY DEF AllOf
  <2>2. CaptureTypeOK
    BY <2>1 DEF GsInit, StreamInit, CaptureTypeOK
  <2> QED BY <2>1, <2>2 DEF GsInit, StreamInit, CaptureInv
<1>2. CaptureInv /\ [GsNext]_gsVars => CaptureInv'
  <2>1. ASSUME CaptureInv, UNCHANGED gsVars PROVE CaptureInv'
    BY <2>1 DEF gsVars, CaptureInv, CaptureTypeOK, AllOf
  <2> QED BY <2>1, CaptureStep
<1>3. CaptureInv => CaptureAccounted
  BY DEF CaptureInv, AllOf, CaptureAccounted, EveryFrameAccounted, RecordsOfThisHost
<1> QED BY <1>1, <1>2, <1>3, PTL DEF GsSpec

------------------------------------------------------------------------------
\* The transmissions.  A slot that waits for its mailbox has a mailbox that is
\* pending or has sent: an abort frees the slots of its channel with it.
Sending == [ch : Chan, id : EchoId]
Slot    == [state : {"FREE", "SENT", "DONE"}, id : EchoId \cup {"none"}]
TxInv ==
  /\ tx \in [Chan -> [Mailbox -> Slot]]
  /\ mbox \in [Chan -> [Mailbox -> {"empty", "pending", "sent", "aborted"}]]
  /\ outFifo \in Seq(Sending) /\ out \in Sending \cup {None} /\ up \subseteq Chan
  /\ \A ch \in Chan, mb \in Mailbox :
       tx[ch][mb].state = "SENT" => mbox[ch][mb] \in {"pending", "sent"}
DoneOnceSent ==
  \A ch \in Chan, mb \in Mailbox :
    tx[ch][mb].state = "SENT" /\ tx'[ch][mb].state = "DONE" => mbox[ch][mb] = "sent"

USE DEF hwVars, rxVars, txVars, hostVars

LEMMA TxFrame ==
  ASSUME TxInv, UNCHANGED <<tx, mbox>>,
         outFifo' \in Seq(Sending), out' \in Sending \cup {None}, up' \subseteq Chan
  PROVE  TxInv' /\ DoneOnceSent
<1>1. ASSUME NEW ch \in Chan, NEW mb \in Mailbox
      PROVE  tx[ch][mb].state # "SENT" \/ tx[ch][mb].state # "DONE"
  OBVIOUS
<1> QED BY <1>1 DEF TxInv, DoneOnceSent

\* A channel stops: its slots are free, whatever the abort made of its mailboxes.
LEMMA TxStops ==
  ASSUME TxInv, NEW ch \in Chan, GsStop(ch), UNCHANGED outFifo, up' \subseteq Chan
  PROVE  TxInv' /\ DoneOnceSent
<1>1. tx' = [tx EXCEPT ![ch] = [mb \in Mailbox |-> Free]] /\ Free \in Slot
  BY DEF GsStop, Free, Slot
<1>2. tx' \in [Chan -> [Mailbox -> Slot]]
  BY <1>1 DEF TxInv
<1>3. PICK went \in SUBSET {mb \in Mailbox : mbox[ch][mb] = "pending"} :
        mbox' = [mbox EXCEPT ![ch] = [mb \in Mailbox |->
                   CASE mbox[ch][mb] # "pending" -> mbox[ch][mb]
                     [] mb \in went -> "sent" [] OTHER -> "aborted"]]
  BY DEF GsStop, AbortPending
<1>4. mbox' \in [Chan -> [Mailbox -> {"empty", "pending", "sent", "aborted"}]]
  <2>1. \A mb \in Mailbox : (CASE mbox[ch][mb] # "pending" -> mbox[ch][mb]
                               [] mb \in went -> "sent" [] OTHER -> "aborted")
                            \in {"empty", "pending", "sent", "aborted"}
    BY DEF TxInv
  <2> QED BY <1>3, <2>1 DEF TxInv
<1>5. out' \in Sending \cup {None}
  BY DEF GsStop, TxInv
<1>6. \A mb \in Mailbox : tx'[ch][mb].state = "FREE"
  BY <1>1 DEF TxInv, Free
<1>7. \A c \in Chan \ {ch} : tx'[c] = tx[c] /\ mbox'[c] = mbox[c]
  BY <1>1, <1>3 DEF TxInv
<1>8. \A c \in Chan, mb \in Mailbox :
        tx'[c][mb].state = "SENT" => mbox'[c][mb] \in {"pending", "sent"}
  BY <1>6, <1>7 DEF TxInv
<1>9. DoneOnceSent
  BY <1>6, <1>7 DEF DoneOnceSent
<1> QED BY <1>2, <1>4, <1>5, <1>8, <1>9 DEF TxInv

\* A frame of the driver takes a free slot with an empty mailbox, or waits.
LEMMA TxWaits ==
  ASSUME TxInv, NEW f \in Sending, Waiting(f), outFifo' \in Seq(Sending), UNCHANGED up
  PROVE  TxInv' /\ DoneOnceSent
<1>1. CASE UNCHANGED <<tx, mbox>>
  <2>1. out' \in Sending \cup {None}
    BY <1>1 DEF Waiting, Sent, TxInv
  <2> QED BY <1>1, <2>1, TxFrame DEF TxInv
<1>2. ASSUME NEW mb \in Sendable(f.ch), Sent(f, mb)
      PROVE  TxInv' /\ DoneOnceSent
  <2>1. f.ch \in Chan /\ f.id \in EchoId /\ mb \in Mailbox
    BY <1>2 DEF Sending, Sendable
  <2>2. /\ tx' = [tx EXCEPT ![f.ch][mb] = [state |-> "SENT", id |-> f.id]]
        /\ mbox' = [mbox EXCEPT ![f.ch][mb] = "pending"] /\ out' = None
    BY <1>2 DEF Sent
  <2>3. tx' \in [Chan -> [Mailbox -> Slot]]
    BY <2>1, <2>2 DEF TxInv, Slot
  <2>4. mbox' \in [Chan -> [Mailbox -> {"empty", "pending", "sent", "aborted"}]]
    BY <2>1, <2>2 DEF TxInv
  <2>5. tx'[f.ch][mb].state = "SENT" /\ mbox'[f.ch][mb] = "pending"
    BY <2>1, <2>2 DEF TxInv
  <2>6. \A c \in Chan, m \in Mailbox :
          c # f.ch \/ m # mb => tx'[c][m] = tx[c][m] /\ mbox'[c][m] = mbox[c][m]
    BY <2>1, <2>2 DEF TxInv
  <2> QED BY <2>1, <2>2, <2>3, <2>4, <2>5, <2>6 DEF TxInv, DoneOnceSent
<1> QED BY <1>1, <1>2 DEF Waiting

LEMMA TxStep == ASSUME TxInv, GsNext PROVE TxInv' /\ DoneOnceSent
<1>0. ASSUME UNCHANGED <<tx, mbox, out, outFifo>>, up' \subseteq Chan
      PROVE  TxInv' /\ DoneOnceSent
  BY <1>0, TxFrame DEF TxInv
<1>1. CASE UsbEvent
  <2>1. CASE ControlRequest
    <3>1. PICK ch \in Chan : ModeStart(ch) \/ ModeReset(ch)
      BY <2>1 DEF ControlRequest
    <3>2. up' \subseteq Chan /\ UNCHANGED outFifo
      BY <2>1, <3>1 DEF ControlRequest, ModeStart, ModeReset, TxInv
    <3> QED BY <1>0, <3>1, <3>2, TxStops DEF ModeStart, ModeReset
  <2>2. CASE ScpiCommand
    <3>1. UNCHANGED <<tx, out, outFifo, up>>
      BY <2>2 DEF ScpiCommand
    <3>2. CASE UNCHANGED mbox
      BY <1>0, <3>1, <3>2 DEF TxInv
    <3>3. ASSUME NEW ch \in Chan, CanSend(ch)
          PROVE  TxInv' /\ DoneOnceSent
      <4>1. PICK mb \in Mailbox : mbox' = [mbox EXCEPT ![ch][mb] = "pending"]
        BY <3>3 DEF CanSend
      <4>2. mbox' \in [Chan -> [Mailbox -> {"empty", "pending", "sent", "aborted"}]]
        BY <4>1 DEF TxInv
      <4>3. \A c \in Chan, m \in Mailbox : mbox'[c][m] \in {mbox[c][m], "pending"}
        BY <4>1 DEF TxInv
      <4>4. TxInv'
        BY <3>1, <4>2, <4>3 DEF TxInv
      <4>5. DoneOnceSent
        BY <3>1 DEF DoneOnceSent
      <4> QED BY <4>4, <4>5
    <3> QED BY <2>2, <3>2, <3>3 DEF ScpiCommand
  <2>3. CASE Unmount \/ Mount
    <3>1. /\ UNCHANGED <<tx, mbox, out>>
          /\ (outFifo' = outFifo \/ outFifo' = <<>>) /\ (up' = up \/ up' = {})
      BY <2>3 DEF Unmount, Mount
    <3>2. /\ outFifo \in Seq(Sending) /\ <<>> \in Seq(Sending) /\ up \subseteq Chan
          /\ out' \in Sending \cup {None}
      BY <3>1 DEF TxInv
    <3>3. outFifo' \in Seq(Sending)
      BY <3>1, <3>2
    <3>4. up' \subseteq Chan
      BY <3>1, <3>2
    <3> QED BY <3>1, <3>2, <3>3, <3>4, TxFrame
  <2> QED BY <1>1, <2>1, <2>2, <2>3 DEF UsbEvent
<1>2. CASE NoUsbEvent \/ StartGoesOn \/ StreamPump \/ ReaderReads \/ DriverReads
  <2>1. UNCHANGED <<tx, mbox, out, outFifo, up>>
    BY <1>2 DEF NoUsbEvent, StartGoesOn, StreamPump, ReaderReads, DriverReads
  <2> QED BY <1>0, <2>1 DEF TxInv
<1>3. CASE PollCompleted
  <2>1. /\ tx' = [ch \in Chan |-> [mb \in Mailbox |->
                    IF Completes(ch, mb) THEN [tx[ch][mb] EXCEPT !.state = "DONE"] ELSE tx[ch][mb]]]
        /\ mbox' = [ch \in Chan |-> [mb \in Mailbox |->
                      IF Completes(ch, mb) THEN "empty" ELSE mbox[ch][mb]]]
        /\ UNCHANGED <<out, outFifo, up>>
    BY <1>3 DEF PollCompleted, AfterPoll
  <2>2. ASSUME NEW ch \in Chan, NEW mb \in Mailbox
        PROVE  /\ tx'[ch][mb] \in Slot
               /\ mbox'[ch][mb] \in {"empty", "pending", "sent", "aborted"}
               /\ Completes(ch, mb) => tx'[ch][mb].state = "DONE" /\ mbox[ch][mb] = "sent"
               /\ ~Completes(ch, mb) => tx'[ch][mb] = tx[ch][mb] /\ mbox'[ch][mb] = mbox[ch][mb]
    <3>1. tx[ch][mb] \in Slot /\ mbox[ch][mb] \in {"empty", "pending", "sent", "aborted"}
      BY DEF TxInv
    <3>2. CASE Completes(ch, mb)
      <4>1. mbox[ch][mb] = "sent"
        BY <3>2 DEF Completes, Polled, Rqcp, TxInv
      <4>2. tx'[ch][mb] = [tx[ch][mb] EXCEPT !.state = "DONE"] /\ mbox'[ch][mb] = "empty"
        BY <2>1, <3>2
      <4>3. tx'[ch][mb] \in Slot /\ tx'[ch][mb].state = "DONE"
        BY <3>1, <4>2 DEF Slot
      <4> QED BY <3>2, <4>1, <4>2, <4>3
    <3>3. CASE ~Completes(ch, mb)
      BY <2>1, <3>1, <3>3
    <3> QED BY <3>2, <3>3
  <2>3. /\ tx' \in [Chan -> [Mailbox -> Slot]]
        /\ mbox' \in [Chan -> [Mailbox -> {"empty", "pending", "sent", "aborted"}]]
    BY <2>1, <2>2
  <2>4. \A ch \in Chan, mb \in Mailbox :
          tx'[ch][mb].state = "SENT" => mbox'[ch][mb] \in {"pending", "sent"}
    BY <2>2 DEF TxInv
  <2>5. DoneOnceSent
    BY <2>2 DEF DoneOnceSent
  <2> QED BY <2>1, <2>3, <2>4, <2>5 DEF TxInv
<1>4. CASE SendOut
  <2>1. UNCHANGED up
    BY <1>4 DEF SendOut
  <2>2. CASE out # None
    <3>1. Waiting(out) /\ UNCHANGED outFifo /\ out \in Sending
      BY <1>4, <2>2 DEF SendOut, NextOut, TxInv
    <3> QED BY <2>1, <3>1, TxWaits DEF TxInv
  <2>3. CASE out = None /\ outFifo # <<>>
    <3>1. outFifo' = Tail(outFifo) /\ Waiting(Head(outFifo))
      BY <1>4, <2>3 DEF SendOut, NextOut
    <3>2. Tail(outFifo) \in Seq(Sending) /\ Head(outFifo) \in Sending
      BY <2>3 DEF TxInv
    <3> QED BY <2>1, <3>1, <3>2, TxWaits
  <2>4. CASE out = None /\ outFifo = <<>>
    BY <1>0, <1>4, <2>1, <2>4 DEF SendOut, NextOut, TxInv
  <2> QED BY <2>2, <2>3, <2>4
<1>5. CASE GiveIn
  <2>1. UNCHANGED <<mbox, out, outFifo, up>>
    BY <1>5 DEF GiveIn
  <2>2. CASE UNCHANGED tx
    BY <1>0, <2>1, <2>2 DEF TxInv
  <2>3. CASE GiveEcho
    <3>1. PICK slot \in Due : tx' = [tx EXCEPT ![slot[1]][slot[2]] = Free]
      BY <2>3 DEF GiveEcho
    <3>2. tx' \in [Chan -> [Mailbox -> Slot]]
      BY <3>1 DEF TxInv, Due, Free, Slot
    <3>3. \A c \in Chan, m \in Mailbox : tx'[c][m] = tx[c][m] \/ tx'[c][m].state = "FREE"
      BY <3>1 DEF TxInv, Due, Free
    <3>4. TxInv'
      BY <2>1, <3>2, <3>3 DEF TxInv
    <3>5. DoneOnceSent
      BY <3>3 DEF DoneOnceSent
    <3> QED BY <3>4, <3>5
  <2> QED BY <1>5, <2>2, <2>3 DEF GiveIn, GiveReceived
<1>6. CASE DriverSends
  <2>1. PICK ch \in up, id \in EchoId : outFifo' = Append(outFifo, Frame(ch, id))
    BY <1>6 DEF DriverSends
  <2>2. Frame(ch, id) \in Sending
    BY DEF TxInv, Frame, Sending
  <2>3. outFifo' \in Seq(Sending)
    BY <2>1, <2>2 DEF TxInv
  <2> QED BY <1>6, <2>3, TxFrame DEF DriverSends, TxInv
<1>7. CASE \E ch \in Chan : RxIsr(ch)
  <2>1. UNCHANGED <<tx, mbox, out, outFifo, up>>
    BY <1>7 DEF RxIsr
  <2> QED BY <1>0, <2>1 DEF TxInv
<1>8. ASSUME NEW ch \in Chan, NEW mb \in Mailbox, Transmits(ch, mb)
      PROVE  TxInv' /\ DoneOnceSent
  <2>1. mbox' = [mbox EXCEPT ![ch][mb] = "sent"] /\ UNCHANGED <<tx, out, outFifo, up>>
    BY <1>8 DEF Transmits
  <2>2. mbox' \in [Chan -> [Mailbox -> {"empty", "pending", "sent", "aborted"}]]
    BY <2>1 DEF TxInv
  <2>3. \A c \in Chan, m \in Mailbox : mbox'[c][m] \in {mbox[c][m], "sent"}
    BY <2>1 DEF TxInv
  <2>4. TxInv'
    BY <2>1, <2>2, <2>3 DEF TxInv
  <2>5. DoneOnceSent
    BY <2>1 DEF DoneOnceSent
  <2> QED BY <2>4, <2>5
<1> QED BY <1>1, <1>2, <1>3, <1>4, <1>5, <1>6, <1>7, <1>8 DEF GsNext, MainLoop

\* main.c, gs_poll: the driver is told that a frame was sent only once it was,
\* never of an aborted one, whoever starts, stops or takes the controller.
THEOREM EchoesAlwaysFollow == GsSpec => EchoesFollowTransmission
<1>1. GsInit => TxInv
  <2> SUFFICES ASSUME GsInit PROVE TxInv
    OBVIOUS
  <2>1. tx \in [Chan -> [Mailbox -> Slot]] /\ \A ch \in Chan, mb \in Mailbox : tx[ch][mb].state = "FREE"
    BY DEF GsInit, Free, Slot
  <2>2. /\ mbox \in [Chan -> [Mailbox -> {"empty", "pending", "sent", "aborted"}]]
        /\ outFifo \in Seq(Sending) /\ out \in Sending \cup {None} /\ up \subseteq Chan
    BY DEF GsInit
  <2> QED BY <2>1, <2>2 DEF TxInv
<1>2. TxInv /\ [GsNext]_gsVars => TxInv'
  <2>1. ASSUME TxInv, UNCHANGED gsVars PROVE TxInv'
    BY <2>1 DEF gsVars, TxInv
  <2> QED BY <2>1, TxStep
<1>3. TxInv /\ [GsNext]_gsVars =>
        [\A ch \in Chan, mb \in Mailbox :
           tx[ch][mb].state = "SENT" /\ tx'[ch][mb].state = "DONE" => mbox[ch][mb] = "sent"]_gsVars
  BY TxStep DEF DoneOnceSent
<1> QED BY <1>1, <1>2, <1>3, PTL DEF GsSpec, EchoesFollowTransmission

------------------------------------------------------------------------------
\* The channels.  The driver's are those it has brought up.
OwnerInv ==
  /\ owner \in [Chan -> {"NONE", "SCPI", "GS"}] /\ bus \in [Chan -> BOOLEAN]
  /\ ClosedIsSilent
  /\ \A ch \in up : owner[ch] = "GS"
RxInv ==
  /\ canRing \in 0..RingCap
  /\ gsRing \in Seq([ch : Chan, id : {"rx"}]) /\ Len(gsRing) <= RingCap

\* Where a frame of the driver may be, and that it is in one place at a time.
Occurs(s, f) == \E i \in DOMAIN s : s[i] = f
Once(s, f)   == \A i, j \in DOMAIN s : s[i] = f /\ s[j] = f => i = j
InSlot(ch, id) == \E mb \in Mailbox : tx[ch][mb].id = id
OneSlot(ch, id) == \A m, n \in Mailbox : tx[ch][m].id = id /\ tx[ch][n].id = id => m = n
OnePlace(ch, id) ==
  LET f == Frame(ch, id)
  IN /\ Once(outFifo, f) /\ OneSlot(ch, id)
     /\ id \in slots[ch] <=> Occurs(outFifo, f) \/ InSlot(ch, id) \/ out = f \/ inFifo = <<f>>
     /\ Occurs(outFifo, f) => ~InSlot(ch, id) /\ out # f /\ inFifo # <<f>>
     /\ InSlot(ch, id) => out # f /\ inFifo # <<f>>
     /\ out = f => inFifo # <<f>>
PlaceInv ==
  /\ slots \in [Chan -> SUBSET EchoId] /\ \A ch \in Chan \ up : slots[ch] = {}
  /\ inFifo = <<>> \/ \E f \in [ch : Chan, id : EchoId \cup {"rx"}] : inFifo = <<f>>
  /\ \A ch \in Chan, mb \in Mailbox : tx[ch][mb].state = "FREE" <=> tx[ch][mb].id = "none"
  /\ \A ch \in up : \A id \in EchoId : OnePlace(ch, id)

\* Starting and stopping a controller moves its bus with its owner.
LEMMA OwnerStep ==
  ASSUME TxInv, OwnerInv, GsNext
  PROVE  OwnerInv'
<1> USE DEF OwnerInv, ClosedIsSilent
<1>1. CASE UNCHANGED <<owner, bus>> /\ up' \subseteq up
  BY <1>1
<1>2. ASSUME NEW ch \in Chan, up' \subseteq up \cup {ch},
             \/ /\ owner' = [owner EXCEPT ![ch] = "GS"] /\ bus' = [bus EXCEPT ![ch] = TRUE]
             \/ /\ owner' = [owner EXCEPT ![ch] = "SCPI"] /\ bus' = [bus EXCEPT ![ch] = TRUE]
                /\ ch \notin up'
             \/ /\ owner' = [owner EXCEPT ![ch] = "NONE"] /\ bus' = [bus EXCEPT ![ch] = FALSE]
                /\ ch \notin up'
      PROVE  OwnerInv'
  <2>1. owner' \in [Chan -> {"NONE", "SCPI", "GS"}] /\ bus' \in [Chan -> BOOLEAN]
    BY <1>2
  <2>2. /\ \A c \in Chan \ {ch} : owner'[c] = owner[c] /\ bus'[c] = bus[c]
        /\ bus'[ch] <=> owner'[ch] # "NONE"
        /\ ch \in up' => owner'[ch] = "GS"
    BY <1>2
  <2>3. up' \subseteq Chan
    BY <1>2 DEF TxInv
  <2>4. \A c \in up' : owner'[c] = "GS"
    BY <1>2, <2>2, <2>3
  <2>5. \A c \in Chan : bus'[c] <=> owner'[c] # "NONE"
    BY <2>2
  <2> QED BY <2>1, <2>4, <2>5
<1>3. CASE UsbEvent
  <2>1. CASE ControlRequest
    <3>1. PICK ch \in Chan : (ch \notin up /\ ModeStart(ch)) \/ (ch \in up /\ ModeReset(ch))
      BY <2>1 DEF ControlRequest
    <3>2. CASE ch \notin up /\ ModeStart(ch)
      <4>1. \/ /\ owner' = [owner EXCEPT ![ch] = "GS"] /\ bus' = [bus EXCEPT ![ch] = TRUE]
               /\ up' = up \cup {ch}
            \/ /\ owner' = [owner EXCEPT ![ch] = "NONE"] /\ bus' = [bus EXCEPT ![ch] = FALSE]
               /\ up' = up
        BY <3>2 DEF ModeStart
      <4> QED BY <1>2, <3>2, <4>1
    <3>3. CASE ch \in up /\ ModeReset(ch)
      <4>1. /\ owner' = [owner EXCEPT ![ch] = "NONE"] /\ bus' = [bus EXCEPT ![ch] = FALSE]
            /\ up' = up \ {ch}
        BY <3>3 DEF ModeReset
      <4> QED BY <1>2, <4>1
    <3> QED BY <3>1, <3>2, <3>3
  <2>2. CASE ScpiCommand
    <3>1. up' = up
      BY <2>2 DEF ScpiCommand
    <3>2. ASSUME NEW ch \in Chan, CanOpen(ch) PROVE OwnerInv'
      <4>1. ch \notin up
        BY <3>2 DEF CanOpen
      <4> QED BY <1>2, <3>1, <3>2, <4>1 DEF CanOpen
    <3> QED BY <1>1, <2>2, <3>1, <3>2 DEF ScpiCommand
  <2>3. CASE Unmount \/ Mount
    BY <1>1, <2>3 DEF Unmount, Mount
  <2> QED BY <1>3, <2>1, <2>2, <2>3 DEF UsbEvent
<1>4. CASE MainLoop
  BY <1>1, <1>4 DEF MainLoop, NoUsbEvent, StartGoesOn, StreamPump, PollCompleted, SendOut, GiveIn
<1>5. CASE DriverSends \/ DriverReads \/ ReaderReads
  BY <1>1, <1>5 DEF DriverSends, DriverReads, ReaderReads
<1>6. CASE \E ch \in Chan : RxIsr(ch) \/ \E mb \in Mailbox : Transmits(ch, mb)
  BY <1>1, <1>6 DEF RxIsr, Transmits
<1> QED BY <1>3, <1>4, <1>5, <1>6 DEF GsNext

LEMMA SeqSteps ==
  ASSUME NEW S, NEW s \in Seq(S)
  PROVE  /\ \A e \in S : Append(s, e) \in Seq(S) /\ Len(Append(s, e)) = Len(s) + 1
         /\ \A n \in Nat : n < Len(s) => /\ SubSeq(s, n + 2, Len(s)) \in Seq(S)
                                        /\ Len(SubSeq(s, n + 2, Len(s))) <= Len(s)
         /\ <<>> \in Seq(S) /\ Len(s) \in Nat
OBVIOUS

\* The rings of received frames.
LEMMA RxStep ==
  ASSUME RxInv, GsNext
  PROVE  RxInv'
<1> USE DEF RxInv
<1> DEFINE Rx == [ch : Chan, id : {"rx"}]
<1>1. CASE UNCHANGED <<canRing, gsRing>>
  BY <1>1
<1>2. ASSUME NEW ch \in Chan, RxIsr(ch) PROVE RxInv'
  <2>1. CASE QueueForDriver(ch)
    <3>1. canRing' = canRing /\ Received(ch) \in Rx
      BY <2>1 DEF QueueForDriver, Received
    <3>2. \/ gsRing' = gsRing
          \/ Len(gsRing) < RingCap /\ gsRing' = Append(gsRing, Received(ch))
      BY <2>1 DEF QueueForDriver
    <3> HIDE DEF Rx
    <3>3. gsRing' \in Seq(Rx) /\ Len(gsRing') <= RingCap
      <4>1. gsRing \in Seq(Rx) /\ RingCap \in Nat /\ Len(gsRing) <= RingCap
        BY GsAssumption DEF Rx
      <4> QED BY <3>1, <3>2, <4>1, SeqSteps
    <3> QED BY <3>1, <3>3 DEF Rx
  <2>2. CASE QueueForScpi(ch)
    BY <2>2, GsAssumption DEF QueueForScpi
  <2> QED BY <1>2, <2>1, <2>2 DEF RxIsr
<1>3. CASE GiveIn
  <2>1. canRing' = canRing /\ (gsRing' = gsRing \/ GiveReceived)
    BY <1>3 DEF GiveIn, GiveEcho
  <2>2. CASE GiveReceived
    <3>1. PICK n \in 0..Len(gsRing) :
            \/ gsRing' = <<>>
            \/ n < Len(gsRing) /\ gsRing' = SubSeq(gsRing, n + 2, Len(gsRing))
      BY <2>2 DEF GiveReceived
    <3> HIDE DEF Rx
    <3>2. gsRing' \in Seq(Rx) /\ Len(gsRing') <= RingCap
      <4>1. gsRing \in Seq(Rx) /\ RingCap \in Nat /\ Len(gsRing) <= RingCap /\ n \in Nat
        BY GsAssumption DEF Rx
      <4>2. CASE gsRing' = <<>>
        BY <4>1, <4>2, EmptySeq
      <4>3. CASE n < Len(gsRing) /\ gsRing' = SubSeq(gsRing, n + 2, Len(gsRing))
        <5>1. gsRing' \in Seq(Rx) /\ Len(gsRing') <= Len(gsRing) /\ Len(gsRing) \in Nat
          BY <4>1, <4>3, SeqSteps
        <5>2. Len(gsRing') \in Nat
          BY <5>1, LenProperties
        <5> QED BY <4>1, <5>1, <5>2
      <4> QED BY <3>1, <4>2, <4>3
    <3> QED BY <2>1, <3>2 DEF Rx
  <2> QED BY <2>1, <2>2
<1>4. CASE UsbEvent
  <2>1. gsRing' = gsRing /\ (canRing' = canRing \/ CanRecv)
    BY <1>4 DEF UsbEvent, ControlRequest, ScpiCommand, Unmount, Mount
  <2>2. canRing' \in 0..RingCap
    BY <2>1, GsAssumption DEF CanRecv
  <2> QED BY <2>1, <2>2
<1>5. CASE NoUsbEvent \/ StartGoesOn \/ StreamPump \/ PollCompleted \/ SendOut
  BY <1>1, <1>5 DEF NoUsbEvent, StartGoesOn, StreamPump, PollCompleted, SendOut
<1>6. CASE DriverSends \/ DriverReads \/ ReaderReads
  BY <1>1, <1>6 DEF DriverSends, DriverReads, ReaderReads
<1>7. CASE \E ch \in Chan : \E mb \in Mailbox : Transmits(ch, mb)
  BY <1>1, <1>7 DEF Transmits
<1> QED BY <1>2, <1>3, <1>4, <1>5, <1>6, <1>7 DEF GsNext, MainLoop

------------------------------------------------------------------------------
\* Taking the first of a queue, and adding one at its end.
LEMMA TailOnce ==
  ASSUME NEW S, NEW s \in Seq(S), s # <<>>, NEW f, Once(s, f)
  PROVE  Once(Tail(s), f) /\ (Occurs(Tail(s), f) <=> Occurs(s, f) /\ Head(s) # f)
<1> DEFINE t == Tail(s)
<1>1. /\ Len(s) \in Nat \ {0} /\ DOMAIN s = 1..Len(s) /\ Head(s) = s[1]
      /\ DOMAIN t = 1..(Len(s) - 1) /\ \A i \in 1..(Len(s) - 1) : t[i] = s[i + 1]
  <2>1. Len(s) \in Nat \ {0} /\ DOMAIN s = 1..Len(s) /\ Head(s) = s[1]
    BY EmptySeq, LenProperties
  <2>2. t \in Seq(S) /\ Len(t) = Len(s) - 1 /\ \A i \in 1..Len(t) : t[i] = s[i + 1]
    BY HeadTailProperties
  <2> HIDE DEF t
  <2> QED BY <2>1, <2>2, LenProperties
<1> HIDE DEF t
<1>2. Once(t, f)
  <2> SUFFICES ASSUME NEW i \in 1..(Len(s) - 1), NEW j \in 1..(Len(s) - 1), t[i] = f, t[j] = f
               PROVE  i = j
    BY <1>1 DEF Once
  <2>1. i + 1 \in DOMAIN s /\ j + 1 \in DOMAIN s /\ s[i + 1] = f /\ s[j + 1] = f
    BY <1>1
  <2>2. i + 1 = j + 1
    BY <2>1 DEF Once
  <2> QED BY <2>2
<1>3. ASSUME Occurs(t, f) PROVE Occurs(s, f) /\ Head(s) # f
  <2>1. PICK i \in 1..(Len(s) - 1) : t[i] = f
    BY <1>1, <1>3 DEF Occurs
  <2>2. i + 1 \in DOMAIN s /\ s[i + 1] = f /\ 1 \in DOMAIN s /\ i + 1 # 1
    BY <1>1, <2>1
  <2>3. s[1] # f
    BY <2>2 DEF Once
  <2> QED BY <1>1, <2>2, <2>3 DEF Occurs
<1>4. ASSUME Occurs(s, f), Head(s) # f PROVE Occurs(t, f)
  <2>1. PICK i \in DOMAIN s : s[i] = f
    BY <1>4 DEF Occurs
  <2>2. i # 1
    BY <1>1, <1>4, <2>1
  <2>3. i - 1 \in 1..(Len(s) - 1) /\ t[i - 1] = s[(i - 1) + 1] /\ (i - 1) + 1 = i
    BY <1>1, <2>2
  <2> QED BY <1>1, <2>1, <2>3 DEF Occurs
<1> QED BY <1>2, <1>3, <1>4 DEF t

LEMMA AppendOnce ==
  ASSUME NEW S, NEW s \in Seq(S), NEW e \in S, NEW f
  PROVE  /\ Occurs(Append(s, e), f) <=> Occurs(s, f) \/ e = f
         /\ Once(s, f) /\ (Occurs(s, f) => e # f) => Once(Append(s, e), f)
<1> DEFINE t == Append(s, e)
<1>1. /\ Len(s) \in Nat /\ DOMAIN s = 1..Len(s) /\ DOMAIN t = 1..(Len(s) + 1)
      /\ \A i \in 1..Len(s) : t[i] = s[i]
      /\ t[Len(s) + 1] = e
  <2>1. /\ t \in Seq(S) /\ Len(t) = Len(s) + 1 /\ t[Len(s) + 1] = e
        /\ \A i \in 1..Len(s) : t[i] = s[i]
    BY AppendProperties
  <2> HIDE DEF t
  <2> QED BY <2>1, LenProperties
<1> HIDE DEF t
<1>2. \A i \in DOMAIN t : i \in DOMAIN s \/ i = Len(s) + 1
  BY <1>1
<1>3. \A i \in DOMAIN s : i \in DOMAIN t /\ i # Len(s) + 1
  BY <1>1
<1>4. Len(s) + 1 \in DOMAIN t
  BY <1>1
<1>5. Occurs(t, f) <=> Occurs(s, f) \/ e = f
  BY <1>1, <1>2, <1>3, <1>4 DEF Occurs
<1>6. ASSUME Once(s, f), Occurs(s, f) => e # f PROVE Once(t, f)
  <2> SUFFICES ASSUME NEW i \in DOMAIN t, NEW j \in DOMAIN t, t[i] = f, t[j] = f
               PROVE  i = j
    BY DEF Once
  <2>1. CASE i \in DOMAIN s /\ j \in DOMAIN s
    BY <1>1, <1>6, <2>1 DEF Once
  <2>2. CASE i \notin DOMAIN s
    <3>1. i = Len(s) + 1 /\ e = f
      BY <1>1, <1>2, <2>2
    <3>2. j \notin DOMAIN s
      BY <1>1, <1>6, <3>1 DEF Occurs
    <3> QED BY <1>2, <3>1, <3>2
  <2>3. CASE j \notin DOMAIN s
    <3>1. j = Len(s) + 1 /\ e = f
      BY <1>1, <1>2, <2>3
    <3>2. i \notin DOMAIN s
      BY <1>1, <1>6, <3>1 DEF Occurs
    <3> QED BY <1>2, <3>1, <3>2
  <2> QED BY <2>1, <2>2, <2>3
<1> QED BY <1>5, <1>6 DEF t

LEMMA FrameFields ==
  ASSUME NEW c, NEW i, NEW d, NEW j
  PROVE  /\ Frame(c, i).ch = c /\ Frame(c, i).id = i
         /\ Frame(c, i) = Frame(d, j) <=> c = d /\ i = j
BY DEF Frame
LEMMA FrameOf ==
  /\ \A S : \A f \in [ch : Chan, id : S] : f = Frame(f.ch, f.id) /\ f.ch \in Chan /\ f.id \in S
  /\ \A ch, id : id \in EchoId => Frame(ch, id) # None
  /\ \A ch \in Chan, id \in EchoId : Frame(ch, id) \in Sending
<1>1. ASSUME NEW S, NEW f \in [ch : Chan, id : S] PROVE f = Frame(f.ch, f.id)
  BY DEF Frame
<1>2. ASSUME NEW ch, NEW id \in EchoId PROVE Frame(ch, id) # None
  <2>1. Frame(ch, id).id = id /\ None.id = "none" /\ id # "none"
    BY GsAssumption DEF Frame, None
  <2> QED BY <2>1
<1> QED BY <1>1, <1>2 DEF Frame, Sending

\* A step that moves no frame of a channel.
LEMMA StaysInPlace ==
  ASSUME NEW ch, NEW id, OnePlace(ch, id), UNCHANGED <<outFifo, inFifo>>,
         slots'[ch] = slots[ch], \A mb \in Mailbox : tx'[ch][mb].id = tx[ch][mb].id,
         out = Frame(ch, id) <=> out' = Frame(ch, id)
  PROVE  OnePlace(ch, id)'
BY DEF OnePlace, InSlot, OneSlot

LEMMA NoneMoves ==
  ASSUME TxInv, PlaceInv, UNCHANGED <<outFifo, inFifo, out, slots, up>>,
         \A ch \in Chan, mb \in Mailbox :
           /\ tx'[ch][mb].id = tx[ch][mb].id
           /\ tx'[ch][mb].state = "FREE" <=> tx[ch][mb].state = "FREE"
  PROVE  PlaceInv'
<1>1. up \subseteq Chan
  BY DEF TxInv
<1>2. ASSUME NEW ch \in up, NEW id \in EchoId PROVE OnePlace(ch, id)'
  <2>1. OnePlace(ch, id)
    BY DEF PlaceInv
  <2> QED BY <1>1, <2>1, StaysInPlace
<1> QED BY <1>1, <1>2 DEF PlaceInv

\* A channel stops: none of its frames is left in the board, and those of
\* others stay where they are.
LEMMA StopsOnlyIts ==
  ASSUME TxInv, PlaceInv, NEW ch \in Chan, GsStop(ch), UNCHANGED <<outFifo, inFifo>>
  PROVE  /\ \A mb \in Mailbox : tx'[ch][mb] = Free
         /\ out'.ch # ch \/ out' = None
         /\ \A c \in up \ {ch} : \A id \in EchoId : slots'[c] = slots[c] => OnePlace(c, id)'
         /\ \A c \in Chan, mb \in Mailbox : tx'[c][mb].state = "FREE" <=> tx'[c][mb].id = "none"
<1>1. /\ tx' = [tx EXCEPT ![ch] = [mb \in Mailbox |-> Free]]
      /\ out' = (IF out.ch = ch THEN None ELSE out)
  BY DEF GsStop
<1>2. /\ \A mb \in Mailbox : tx'[ch][mb] = Free
      /\ \A c \in Chan \ {ch} : tx'[c] = tx[c]
  BY <1>1 DEF TxInv
<1>3. ASSUME NEW c \in up \ {ch}, NEW id \in EchoId, slots'[c] = slots[c]
      PROVE  OnePlace(c, id)'
  <2>1. OnePlace(c, id) /\ tx'[c] = tx[c]
    BY <1>2 DEF PlaceInv, TxInv
  <2>2. out = Frame(c, id) <=> out' = Frame(c, id)
    <3>1. Frame(c, id).ch = c /\ Frame(c, id) # None /\ c # ch
      BY FrameFields, FrameOf
    <3> QED BY <1>1, <3>1
  <2> QED BY <1>3, <2>1, <2>2, StaysInPlace
<1>4. \A c \in Chan, mb \in Mailbox : tx'[c][mb].state = "FREE" <=> tx'[c][mb].id = "none"
  <2>1. Free.state = "FREE" /\ Free.id = "none"
    BY DEF Free
  <2> QED BY <1>2, <2>1 DEF PlaceInv
<1> QED BY <1>1, <1>2, <1>3, <1>4

LEMMA ControlMoves ==
  ASSUME CleanReopen, TxInv, OwnerInv, PlaceInv, ControlRequest
  PROVE  PlaceInv'
<1>1. PICK ch \in Chan :
        \/ ch \notin up /\ (CleanReopen => LeftInFifos(ch) = {}) /\ ModeStart(ch)
        \/ ch \in up /\ ModeReset(ch)
  BY DEF ControlRequest
<1>2. UNCHANGED <<outFifo, inFifo>>
  BY DEF ControlRequest
<1>3. CASE ch \notin up /\ LeftInFifos(ch) = {} /\ ModeStart(ch)
  <2>1. GsStop(ch) /\ slots' = slots /\ (up' = up \/ up' = up \cup {ch})
    BY <1>3 DEF ModeStart
  <2>2. slots[ch] = {}
    BY <1>3 DEF PlaceInv
  <2>3. ASSUME NEW id \in EchoId PROVE OnePlace(ch, id)'
    <3> DEFINE f == Frame(ch, id)
    <3>1. f.ch = ch /\ f # None /\ id # "none"
      BY FrameFields, FrameOf, GsAssumption
    <3> HIDE DEF f
    <3>2. (\A i \in DOMAIN outFifo : outFifo[i] # f) /\ (\A i \in DOMAIN inFifo : inFifo[i] # f)
      <4>1. f \notin LeftInFifos(ch)
        BY <1>3
      <4> QED BY <3>1, <4>1 DEF LeftInFifos
    <3>3. inFifo # <<f>>
      <4> SUFFICES ASSUME inFifo = <<f>> PROVE FALSE
        OBVIOUS
      <4>1. 1 \in DOMAIN inFifo /\ inFifo[1] = f
        OBVIOUS
      <4> QED BY <3>2, <4>1
    <3>4. out' # f /\ \A mb \in Mailbox : tx'[ch][mb].id # id
      <4>1. out'.ch # ch \/ out' = None
        BY <1>2, <2>1, StopsOnlyIts
      <4>2. \A mb \in Mailbox : tx'[ch][mb] = Free
        BY <1>2, <2>1, StopsOnlyIts
      <4>3. Free.id = "none"
        BY DEF Free
      <4> QED BY <3>1, <4>1, <4>2, <4>3
    <3>5. id \notin slots'[ch] /\ outFifo' = outFifo /\ inFifo' = inFifo
      BY <1>2, <2>1, <2>2
    <3> QED BY <3>2, <3>3, <3>4, <3>5 DEF OnePlace, Occurs, Once, InSlot, OneSlot, f
  <2>4. \A c \in up' : \A id \in EchoId : OnePlace(c, id)'
    <3>1. ASSUME NEW c \in up \ {ch}, NEW id \in EchoId PROVE OnePlace(c, id)'
      BY <1>2, <2>1, StopsOnlyIts
    <3> QED BY <2>1, <2>3, <3>1
  <2>5. \A c \in Chan, mb \in Mailbox : tx'[c][mb].state = "FREE" <=> tx'[c][mb].id = "none"
    BY <1>2, <2>1, StopsOnlyIts
  <2>6. \A c \in Chan \ up' : slots'[c] = {}
    BY <2>1 DEF PlaceInv
  <2> QED BY <1>2, <2>1, <2>4, <2>5, <2>6 DEF PlaceInv
<1>4. CASE ch \in up /\ ModeReset(ch)
  <2>1. GsStop(ch) /\ up' = up \ {ch} /\ slots' = [slots EXCEPT ![ch] = {}]
    BY <1>4 DEF ModeReset, OwnerInv
  <2>2. /\ slots' \in [Chan -> SUBSET EchoId] /\ slots'[ch] = {}
        /\ \A c \in Chan \ {ch} : slots'[c] = slots[c]
    BY <2>1 DEF PlaceInv
  <2>3. \A c \in Chan \ up' : slots'[c] = {}
    BY <2>1, <2>2 DEF PlaceInv
  <2>4. ASSUME NEW c \in up', NEW id \in EchoId PROVE OnePlace(c, id)'
    <3>1. c \in up \ {ch} /\ slots'[c] = slots[c]
      BY <2>1, <2>2, <2>4 DEF TxInv
    <3> QED BY <1>2, <2>1, <3>1, StopsOnlyIts
  <2>5. \A c \in Chan, mb \in Mailbox : tx'[c][mb].state = "FREE" <=> tx'[c][mb].id = "none"
    BY <1>2, <2>1, StopsOnlyIts
  <2> QED BY <1>2, <2>2, <2>3, <2>4, <2>5 DEF PlaceInv
<1> QED BY <1>1, <1>3, <1>4

\* The frame that is next leaves its place for a slot, or waits; it is dropped
\* only when its channel is not the driver's.
LEMMA NextMoves ==
  ASSUME TxInv, OwnerInv, PlaceInv, NEW f \in Sending, Waiting(f),
         UNCHANGED <<owner, inFifo, slots, up>>,
         \/ out = f /\ outFifo' = outFifo
         \/ out = None /\ outFifo # <<>> /\ f = Head(outFifo) /\ outFifo' = Tail(outFifo)
  PROVE  PlaceInv'
<1>1. /\ f.ch \in Chan /\ f.id \in EchoId /\ f = Frame(f.ch, f.id) /\ f # None
      /\ "none" \notin EchoId
  BY FrameOf, GsAssumption DEF Sending
<1>2. \/ owner[f.ch] # "GS" /\ out' = None /\ tx' = tx
      \/ owner[f.ch] = "GS" /\ out' = f /\ tx' = tx
      \/ \E mb \in Sendable(f.ch) : Sent(f, mb)
  BY DEF Waiting
<1>3. out' = None \/ out' = f
  BY <1>2 DEF Sent
\* The slots.
<1>4. \/ tx' = tx /\ (owner[f.ch] = "GS" => out' = f)
      \/ /\ out' = None
         /\ \E mb \in Mailbox :
              /\ tx[f.ch][mb].id = "none" /\ tx'[f.ch][mb].id = f.id
              /\ tx'[f.ch][mb].state = "SENT"
              /\ \A c \in Chan, m \in Mailbox : c # f.ch \/ m # mb => tx'[c][m] = tx[c][m]
  <2>1. ASSUME NEW mb \in Sendable(f.ch), Sent(f, mb)
        PROVE  /\ out' = None /\ mb \in Mailbox
               /\ tx[f.ch][mb].id = "none" /\ tx'[f.ch][mb].id = f.id
               /\ tx'[f.ch][mb].state = "SENT"
               /\ \A c \in Chan, m \in Mailbox : c # f.ch \/ m # mb => tx'[c][m] = tx[c][m]
    <3>1. mb \in Mailbox /\ tx[f.ch][mb].state = "FREE"
      BY <2>1 DEF Sendable
    <3>2. tx' = [tx EXCEPT ![f.ch][mb] = [state |-> "SENT", id |-> f.id]] /\ out' = None
      BY <2>1 DEF Sent
    <3>3. tx'[f.ch][mb] = [state |-> "SENT", id |-> f.id]
      BY <1>1, <3>1, <3>2 DEF TxInv
    <3>4. \A c \in Chan, m \in Mailbox : c # f.ch \/ m # mb => tx'[c][m] = tx[c][m]
      BY <1>1, <3>1, <3>2 DEF TxInv
    <3>5. tx[f.ch][mb].id = "none"
      BY <1>1, <3>1 DEF PlaceInv
    <3>6. tx'[f.ch][mb].id = f.id /\ tx'[f.ch][mb].state = "SENT"
      BY <3>3
    <3> QED BY <3>1, <3>2, <3>4, <3>5, <3>6
  <2> QED BY <1>2, <2>1
<1>5. \A c \in Chan, mb \in Mailbox : tx'[c][mb].state = "FREE" <=> tx'[c][mb].id = "none"
  BY <1>1, <1>4 DEF PlaceInv
\* What is in line.
<1>6. ASSUME NEW g, Once(outFifo, g)
      PROVE  /\ Once(outFifo', g)
             /\ g # f => (Occurs(outFifo', g) <=> Occurs(outFifo, g))
             /\ g = f /\ out = None => Occurs(outFifo, g) /\ ~Occurs(outFifo', g)
             /\ g = f /\ out # None => out = g /\ outFifo' = outFifo
  <2>1. CASE out = f /\ outFifo' = outFifo
    BY <1>1, <1>6, <2>1
  <2>2. CASE out = None /\ outFifo # <<>> /\ f = Head(outFifo) /\ outFifo' = Tail(outFifo)
    <3>1. Once(outFifo', g) /\ (Occurs(outFifo', g) <=> Occurs(outFifo, g) /\ f # g)
      BY <1>6, <2>2, TailOnce DEF TxInv
    <3>2. Occurs(outFifo, f)
      <4>1. 1 \in DOMAIN outFifo /\ outFifo[1] = f
        BY <2>2, EmptySeq, LenProperties DEF TxInv
      <4> QED BY <4>1 DEF Occurs
    <3> QED BY <2>2, <3>1, <3>2
  <2> QED BY <2>1, <2>2
<1>7. ASSUME NEW c \in up, NEW id \in EchoId PROVE OnePlace(c, id)'
  <2> DEFINE g == Frame(c, id)
  <2>1. c \in Chan /\ OnePlace(c, id) /\ g # None /\ id # "none" /\ owner[c] = "GS"
    BY <1>1, FrameOf DEF TxInv, OwnerInv, PlaceInv
  <2>2. g = f <=> c = f.ch /\ id = f.id
    BY <1>1, FrameFields
  <2>3. /\ Once(outFifo, g) /\ OneSlot(c, id)
        /\ id \in slots[c] <=> Occurs(outFifo, g) \/ InSlot(c, id) \/ out = g \/ inFifo = <<g>>
        /\ Occurs(outFifo, g) => ~InSlot(c, id) /\ out # g /\ inFifo # <<g>>
        /\ InSlot(c, id) => out # g /\ inFifo # <<g>>
        /\ out = g => inFifo # <<g>>
    BY <2>1 DEF OnePlace
  <2> HIDE DEF g
  <2>4. CASE g # f
    <3>1. /\ Once(outFifo', g) /\ (Occurs(outFifo', g) <=> Occurs(outFifo, g))
          /\ out # g /\ out' # g
      BY <1>1, <1>3, <1>6, <2>1, <2>3, <2>4
    <3>2. \A m \in Mailbox : tx'[c][m].id = id <=> tx[c][m].id = id
      BY <1>4, <2>1, <2>2, <2>4
    <3>3. (InSlot(c, id)' <=> InSlot(c, id)) /\ OneSlot(c, id)'
      BY <2>3, <3>2 DEF InSlot, OneSlot
    <3> QED BY <2>3, <3>1, <3>3 DEF OnePlace, g
  <2>5. CASE g = f
    <3>1. Once(outFifo', g) /\ ~Occurs(outFifo', g) /\ ~InSlot(c, id) /\ inFifo # <<g>>
          /\ id \in slots[c]
      BY <1>1, <1>6, <2>3, <2>5
    <3>2. owner[f.ch] = "GS" /\ c = f.ch /\ id = f.id
      BY <2>1, <2>2, <2>5
    <3>3. CASE tx' = tx /\ out' = f
      BY <2>3, <2>5, <3>1, <3>3 DEF OnePlace, InSlot, OneSlot, g
    <3>4. CASE out' = None /\ \E mb \in Mailbox :
                 /\ tx[f.ch][mb].id = "none" /\ tx'[f.ch][mb].id = f.id
                 /\ \A d \in Chan, m \in Mailbox : d # f.ch \/ m # mb => tx'[d][m] = tx[d][m]
      <4>1. PICK mb \in Mailbox :
              /\ tx'[c][mb].id = id
              /\ \A m \in Mailbox : m # mb => tx'[c][m].id = tx[c][m].id
        BY <2>1, <3>2, <3>4
      <4>2. InSlot(c, id)' /\ OneSlot(c, id)'
        BY <3>1, <4>1 DEF InSlot, OneSlot
      <4>3. out' # g
        BY <2>1, <3>4
      <4> QED BY <3>1, <4>2, <4>3 DEF OnePlace, g
    <3> QED BY <1>4, <3>2, <3>3, <3>4
  <2> QED BY <2>4, <2>5
<1> QED BY <1>5, <1>7 DEF PlaceInv

\* An echo leaves its slot for the host; a received frame is none of the driver's.
LEMMA GiveMoves ==
  ASSUME TxInv, RxInv, PlaceInv, GiveIn
  PROVE  PlaceInv'
<1>1. UNCHANGED <<outFifo, out, slots, up>>
  BY DEF GiveIn
<1>2. CASE UNCHANGED <<inFifo, tx>>
  BY <1>1, <1>2, NoneMoves
<1>3. CASE EmptyIn /\ GiveEcho
  <2>1. PICK slot \in Due :
          /\ inFifo' = <<Frame(slot[1], tx[slot[1]][slot[2]].id)>>
          /\ tx' = [tx EXCEPT ![slot[1]][slot[2]] = Free]
    BY <1>3 DEF GiveEcho
  <2> DEFINE ch == slot[1]
             mb == slot[2]
             e  == tx[ch][mb].id
  <2>2. ch \in Chan /\ mb \in Mailbox /\ tx[ch][mb].state = "DONE"
    BY DEF Due
  <2> HIDE DEF ch, mb, e
  <2>3. e \in EchoId /\ e # "none" /\ inFifo = <<>>
    <3>1. tx[ch][mb] \in Slot
      BY <2>2 DEF TxInv
    <3> QED BY <1>3, <2>2, <3>1 DEF Slot, PlaceInv, EmptyIn, e
  <2>4. inFifo' = <<Frame(ch, e)>> /\ tx' = [tx EXCEPT ![ch][mb] = Free]
    BY <2>1 DEF ch, mb, e
  <2>5. /\ tx'[ch][mb].id = "none" /\ tx'[ch][mb].state = "FREE"
        /\ \A c \in Chan, m \in Mailbox : c # ch \/ m # mb => tx'[c][m] = tx[c][m]
    <3>1. tx'[ch][mb] = Free
      BY <2>2, <2>4 DEF TxInv
    <3> QED BY <2>2, <2>4, <3>1 DEF TxInv, Free
  <2>6. \A c \in Chan, m \in Mailbox : tx'[c][m].state = "FREE" <=> tx'[c][m].id = "none"
    BY <2>5 DEF PlaceInv
  <2>7. Frame(ch, e) \in [ch : Chan, id : EchoId \cup {"rx"}]
    BY <2>2, <2>3 DEF Frame
  <2>8. ASSUME NEW c \in up, NEW id \in EchoId PROVE OnePlace(c, id)'
    <3> DEFINE g == Frame(c, id)
    <3>1. c \in Chan /\ OnePlace(c, id) /\ id # "none"
      BY GsAssumption DEF TxInv, PlaceInv
    <3>2. g = Frame(ch, e) <=> c = ch /\ id = e
      BY FrameFields
    <3>3. inFifo' = <<g>> <=> c = ch /\ id = e
      BY <2>4, <3>2
    <3> HIDE DEF g
    <3>4. CASE c = ch /\ id = e
      <4>1. InSlot(c, id) /\ \A m \in Mailbox : tx[c][m].id = id => m = mb
        BY <2>2, <3>1, <3>4 DEF OnePlace, OneSlot, InSlot, e
      <4>2. ~InSlot(c, id)' /\ OneSlot(c, id)'
        BY <2>5, <3>1, <3>4, <4>1 DEF OneSlot, InSlot
      <4>3. Once(outFifo, g) /\ ~Occurs(outFifo, g) /\ out # g /\ id \in slots[c]
        BY <3>1, <4>1 DEF OnePlace, g
      <4> QED BY <1>1, <3>3, <3>4, <4>2, <4>3 DEF OnePlace, g
    <3>5. CASE ~(c = ch /\ id = e)
      <4>1. \A m \in Mailbox : tx'[c][m].id = id <=> tx[c][m].id = id
        BY <2>5, <3>1, <3>5 DEF e
      <4>2. (InSlot(c, id)' <=> InSlot(c, id)) /\ (OneSlot(c, id)' <=> OneSlot(c, id))
        BY <4>1 DEF OneSlot, InSlot
      <4>3. inFifo # <<g>> /\ inFifo' # <<g>>
        BY <2>3, <3>3, <3>5
      <4> QED BY <1>1, <3>1, <4>2, <4>3 DEF OnePlace, g
    <3> QED BY <3>4, <3>5
  <2> QED BY <1>1, <2>4, <2>6, <2>7, <2>8 DEF PlaceInv
<1>4. CASE EmptyIn /\ GiveReceived
  <2>1. tx' = tx /\ inFifo = <<>>
    BY <1>4 DEF GiveReceived, EmptyIn
  <2>2. inFifo' = inFifo \/ \E i \in DOMAIN gsRing : inFifo' = <<gsRing[i]>>
    <3>1. PICK n \in 0..Len(gsRing) :
            \/ inFifo' = inFifo
            \/ n < Len(gsRing) /\ inFifo' = <<gsRing[n + 1]>>
      BY <1>4 DEF GiveReceived
    <3>2. DOMAIN gsRing = 1..Len(gsRing) /\ Len(gsRing) \in Nat
      BY LenProperties DEF RxInv
    <3>3. n < Len(gsRing) => n + 1 \in DOMAIN gsRing
      BY <3>2
    <3> QED BY <3>1, <3>3
  <2>3. CASE inFifo' = inFifo
    BY <1>1, <2>1, <2>3, NoneMoves
  <2>4. ASSUME NEW i \in DOMAIN gsRing, inFifo' = <<gsRing[i]>> PROVE PlaceInv'
    <3>1. gsRing[i] \in [ch : Chan, id : {"rx"}]
      BY LenProperties DEF RxInv
    <3>2. gsRing[i] \in [ch : Chan, id : EchoId \cup {"rx"}] /\ gsRing[i].id = "rx"
      BY <3>1
    <3>3. ASSUME NEW c \in up, NEW id \in EchoId PROVE OnePlace(c, id)'
      <4>1. Frame(c, id).id = id /\ id # "rx"
        BY FrameFields, GsAssumption
      <4>2. inFifo # <<Frame(c, id)>> /\ inFifo' # <<Frame(c, id)>>
        BY <2>1, <2>4, <3>2, <4>1
      <4> QED BY <1>1, <2>1, <4>2 DEF PlaceInv, OnePlace, InSlot, OneSlot
    <3> QED BY <1>1, <2>1, <2>4, <3>2, <3>3 DEF PlaceInv
  <2> QED BY <2>2, <2>3, <2>4
<1> QED BY <1>2, <1>3, <1>4 DEF GiveIn
\* The driver takes a context that is free for a frame, and frees it with the echo.
LEMMA DriverSendMoves ==
  ASSUME TxInv, PlaceInv, DriverSends
  PROVE  PlaceInv'
<1>1. PICK ch \in up, id \in EchoId :
        /\ id \notin slots[ch] /\ outFifo' = Append(outFifo, Frame(ch, id))
        /\ slots' = [slots EXCEPT ![ch] = @ \cup {id}]
  BY DEF DriverSends
<1>2. UNCHANGED <<inFifo, out, tx, up>>
  BY DEF DriverSends
<1>3. /\ slots' \in [Chan -> SUBSET EchoId] /\ slots'[ch] = slots[ch] \cup {id}
      /\ \A c \in Chan \ {ch} : slots'[c] = slots[c]
  BY <1>1 DEF TxInv, PlaceInv
<1>4. \A c \in Chan \ up : slots'[c] = {}
  BY <1>3 DEF PlaceInv
<1> DEFINE f == Frame(ch, id)
<1>5. ~Occurs(outFifo, f) /\ ~InSlot(ch, id) /\ out # f /\ inFifo # <<f>>
  BY <1>1 DEF PlaceInv, OnePlace
<1>6. ASSUME NEW c \in up, NEW i \in EchoId PROVE OnePlace(c, i)'
  <2> DEFINE g == Frame(c, i)
  <2>1. OnePlace(c, i) /\ (g = f <=> c = ch /\ i = id) /\ c \in Chan
    BY FrameFields DEF TxInv, PlaceInv
  <2>2. Frame(ch, id) \in Sending
    BY FrameOf DEF TxInv
  <2>3. (InSlot(c, i)' <=> InSlot(c, i)) /\ (OneSlot(c, i)' <=> OneSlot(c, i))
    BY <1>2 DEF InSlot, OneSlot
  <2>4. i \in slots'[c] <=> i \in slots[c] \/ g = f
    BY <1>3, <2>1
  <2>5. /\ Once(outFifo, g) /\ OneSlot(c, i)
        /\ i \in slots[c] <=> Occurs(outFifo, g) \/ InSlot(c, i) \/ out = g \/ inFifo = <<g>>
        /\ Occurs(outFifo, g) => ~InSlot(c, i) /\ out # g /\ inFifo # <<g>>
        /\ InSlot(c, i) => out # g /\ inFifo # <<g>>
        /\ out = g => inFifo # <<g>>
    BY <2>1 DEF OnePlace
  <2>6. g = f => ~InSlot(c, i)
    BY <1>5, <2>1
  <2> HIDE DEF f, g
  <2>7. Once(outFifo', g) /\ (Occurs(outFifo', g) <=> Occurs(outFifo, g) \/ g = f)
    <3>1. outFifo \in Seq(Sending) /\ f \in Sending /\ outFifo' = Append(outFifo, f)
      BY <1>1, <2>2 DEF TxInv, f
    <3>2. g = f => ~Occurs(outFifo, f)
      BY <1>5
    <3> QED BY <2>5, <3>1, <3>2, AppendOnce
  <2>8. g = f => out # g /\ inFifo # <<g>>
    BY <1>5
  <2> QED BY <1>2, <2>3, <2>4, <2>5, <2>6, <2>7, <2>8 DEF OnePlace, g
<1> QED BY <1>2, <1>3, <1>4, <1>6 DEF PlaceInv

LEMMA DriverReadMoves ==
  ASSUME TxInv, PlaceInv, DriverReads
  PROVE  PlaceInv'
<1>1. PICK f \in [ch : Chan, id : EchoId \cup {"rx"}] : inFifo = <<f>>
  BY DEF DriverReads, EmptyIn, PlaceInv
<1>2. f = Frame(f.ch, f.id) /\ f.ch \in Chan
  BY FrameOf
<1>3. inFifo' = <<>> /\ slots' = [slots EXCEPT ![f.ch] = @ \ {f.id}]
  <2>1. Head(inFifo) = f /\ Tail(inFifo) = <<>>
    BY <1>1
  <2> QED BY <2>1 DEF DriverReads
<1>4. UNCHANGED <<outFifo, out, tx, up>>
  BY DEF DriverReads
<1>5. /\ slots' \in [Chan -> SUBSET EchoId] /\ slots'[f.ch] = slots[f.ch] \ {f.id}
      /\ \A c \in Chan \ {f.ch} : slots'[c] = slots[c]
  BY <1>2, <1>3 DEF PlaceInv
<1>6. \A c \in Chan \ up : slots'[c] = {}
  BY <1>5 DEF PlaceInv
<1>7. ASSUME NEW c \in up, NEW id \in EchoId PROVE OnePlace(c, id)'
  <2> DEFINE g == Frame(c, id)
  <2>1. OnePlace(c, id) /\ c \in Chan
    BY DEF TxInv, PlaceInv
  <2>2. g = f <=> c = f.ch /\ id = f.id
    BY <1>2, FrameFields
  <2>3. id \in slots'[c] <=> id \in slots[c] /\ g # f
    BY <1>5, <2>1, <2>2
  <2> HIDE DEF g
  <2>4. (inFifo = <<g>> <=> g = f) /\ inFifo' # <<g>>
    BY <1>1, <1>3
  <2>5. /\ (InSlot(c, id)' <=> InSlot(c, id)) /\ (OneSlot(c, id)' <=> OneSlot(c, id))
    BY <1>4 DEF InSlot, OneSlot
  <2> QED BY <1>4, <2>1, <2>3, <2>4, <2>5 DEF OnePlace, g
<1> QED BY <1>3, <1>4, <1>5, <1>6, <1>7 DEF PlaceInv

LEMMA PlaceStep ==
  ASSUME CleanReopen, TxInv, OwnerInv, RxInv, PlaceInv, GsNext
  PROVE  PlaceInv'
<1>1. CASE UNCHANGED <<outFifo, inFifo, out, tx, slots, up>>
  BY <1>1, NoneMoves
<1>2. CASE UsbEvent
  <2>1. CASE ControlRequest
    BY <2>1, ControlMoves
  <2>2. CASE ScpiCommand \/ Mount
    BY <1>1, <2>2 DEF ScpiCommand, Mount
  <2>3. CASE Unmount
    <3>1. /\ outFifo' = <<>> /\ inFifo' = <<>> /\ up' = {} /\ slots' = [ch \in Chan |-> {}]
          /\ UNCHANGED <<tx, out>>
      BY <2>3 DEF Unmount
    <3> QED BY <3>1 DEF PlaceInv
  <2> QED BY <1>2, <2>1, <2>2, <2>3 DEF UsbEvent
<1>3. CASE NoUsbEvent \/ StartGoesOn \/ StreamPump
  BY <1>1, <1>3 DEF NoUsbEvent, StartGoesOn, StreamPump
<1>4. CASE PollCompleted
  <2>1. ASSUME NEW ch \in Chan, NEW mb \in Mailbox
        PROVE  /\ tx'[ch][mb].id = tx[ch][mb].id
               /\ tx'[ch][mb].state = "FREE" <=> tx[ch][mb].state = "FREE"
    <3>1. tx'[ch][mb] = IF Completes(ch, mb) THEN [tx[ch][mb] EXCEPT !.state = "DONE"]
                        ELSE tx[ch][mb]
      BY <1>4 DEF PollCompleted, AfterPoll
    <3>2. tx[ch][mb] \in Slot
      BY DEF TxInv
    <3>3. CASE Completes(ch, mb)
      <4>1. tx[ch][mb].state = "SENT" /\ tx'[ch][mb] = [tx[ch][mb] EXCEPT !.state = "DONE"]
        BY <3>1, <3>3 DEF Completes, Polled
      <4> QED BY <3>2, <4>1 DEF Slot
    <3> QED BY <3>1, <3>3
  <2> QED BY <1>4, <2>1, NoneMoves DEF PollCompleted
<1>5. CASE SendOut
  <2>1. UNCHANGED <<owner, inFifo, slots, up>> /\ NextOut
    BY <1>5 DEF SendOut
  <2>2. CASE out # None /\ UNCHANGED outFifo /\ Waiting(out)
    <3>1. out \in Sending
      BY <2>2 DEF TxInv
    <3> QED BY <2>1, <2>2, <3>1, NextMoves
  <2>3. CASE out = None /\ outFifo # <<>> /\ outFifo' = Tail(outFifo) /\ Waiting(Head(outFifo))
    <3>1. Head(outFifo) \in Sending
      BY <2>3 DEF TxInv
    <3> QED BY <2>1, <2>3, <3>1, NextMoves
  <2>4. CASE UNCHANGED <<outFifo, out, tx, mbox>>
    BY <1>1, <2>1, <2>4
  <2> QED BY <2>1, <2>2, <2>3, <2>4 DEF NextOut
<1>6. CASE GiveIn
  BY <1>6, GiveMoves
<1>7. CASE DriverSends \/ DriverReads
  BY <1>7, DriverSendMoves, DriverReadMoves
<1>8. CASE ReaderReads
  BY <1>1, <1>8 DEF ReaderReads
<1>9. CASE \E ch \in Chan : RxIsr(ch) \/ \E mb \in Mailbox : Transmits(ch, mb)
  BY <1>1, <1>9 DEF RxIsr, Transmits
<1> QED BY <1>2, <1>3, <1>4, <1>5, <1>6, <1>7, <1>8, <1>9 DEF GsNext, MainLoop

\* A set of at most one element is empty or has one.
LEMMA AtMostOne ==
  ASSUME NEW T, \A x, y \in T : x = y
  PROVE  Cardinality(T) = IF T = {} THEN 0 ELSE 1
<1>1. CASE T = {}
  BY <1>1, FS_EmptySet
<1>2. CASE T # {}
  <2>1. PICK x \in T : T = {x}
    BY <1>2
  <2> QED BY <1>2, <2>1, FS_Singleton
<1> QED BY <1>1, <1>2

LEMMA OneTravels ==
  ASSUME TxInv, PlaceInv
  PROVE  EchoesConserved
<1> SUFFICES ASSUME NEW ch \in up, NEW id \in EchoId
             PROVE  Travelling(ch, id) = IF id \in slots[ch] THEN 1 ELSE 0
  BY DEF EchoesConserved
<1> DEFINE f == Frame(ch, id)
           O == {i \in DOMAIN outFifo : outFifo[i] = f}
           I == {i \in DOMAIN inFifo : inFifo[i] = f}
           M == {mb \in Mailbox : tx[ch][mb].id = id}
<1>1. OnePlace(ch, id)
  BY DEF PlaceInv
<1>2. Cardinality(O) = IF Occurs(outFifo, f) THEN 1 ELSE 0
  <2>1. \A x, y \in O : x = y
    BY <1>1 DEF OnePlace, Once
  <2>2. O = {} <=> ~Occurs(outFifo, f)
    BY DEF Occurs
  <2> HIDE DEF O
  <2> QED BY <2>1, <2>2, AtMostOne
<1>3. Cardinality(M) = IF InSlot(ch, id) THEN 1 ELSE 0
  <2>1. \A x, y \in M : x = y
    BY <1>1 DEF OnePlace, OneSlot
  <2>2. M = {} <=> ~InSlot(ch, id)
    BY DEF InSlot
  <2> HIDE DEF M
  <2> QED BY <2>1, <2>2, AtMostOne
<1>4. Cardinality(I) = IF inFifo = <<f>> THEN 1 ELSE 0
  <2>1. inFifo = <<>> \/ \E g : inFifo = <<g>>
    BY DEF PlaceInv
  <2> HIDE DEF f
  <2>2. \A x, y \in I : x = y
    BY <2>1
  <2>3. I = {} <=> inFifo # <<f>>
    <3>1. CASE inFifo = <<>>
      BY <3>1
    <3>2. ASSUME NEW g, inFifo = <<g>> PROVE I = {} <=> inFifo # <<f>>
      <4>1. DOMAIN inFifo = {1} /\ inFifo[1] = g /\ (inFifo = <<f>> <=> g = f)
        BY <3>2
      <4> QED BY <4>1
    <3> QED BY <2>1, <3>1, <3>2
  <2> HIDE DEF I
  <2> QED BY <2>2, <2>3, AtMostOne
<1>5. Travelling(ch, id) = Cardinality(O) + Cardinality(I) + Cardinality(M)
                           + (IF out = f THEN 1 ELSE 0)
  BY DEF Travelling
<1>6. /\ id \in slots[ch] <=> Occurs(outFifo, f) \/ InSlot(ch, id) \/ out = f \/ inFifo = <<f>>
      /\ Occurs(outFifo, f) => ~InSlot(ch, id) /\ out # f /\ inFifo # <<f>>
      /\ InSlot(ch, id) => out # f /\ inFifo # <<f>>
      /\ out = f => inFifo # <<f>>
  BY <1>1 DEF OnePlace
<1> HIDE DEF f, O, I, M
<1> QED BY <1>2, <1>3, <1>4, <1>5, <1>6

\* main.c, gs_poll, gs_start and gs_stop: whichever of SCPI and the driver opens,
\* closes, starts or stops a controller, its bus follows its owner, and each
\* context the driver has in use is that of one frame on its way.  The driver
\* reopens a channel once none of its frames is left in the FIFOs of the vendor
\* interface.
THEOREM ChannelsAlwaysKept ==
  ASSUME CleanReopen
  PROVE  GsSpec => []ChannelsKept
<1> DEFINE Inv == TxInv /\ OwnerInv /\ RxInv /\ PlaceInv
<1>1. GsInit => Inv
  <2> SUFFICES ASSUME GsInit PROVE Inv
    OBVIOUS
  <2>1. /\ tx \in [Chan -> [Mailbox -> Slot]]
        /\ \A ch \in Chan, mb \in Mailbox : tx[ch][mb].state = "FREE" /\ tx[ch][mb].id = "none"
    BY DEF GsInit, Free, Slot
  <2>2. /\ mbox \in [Chan -> [Mailbox -> {"empty", "pending", "sent", "aborted"}]]
        /\ outFifo \in Seq(Sending) /\ out \in Sending \cup {None} /\ up = {}
    BY DEF GsInit
  <2>3. TxInv
    BY <2>1, <2>2 DEF TxInv
  <2>4. OwnerInv
    BY DEF GsInit, OwnerInv, ClosedIsSilent
  <2>5. RxInv
    BY GsAssumption DEF GsInit, RxInv
  <2>6. PlaceInv
    BY <2>1 DEF GsInit, PlaceInv
  <2> QED BY <2>3, <2>4, <2>5, <2>6
<1>2. Inv /\ [GsNext]_gsVars => Inv'
  <2> SUFFICES ASSUME Inv, [GsNext]_gsVars PROVE Inv'
    OBVIOUS
  <2>1. CASE GsNext
    BY <2>1, TxStep, OwnerStep, RxStep, PlaceStep
  <2>2. CASE UNCHANGED gsVars
    <3>1. TxInv' /\ OwnerInv' /\ RxInv'
      BY <2>2 DEF gsVars, TxInv, OwnerInv, ClosedIsSilent, RxInv
    <3>2. PlaceInv'
      BY <2>2, NoneMoves DEF gsVars
    <3> QED BY <3>1, <3>2
  <2> QED BY <2>1, <2>2
<1>3. Inv => ChannelsKept
  <2> SUFFICES ASSUME Inv PROVE ChannelsKept
    OBVIOUS
  <2>1. GsTypeOK
    BY DEF GsTypeOK, TxInv, OwnerInv, RxInv, PlaceInv, Slot, Sending
  <2>2. EchoesConserved
    BY OneTravels
  <2> QED BY <2>1, <2>2 DEF ChannelsKept, OwnerInv
<1> QED BY <1>1, <1>2, <1>3, PTL DEF GsSpec
=============================================================================
