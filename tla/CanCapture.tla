----------------------------- MODULE CanCapture -----------------------------
(***************************************************************************)
(* The capture side of the CAN daemon (examples/can/main.c): the SCPI      *)
(* thread opens, closes, starts and stops, and the producer thread moves   *)
(* frames from the CAN socket to the ring.  They share s_can_fd, which     *)
(* s_fd_lock protects, and a few words it does not.  Frames are those the  *)
(* socket's filters let through.                                           *)
(*                                                                         *)
(* The kernel's part is external: descriptors are numbers that are used    *)
(* again, a socket lives while a call is inside it, its queue overflows,   *)
(* and a frame carries the socket's losses up to its arrival if there      *)
(* were any.  The daemon's other descriptors are left out, and what        *)
(* happens to a record in the ring is in Stream.                           *)
(***************************************************************************)
EXTENDS Integers, Sequences, FiniteSets, FiniteSetsExt

CONSTANTS
  QueueMax,     \* frames a socket's queue holds
  MaxOpen,      \* bound of the exploration: sockets ever opened,
  MaxLoss,      \* frames each loses,
  MaxRingLoss,  \* and records the ring refuses
  Word          \* 2^32, the width of the kernel's counter

ASSUME CanAssumption ==
  /\ {QueueMax, MaxOpen} \subseteq Nat \ {0}
  /\ {MaxLoss, MaxRingLoss} \subseteq Nat /\ Word \in Nat /\ Word > MaxLoss

VARIABLES
  file,                     \* descriptor -> socket, NoSocket if it is free
  opened,                   \* sockets opened so far, the number of the last
  queue, losses,            \* socket -> its frames, and the frames it lost
  canFd, running,           \* s_can_fd, s_running
  dropped, haveOvfl, lastOvfl,  \* s_dropped, s_have_kernel_ovfl, ...
  spc, newFd,               \* SCPI thread: in cmd_can_open or cmd_can_close
  ppc, fd, sock,            \* producer: its descriptor and the socket it is in
  frame,                    \* the frame it read: the losses it carries
  missed, seen,             \* losses before the frames read, and per socket
                            \* those before the last (history)
  ringLost,                 \* records the ring refused (history)
  afterStop                 \* records captured since STOP (history)

kernelVars == <<file, opened, queue, losses>>
sharedVars == <<canFd, running, dropped, haveOvfl, lastOvfl>>
scpiVars   == <<spc, newFd>>
prodVars   == <<ppc, fd, sock, frame>>
histVars   == <<missed, seen, ringLost, afterStop>>
canVars == <<kernelVars, sharedVars, scpiVars, prodVars, histVars>>

Fds == 1..3
NoFd == 0
NoSocket == 0
Sockets == 1..MaxOpen

CanInit ==
  /\ file = [n \in Fds |-> NoSocket] /\ opened = 0
  /\ queue = [s \in Sockets |-> <<>>] /\ losses = [s \in Sockets |-> 0]
  /\ canFd = NoFd /\ running = FALSE
  /\ dropped = 0 /\ haveOvfl = FALSE /\ lastOvfl = 0
  /\ spc = "ready" /\ newFd = NoFd
  /\ ppc = "top" /\ fd = NoFd /\ sock = NoSocket /\ frame = 0
  /\ missed = 0 /\ seen = losses /\ ringLost = 0 /\ afterStop = 0

------------------------------------------------------------------------------
(* The kernel *)

Alive(s) == (\E n \in Fds : file[n] = s) \/ (ppc = "reading" /\ sock = s)

\* A frame is queued, or lost and counted.
Arrive ==
  /\ \E s \in Sockets :
       /\ Alive(s)
       /\ \/ /\ Len(queue[s]) < QueueMax
             /\ queue' = [queue EXCEPT ![s] = Append(@, losses[s])]
             /\ UNCHANGED losses
          \/ /\ Len(queue[s]) = QueueMax /\ losses[s] < MaxLoss
             /\ losses' = [losses EXCEPT ![s] = @ + 1]
             /\ UNCHANGED queue
  /\ UNCHANGED <<file, opened, sharedVars, scpiVars, prodVars, histVars>>

------------------------------------------------------------------------------
(* The SCPI thread *)

\* cmd_can_open: a socket of its own, which takes the lowest free number, ...
Open ==
  /\ spc = "ready" /\ opened < MaxOpen
  /\ newFd' = Min({n \in Fds : file[n] = NoSocket})
  /\ opened' = opened + 1 /\ file' = [file EXCEPT ![newFd'] = opened']
  /\ spc' = "swap"
  /\ UNCHANGED <<queue, losses, sharedVars, prodVars, histVars>>

OpenFails ==  \* SIOCGIFINDEX or bind
  /\ spc = "swap" /\ spc' = "ready"
  /\ file' = [file EXCEPT ![newFd] = NoSocket] /\ newFd' = NoFd
  /\ UNCHANGED <<opened, queue, losses, sharedVars, prodVars, histVars>>

\* ... put in the place of the old one with the lock held, ...
Closed(n) == IF n = NoFd THEN file ELSE [file EXCEPT ![n] = NoSocket]
SwapKeepsOld ==  \* fault: the old descriptor is overwritten
  /\ spc = "swap" /\ spc' = "reset" /\ canFd' = newFd /\ newFd' = NoFd
  /\ UNCHANGED <<file, opened, queue, losses, running, dropped, haveOvfl, lastOvfl,
                 prodVars, histVars>>
Swap ==
  /\ spc = "swap" /\ spc' = "reset" /\ canFd' = newFd /\ newFd' = NoFd
  /\ file' = Closed(canFd)
  /\ UNCHANGED <<opened, queue, losses, running, dropped, haveOvfl, lastOvfl,
                 prodVars, histVars>>

\* ... and, without it, the counter's base is forgotten.
ForgetOvfl ==
  /\ spc = "reset" /\ spc' = "ready" /\ haveOvfl' = FALSE
  /\ UNCHANGED <<kernelVars, canFd, running, dropped, lastOvfl, newFd, prodVars, histVars>>

Close ==
  /\ spc = "ready" /\ spc' = "close" /\ running' = FALSE
  /\ afterStop' = IF running THEN 0 ELSE afterStop
  /\ UNCHANGED <<kernelVars, canFd, dropped, haveOvfl, lastOvfl, newFd, prodVars,
                 missed, seen, ringLost>>
CloseFd ==
  /\ spc = "close" /\ spc' = "ready" /\ file' = Closed(canFd) /\ canFd' = NoFd
  /\ UNCHANGED <<opened, queue, losses, running, dropped, haveOvfl,
                 lastOvfl, newFd, prodVars, histVars>>

Start ==
  /\ spc = "ready" /\ canFd # NoFd /\ running' = TRUE
  /\ UNCHANGED <<kernelVars, canFd, dropped, haveOvfl, lastOvfl, scpiVars, prodVars,
                 histVars>>

Stop ==
  /\ spc = "ready" /\ running' = FALSE
  /\ afterStop' = IF running THEN 0 ELSE afterStop
  /\ UNCHANGED <<kernelVars, canFd, dropped, haveOvfl, lastOvfl, scpiVars, prodVars,
                 missed, seen, ringLost>>

Scpi == Open \/ OpenFails \/ Swap \/ ForgetOvfl \/ Close \/ CloseFd
        \/ Start \/ Stop

------------------------------------------------------------------------------
(* The producer thread: one turn of can_producer's loop *)

ContinueAtPoll == ppc' = "poll"  \* fault: the loop is entered behind its checks
Continue == ppc' = "top"

ReadFd ==
  /\ ppc = "top" /\ ppc' = "check" /\ fd' = canFd
  /\ UNCHANGED <<kernelVars, sharedVars, scpiVars, sock, frame, histVars>>

CheckRunning ==
  /\ ppc = "check" /\ ppc' = IF fd # NoFd /\ running THEN "poll" ELSE "top"
  /\ UNCHANGED <<kernelVars, sharedVars, scpiVars, fd, sock, frame, histVars>>

\* poll() reports a descriptor that was closed as ready, too.
Readable == file[fd] = NoSocket \/ queue[file[fd]] # <<>>
Poll ==
  /\ ppc = "poll" /\ ppc' = IF Readable THEN "recv" ELSE "top"
  /\ UNCHANGED <<kernelVars, sharedVars, scpiVars, fd, sock, frame, histVars>>

\* recvmsg() waits if the descriptor was opened again meanwhile.
RecvEnters ==
  /\ ppc = "recv" /\ file[fd] # NoSocket /\ ppc' = "reading" /\ sock' = file[fd]
  /\ UNCHANGED <<kernelVars, sharedVars, scpiVars, fd, frame, histVars>>

\* EBADF: the loop ends, and with it the thread.
RecvFails ==
  /\ ppc = "recv" /\ file[fd] = NoSocket /\ ppc' = "dead"
  /\ UNCHANGED <<kernelVars, sharedVars, scpiVars, fd, sock, frame, histVars>>

Recv ==
  /\ ppc = "reading" /\ queue[sock] # <<>> /\ ppc' = "count"
  /\ frame' = Head(queue[sock]) /\ queue' = [queue EXCEPT ![sock] = Tail(@)]
  /\ missed' = missed + (frame' - seen[sock]) /\ seen' = [seen EXCEPT ![sock] = frame']
  /\ UNCHANGED <<file, opened, losses, sharedVars, scpiVars, fd, sock,
                 ringLost, afterStop>>

\* The frame carries the socket's losses only if there are any; the losses
\* since the last it carried are added, modulo the counter's width.
Reported == frame # 0
LossSinceAll == frame  \* fault: the total is added, not the difference
LossSince == (frame - lastOvfl) % Word
CountLoss ==
  /\ ppc = "count" /\ ppc' = "base"
  /\ dropped' = dropped + (IF Reported /\ haveOvfl THEN LossSince ELSE 0)
  /\ UNCHANGED <<kernelVars, canFd, running, haveOvfl, lastOvfl, scpiVars, fd, sock,
                 frame, histVars>>

SetBase ==
  /\ ppc = "base" /\ ppc' = "push"
  /\ lastOvfl' = (IF Reported THEN frame ELSE lastOvfl)
  /\ haveOvfl' = (haveOvfl \/ Reported)
  /\ UNCHANGED <<kernelVars, canFd, running, dropped, scpiVars, fd, sock, frame, histVars>>

PushRecord ==
  /\ ppc = "push" /\ Continue
  /\ \/ /\ afterStop' = IF running THEN 0 ELSE afterStop + 1
        /\ UNCHANGED <<dropped, ringLost>>
     \/ /\ ringLost < MaxRingLoss
        /\ ringLost' = ringLost + 1 /\ dropped' = dropped + 1
        /\ UNCHANGED afterStop
  /\ UNCHANGED <<kernelVars, canFd, running, haveOvfl, lastOvfl, scpiVars, fd, sock,
                 frame, missed, seen>>

Producer == ReadFd \/ CheckRunning \/ Poll \/ RecvEnters \/ RecvFails \/ Recv
            \/ CountLoss \/ SetBase \/ PushRecord

CanNext == Arrive \/ Scpi \/ Producer

CanSpec == CanInit /\ [][CanNext]_canVars

\* The producer thread is scheduled; commands in progress finish.
CanFairSpec ==
  CanSpec /\ WF_canVars(Producer) /\ WF_canVars(Swap \/ ForgetOvfl \/ CloseFd)

------------------------------------------------------------------------------
\* A capture runs only with an interface open, also while one is being closed.
RunningMeansOpen == running => canFd # NoFd

\* However OPEN, CLOSe and their failures follow one another, the daemon holds
\* the socket of the open interface and that of an OPEN in progress, no other.
OneSocket ==
  \A n \in Fds : file[n] # NoSocket <=> n \in ({canFd, newFd} \ {NoFd})

\* The capture, its interface and its descriptors stay together.
SocketsKept == RunningMeansOpen /\ OneSocket

\* Once STOP or CLOSe has run, the frame in the producer's hands is the last
\* one captured, whatever its descriptor names by then.
AtMostOneAfterStop == afterStop =< 1

\* The drop total never exceeds what the kernel and the ring lost, as long as
\* the first interface opened is the only one.
NeverOvercounts == opened =< 1 => dropped =< missed + ringLost

\* What the comment at main.c:46 promises, and the code does not do: kernel losses are in the drop total
\* by the time the frame after them is handed on.
KernelLossCounted == ppc = "push" => dropped = missed + ringLost

\* What the comment on s_dropped at main.c:71 says of it, and the code breaks
\* when an interface is opened again: it is ring overflow and kernel losses, whichever interfaces were open in turn.
NotMoreThanLost == dropped =< missed + ringLost

\* What the description of SYSTem:STReam:STARt says: it begins filling the ring,
\* so a frame that waits meanwhile is pushed.
FrameWaits == canFd # NoFd /\ queue[file[canFd]] # <<>>
BeginsFilling == running /\ FrameWaits ~> ppc = "push" \/ ~running \/ ~FrameWaits
=============================================================================
