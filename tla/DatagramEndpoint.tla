---------------------------- MODULE DatagramEndpoint ----------------------------
(***************************************************************************)
(* The receiving side of a datagram socket on asyncio:                     *)
(*   .../backend/_asyncio/datagram/endpoint.py (endpoint and protocol)     *)
(*   .../backend/_asyncio/datagram/socket.py (the transport of a client)   *)
(* The protocol keeps the datagrams in one queue and the errors in another *)
(* one; a None among the datagrams stands for an error, or for the loss of *)
(* the endpoint.  sendto() waits as WriteFlowControl says.                 *)
(***************************************************************************)
EXTENDS Integers, Sequences, SequencesExt, FiniteSets

CONSTANT MaxEvents  \* bound: the datagrams and errors that the system reports

EndpointParameters == MaxEvents \in Nat

VARIABLES
  closing,    \* asyncio's transport is closing
  lost,       \* connection_lost() was called
  fatal,      \* the error it will be called with: 0 for none
  recvQueue, excQueue, \* the two queues: an event is a number, 0 is None
  receiver,   \* the task in recvfrom(): "idle", "waiting" in get(), "woken"
  outcome,    \* its last result: "none", "event", "EBADF" or "assertion"
  closer,     \* the task in aclose(): "idle", "waiting", "done"
  arrived,    \* history: the events, in order; an event is an error or a datagram
  given       \* history: the events that recvfrom() returned or raised

vars == <<closing, lost, fatal, recvQueue, excQueue, receiver, outcome, closer, arrived, given>>

TypeOK ==
  /\ closing \in BOOLEAN /\ lost \in BOOLEAN /\ fatal \in 0..MaxEvents + 1
  /\ recvQueue \in Seq(0..MaxEvents) /\ excQueue \in Seq(1..MaxEvents + 1)
  /\ receiver \in {"idle", "waiting", "woken"} /\ outcome \in {"none", "event", "EBADF", "assertion"}
  /\ closer \in {"idle", "waiting", "done"}
  /\ lost => closing
  /\ receiver = "waiting" => recvQueue = <<>>
  /\ closer = "done" => lost

Init ==
  /\ closing = FALSE /\ lost = FALSE /\ fatal = 0 /\ recvQueue = <<>> /\ excQueue = <<>>
  /\ receiver = "idle" /\ outcome = "none" /\ closer = "idle" /\ arrived = <<>> /\ given = <<>>

-----------------------------------------------------------------------------
(* The protocol, called by asyncio *)

NextEvent == Len(arrived) + 1

\* put_nowait() wakes the task that waits for the queue.
Put(item) ==
  /\ recvQueue' = Append(recvQueue, item)
  /\ receiver' = IF receiver = "waiting" THEN "woken" ELSE receiver

DatagramReceived ==
  /\ ~closing /\ NextEvent <= MaxEvents
  /\ Put(NextEvent) /\ arrived' = Append(arrived, NextEvent)
  /\ UNCHANGED <<closing, lost, fatal, excQueue, outcome, closer, given>>

\* An error of the system that leaves the endpoint open.
WakesWithError(exc) == Put(0)
ErrorReceived ==
  /\ ~lost /\ NextEvent <= MaxEvents
  /\ excQueue' = Append(excQueue, NextEvent) /\ WakesWithError(NextEvent)
  /\ arrived' = Append(arrived, NextEvent)
  /\ UNCHANGED <<closing, lost, fatal, outcome, closer, given>>

\* An error after which asyncio gives the transport up: it is closing at once, and
\* connection_lost() comes later with the error.
FatalError ==
  /\ ~closing /\ closing' = TRUE /\ fatal' = MaxEvents + 1
  /\ UNCHANGED <<lost, recvQueue, excQueue, receiver, outcome, closer, arrived, given>>

\* The tasks in aclose() wait for the future that it sets.
WakesEndpoint == Put(0)
ConnectionLost ==
  /\ closing /\ ~lost /\ lost' = TRUE
  /\ WakesEndpoint
  /\ excQueue' = IF fatal # 0 THEN Append(excQueue, fatal) ELSE excQueue
  /\ arrived' = IF fatal # 0 THEN Append(arrived, fatal) ELSE arrived
  /\ closer' = IF closer = "waiting" THEN "done" ELSE closer
  /\ UNCHANGED <<closing, fatal, outcome, given>>

-----------------------------------------------------------------------------
(* The endpoint *)

Gives(event) == outcome' = "event" /\ given' = Append(given, event)

\* What recvfrom() makes of a None: __check_exceptions(), or else the endpoint is
\* closed.
ChecksExceptions ==
  IF excQueue # <<>>
  THEN Gives(Head(excQueue)) /\ excQueue' = Tail(excQueue)
  ELSE outcome' = (IF closing THEN "EBADF" ELSE "assertion") /\ UNCHANGED <<excQueue, given>>

\* get_nowait()
Takes ==
  /\ recvQueue' = Tail(recvQueue)
  /\ IF Head(recvQueue) = 0 THEN ChecksExceptions ELSE Gives(Head(recvQueue)) /\ UNCHANGED excQueue

RecvFrom ==
  /\ receiver = "idle"
  /\ \/ recvQueue # <<>> /\ Takes /\ UNCHANGED receiver
     \/ recvQueue = <<>> /\ closing /\ ChecksExceptions /\ UNCHANGED <<recvQueue, receiver>>
     \/ recvQueue = <<>> /\ ~closing /\ receiver' = "waiting" /\ UNCHANGED <<recvQueue, excQueue, outcome, given>>
  /\ UNCHANGED <<closing, lost, fatal, closer, arrived>>

\* The task that was woken runs.
RecvGoesOn ==
  /\ receiver = "woken" /\ receiver' = "idle" /\ Takes
  /\ UNCHANGED <<closing, lost, fatal, closer, arrived>>

\* It is cancelled before or after it was woken: what woke it stays in the queue.
CancelRecv ==
  /\ receiver # "idle" /\ receiver' = "idle" /\ outcome' = "none"
  /\ UNCHANGED <<closing, lost, fatal, recvQueue, excQueue, closer, arrived, given>>

\* aclose(): close_nowait(), and the protocol's future.
Close ==
  /\ closer = "idle" /\ closing' = TRUE
  /\ closer' = IF lost THEN "done" ELSE "waiting"
  /\ UNCHANGED <<lost, fatal, recvQueue, excQueue, receiver, outcome, arrived, given>>
CancelClose ==
  /\ closer = "waiting" /\ closer' = "idle"
  /\ UNCHANGED <<closing, lost, fatal, recvQueue, excQueue, receiver, outcome, arrived, given>>

Next ==
  \/ DatagramReceived \/ ErrorReceived \/ FatalError \/ ConnectionLost
  \/ RecvFrom \/ RecvGoesOn \/ CancelRecv \/ Close \/ CancelClose

\* asyncio reports the loss of a transport that is closing, and runs the tasks.
Fairness == WF_vars(ConnectionLost) /\ WF_vars(RecvGoesOn)
Spec == Init /\ [][Next]_vars
FairSpec == Spec /\ Fairness

-----------------------------------------------------------------------------
(* Properties *)

\* The events that wait in the two queues, in the order of the first one: the n-th
\* None is for the n-th error.  A None with no error is there for the loss alone,
\* behind all of them.
NonesUpTo(i) == Cardinality({j \in 1..i : recvQueue[j] = 0})
Event(i) == IF recvQueue[i] # 0 THEN recvQueue[i]
            ELSE IF NonesUpTo(i) <= Len(excQueue) THEN excQueue[NonesUpTo(i)] ELSE 0
Pending ==
  LET n == Len(recvQueue)
      lossAlone == recvQueue # <<>> /\ Event(n) = 0
  IN [i \in 1..(IF lossAlone THEN n - 1 ELSE n) |-> Event(i)]

\* Datagrams and errors reach recvfrom() once each and in the order they came,
\* although they are in two queues: None and errors stay matched, whatever was
\* cancelled, and the assertion of recvfrom() never fails.
EventsInOrder == given \o Pending = arrived /\ outcome # "assertion"

\* A task in recvfrom() or in aclose() is let go when the endpoint closes.
CloseLetsGo == closing ~> receiver # "waiting" /\ closer # "waiting"
=============================================================================
