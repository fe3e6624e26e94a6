--------------------------- MODULE DatagramClient ---------------------------
(***************************************************************************)
(* A blocking UDP client (clients/udp.py, and clients/unix_datagram.py     *)
(* like it) that several threads use, with its endpoint                    *)
(* (api_sync/endpoints/datagram.py) and its selector transport.  One call  *)
(* is one datagram: nothing is kept between two calls.                     *)
(*                                                                         *)
(* A datagram is its number, in the order the kernel queued them: what the *)
(* network drops never came.                                               *)
(***************************************************************************)
EXTENDS TimedCalls, Sequences

CONSTANT Datagrams  \* how many the peer sends

VARIABLES
  arrived, queue, \* datagrams that came, and those the socket holds
  room,           \* whether the socket takes one more datagram to send
  socket,         \* "open" or "closed"
  given           \* history: what recv_packet() returned

vars == <<retry, arrived, queue, room, socket, given, locks, call>>

Init ==
  /\ NoCall /\ arrived = 0 /\ queue = <<>> /\ room = TRUE
  /\ socket = "open" /\ given = <<>>
-----------------------------------------------------------------------------
Arrive ==
  /\ arrived < Datagrams
  /\ arrived' = arrived + 1 /\ queue' = Append(queue, arrived + 1)
  /\ UNCHANGED <<retry, room, socket, given, locks, call>>

Drains ==
  /\ ~room /\ room' = TRUE
  /\ UNCHANGED <<retry, arrived, queue, socket, given, locks, call>>

Call(t, op, timeout) ==
  /\ call[t] = Idle /\ (op = "close" => timeout = Inf)
  /\ call' = [call EXCEPT ![t] = Started(op, timeout, 0)]
  /\ UNCHANGED <<retry, arrived, queue, room, socket, given, locks>>

\* A client that is closed refuses.  close() is one step under the send lock.
Acquire(t) ==
  /\ At(t, "lock") /\ Free(t)
  /\ IF socket = "closed" /\ call[t].op # "close" THEN Return(t)
     ELSE TakeLock(t, IF call[t].op = "close" THEN "close" ELSE "try")
  /\ UNCHANGED <<retry, arrived, queue, room, socket, given>>

GivesUp(t) == LockTimeout(t) /\ UNCHANGED <<retry, arrived, queue, room, socket, given>>

\* SocketDatagramTransport.recv_noblock().  In _retry(), a socket that another thread
\* closed is an error.
FaultTryRecv(t) ==
  /\ At(t, "try") /\ Receives(t)
  /\ CASE socket = "closed" -> Return(t) /\ UNCHANGED <<queue, given>>
       [] socket = "open" /\ queue # <<>> ->
            given' = Append(given, Head(queue)) /\ queue' = <<>> /\ Return(t)
       [] OTHER -> Select(t) /\ UNCHANGED <<queue, given>>
  /\ UNCHANGED <<retry, arrived, room, socket>>
TryRecv(t) ==
  /\ At(t, "try") /\ Receives(t)
  /\ CASE socket = "closed" -> Return(t) /\ UNCHANGED <<queue, given>>
       [] socket = "open" /\ queue # <<>> ->
            given' = Append(given, Head(queue)) /\ queue' = Tail(queue) /\ Return(t)
       [] OTHER -> Select(t) /\ UNCHANGED <<queue, given>>
  /\ UNCHANGED <<retry, arrived, room, socket>>

\* send_noblock()
TrySend(t) ==
  /\ At(t, "try") /\ ~Receives(t)
  /\ CASE socket = "closed" -> Return(t) /\ UNCHANGED room
       [] socket = "open" /\ room -> room' = FALSE /\ Return(t)
       [] OTHER -> Select(t) /\ UNCHANGED room
  /\ UNCHANGED <<retry, arrived, queue, socket, given>>

\* close() does not shut a datagram socket down: it wakes nobody up.
Ready(t) == IF Receives(t) THEN queue # <<>> ELSE room

Awakes(t) == Selected(t, Ready(t)) /\ UNCHANGED <<retry, arrived, queue, room, socket, given>>

Close(t) ==
  /\ At(t, "close")
  /\ socket' = "closed" /\ Return(t)
  /\ UNCHANGED <<retry, arrived, queue, room, given>>
-----------------------------------------------------------------------------
Runs(t) == Acquire(t) \/ GivesUp(t) \/ TryRecv(t) \/ TrySend(t) \/ Awakes(t) \/ Close(t)

Tick ==
  /\ \A t \in Threads : Waits(t, Ready(t))
  /\ TickCalls /\ UNCHANGED <<retry, arrived, queue, room, socket, given>>

Next ==
  \/ Arrive \/ Drains \/ Tick
  \/ \E t \in Threads : Runs(t) \/ \E op \in {"send", "recv", "close"}, timeout \in Timeouts : Call(t, op, timeout)

\* Time goes on, even if a thread makes one call after the other that takes none.
Fairness == (\A t \in Threads : WF_vars(Runs(t))) /\ SF_vars(Tick)

Spec == Init /\ [][Next]_vars
FairSpec == Spec /\ Fairness
-----------------------------------------------------------------------------
TypeOK ==
  /\ CallsTypeOK
  /\ arrived \in 0..Datagrams /\ room \in BOOLEAN /\ socket \in {"open", "closed"}

\* However many threads receive, and whatever timeouts they have, every datagram that
\* came is returned by one call of recv_packet(), in the order of the socket, or is
\* still in the socket.
NothingLost == given \o queue = [i \in 1..arrived |-> i]

\* A thread that waits for the socket when another closes the client is let go by its
\* retry interval or its timeout; with neither of them nothing wakes it up, since a
\* datagram socket is not shut down before it is closed.
CloseLetsGo ==
  \A t \in Threads :
    (socket = "closed" /\ call[t].pc \notin {"idle", "lock"} /\ (retry # Inf \/ call[t].allowed # Inf))
      ~> (call[t] = Idle)
=============================================================================
