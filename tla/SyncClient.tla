----------------------------- MODULE SyncClient -----------------------------
(***************************************************************************)
(* A blocking TCP client (clients/tcp.py) that several threads use: the    *)
(* locks and their timeouts, the endpoint (api_sync/endpoints/stream.py)   *)
(* and the retries of the selector transport                               *)
(* (api_sync/transports/base_selector.py).                                 *)
(*                                                                         *)
(* A packet is two bytes, a byte is its position in the stream.            *)
(***************************************************************************)
EXTENDS TimedCalls, Sequences

CONSTANT Packets  \* how many packets the peer sends

VARIABLES
  arrived, inbox, eof, \* the socket: bytes the peer sent, bytes to receive, end of stream
  room,                \* whether the socket takes one more byte to send
  socket, eofSent,     \* "open" or "closed", and __eof_sent of the endpoint
  consumer, seen       \* bytes of the consumer, and history: packets returned

link == <<arrived, inbox, eof, room>>
endpoint == <<socket, eofSent, consumer, seen>>
vars == <<retry, link, endpoint, locks, call>>

Init ==
  /\ NoCall /\ arrived = 0 /\ inbox = <<>> /\ eof = FALSE /\ room = TRUE
  /\ socket = "open" /\ eofSent = FALSE /\ consumer = <<>> /\ seen = <<>>
-----------------------------------------------------------------------------
\* The peer and the kernel.

Arrive ==
  /\ ~eof /\ arrived < 2 * Packets
  /\ arrived' = arrived + 1 /\ inbox' = Append(inbox, arrived + 1)
  /\ UNCHANGED <<retry, eof, room, endpoint, locks, call>>

Ends ==
  /\ ~eof /\ eof' = TRUE
  /\ UNCHANGED <<retry, arrived, inbox, room, endpoint, locks, call>>

PeerReads ==
  /\ ~room /\ room' = TRUE
  /\ UNCHANGED <<retry, arrived, inbox, eof, endpoint, locks, call>>
-----------------------------------------------------------------------------
\* The calls, under their locks.

Call(t, op, timeout) ==
  /\ call[t] = Idle /\ (op \in {"eof", "close"} => timeout = Inf)
  /\ call' = [call EXCEPT ![t] = Started(op, timeout, IF op = "send" THEN 2 ELSE 0)]
  /\ UNCHANGED <<retry, link, endpoint, locks>>

HasPacket(bytes) == Len(bytes) >= 2

\* The first packet of bytes is returned, the rest is for the next call.
ReturnPacket(t, bytes) ==
  /\ seen' = Append(seen, SubSeq(bytes, 1, 2))
  /\ consumer' = SubSeq(bytes, 3, Len(bytes))
  /\ Return(t)

\* A client that is closed refuses; a packet of the consumer is returned at once.
Acquire(t) ==
  /\ At(t, "lock") /\ Free(t)
  /\ CASE (socket = "closed" /\ call[t].op # "close") \/ (eofSent /\ call[t].op = "send") ->
            Return(t) /\ UNCHANGED <<consumer, seen>>
       [] socket = "open" /\ Receives(t) /\ HasPacket(consumer) -> ReturnPacket(t, consumer)
       [] OTHER ->
            /\ TakeLock(t, IF call[t].op \in {"eof", "close"} THEN call[t].op ELSE "try")
            /\ UNCHANGED <<consumer, seen>>
  /\ UNCHANGED <<retry, link, socket, eofSent>>

GivesUp(t) == LockTimeout(t) /\ UNCHANGED <<retry, link, endpoint>>
-----------------------------------------------------------------------------
\* SocketStreamTransport.recv_noblock(); no byte is the end of the stream.  In _retry(),
\* a socket that another thread closed is an error.
TryRecv(t) ==
  /\ At(t, "try") /\ Receives(t)
  /\ CASE socket = "closed" \/ (inbox = <<>> /\ eof) -> Return(t) /\ UNCHANGED inbox
       [] socket = "open" /\ inbox # <<>> ->
            /\ call' = [call EXCEPT ![t].pc = "next", ![t].chunk = inbox] /\ inbox' = <<>>
            /\ UNCHANGED locks
       [] OTHER -> Select(t) /\ UNCHANGED inbox
  /\ UNCHANGED <<retry, arrived, eof, room, endpoint>>

\* consumer.next(): the packet, or on to the next recv() with what is left.
ConsumerNext(t) ==
  /\ At(t, "next")
  /\ LET bytes == consumer \o call[t].chunk IN
     IF HasPacket(bytes) THEN ReturnPacket(t, bytes)
     ELSE /\ consumer' = bytes /\ seen' = seen
          /\ IF call[t].left = 0 THEN Return(t)
             ELSE call' = [call EXCEPT ![t].pc = "try", ![t].chunk = <<>>] /\ UNCHANGED locks
  /\ UNCHANGED <<retry, link, socket, eofSent>>

\* send_all_from_iterable(): byte after byte, with what is left of the timeout.
TrySend(t) ==
  /\ At(t, "try") /\ ~Receives(t)
  /\ CASE socket = "closed" -> Return(t) /\ UNCHANGED room
       [] socket = "open" /\ room ->
            /\ room' = FALSE
            /\ IF call[t].todo = 1 THEN Return(t)
               ELSE call' = [call EXCEPT ![t].todo = @ - 1] /\ UNCHANGED locks
       [] OTHER -> Select(t) /\ UNCHANGED room
  /\ UNCHANGED <<retry, arrived, inbox, eof, endpoint>>

\* The selector wakes up for the socket, its shutdown by close() included, or at the
\* end of its wait.
Ready(t) == socket = "closed" \/ IF Receives(t) THEN inbox # <<>> \/ eof ELSE room

Awakes(t) == Selected(t, Ready(t)) /\ UNCHANGED <<retry, link, endpoint>>
-----------------------------------------------------------------------------
SendEof(t) ==
  /\ At(t, "eof")
  /\ eofSent' = TRUE /\ Return(t)
  /\ UNCHANGED <<retry, link, socket, consumer, seen>>

\* close() has the send lock only: the receiver may be anywhere.
Close(t) ==
  /\ At(t, "close")
  /\ socket' = "closed" /\ Goes(t, "clear")
  /\ UNCHANGED <<retry, link, eofSent, consumer, seen>>

Clear(t) ==
  /\ At(t, "clear")
  /\ consumer' = <<>> /\ Return(t)
  /\ UNCHANGED <<retry, link, socket, eofSent, seen>>
-----------------------------------------------------------------------------
Runs(t) ==
  \/ Acquire(t) \/ GivesUp(t) \/ TryRecv(t) \/ ConsumerNext(t) \/ TrySend(t) \/ Awakes(t)
  \/ SendEof(t) \/ Close(t) \/ Clear(t)

Tick ==
  /\ \A t \in Threads : Waits(t, Ready(t))
  /\ TickCalls /\ UNCHANGED <<retry, link, endpoint>>

Next ==
  \/ Arrive \/ Ends \/ PeerReads \/ Tick
  \/ \E t \in Threads : Runs(t) \/ \E op \in {"send", "eof", "recv", "close"}, timeout \in Timeouts : Call(t, op, timeout)

Fairness == (\A t \in Threads : WF_vars(Runs(t))) /\ WF_vars(Tick)

Spec == Init /\ [][Next]_vars
FairSpec == Spec /\ Fairness
-----------------------------------------------------------------------------
TypeOK ==
  /\ CallsTypeOK
  /\ arrived \in 0..(2 * Packets) /\ {eof, room, eofSent} \subseteq BOOLEAN
  /\ socket \in {"open", "closed"}

\* The packets that come out of recv_packet() are the peer's, whole and in order.
InOrder == \A i \in 1..Len(seen) : seen[i] = <<2 * i - 1, 2 * i>>

\* Nothing is lost by a timeout, nor by several threads that receive, as long as
\* nobody closes the client.
NothingLost ==
  LET chunk == IF recvLock = NoThread THEN <<>> ELSE call[recvLock].chunk
      bytes == consumer \o chunk \o inbox
  IN socket = "open" => InOrder /\ bytes = [i \in 1..(arrived - 2 * Len(seen)) |-> 2 * Len(seen) + i]

\* close() of a client while other threads wait in recv_packet() or send_packet() for
\* its socket: they are let go, and with them who waits for their lock.
CloseLetsGo ==
  \A t \in Threads : (socket = "closed" /\ call[t].pc \notin {"idle", "lock"}) ~> (call[t] = Idle)

\* close() and recv_packet() are "Thread-safe": a packet is never made of what is
\* left of the stream when the consumer was cleared.
CloseIsThreadSafe == InOrder
=============================================================================
