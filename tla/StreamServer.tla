---------------------------- MODULE StreamServer ----------------------------
(***************************************************************************)
(* One client of a stream server: its task (__client_coroutine() in        *)
(* lowlevel/api_async/servers/stream.py), the generators of its request    *)
(* handler (build_lowlevel_stream_server_handler() in servers/misc.py),    *)
(* and the client object other tasks send through and close                *)
(* (_ConnectedClientAPI in servers/async_tcp.py).                          *)
(*                                                                         *)
(* A packet is two bytes, a byte is its position in the stream.  The user  *)
(* code is any sequence of yields, returns and exceptions; what it sends   *)
(* is what one more of the Others sends.  The send lock is a fair lock     *)
(* (FairMutex), so a queue whose head is the holder.                       *)
(***************************************************************************)
EXTENDS Integers, Sequences, SequencesExt

CONSTANTS
  Packets,  \* how many packets the peer sends
  Others    \* tasks that use the client object

VARIABLES
  into,      \* the receiver: _BufferedRequestReceiver on asyncio, or one that gets bytes
  arrived, ending,             \* the network: bytes delivered, "open" "eof" or "lost"
  inbox, written,              \* transport: bytes buffered, bytes written in the buffer of recv_into()
  consumer,                    \* bytes of the consumer
  seen,                        \* history: packets given to the request handler
  pc, stage, params, graceful, \* the task of the client
  hook,                        \* "none", "connected" (on_disconnection() is due) or "disconnected"
  cancelled,                   \* the task group cancels the task: "no", "pending" or "thrown"
  transport, closing,          \* the transport, and __closing of the client object
  sendq, inside                \* the send lock, and whether its holder is in the transport

stream  == <<into, arrived, ending, inbox, written, consumer, seen>>
handler == <<pc, stage, params, graceful, hook, cancelled>>
client  == <<transport, closing, sendq, inside>>
vars == <<stream, handler, client>>

Task == "client coroutine"
ServerParameters == Packets \in Nat /\ Task \notin Others

NoParams == [timeout |-> FALSE, ancillary |-> FALSE]

Init ==
  /\ into \in BOOLEAN /\ arrived = 0 /\ ending = "open"
  /\ inbox = <<>> /\ written = <<>> /\ consumer = <<>> /\ seen = <<>>
  /\ pc = "user" /\ stage = "connecting" /\ params = NoParams /\ graceful = FALSE
  /\ hook = "none" /\ cancelled = "no"
  /\ transport = "open" /\ closing = FALSE /\ sendq = <<>> /\ inside = FALSE

TransportClosing == transport = "closed" \/ ending = "lost"
HasPacket(bytes) == Len(bytes) >= 2
Packet(bytes) == SubSeq(bytes, 1, 2)
-----------------------------------------------------------------------------
\* The network and the event loop.  A recv_into() that waits has lent its buffer.

Lent == into /\ pc = "recv" /\ inbox = <<>> /\ written = <<>> /\ arrived < 2 * Packets

Deliver(n) ==
  /\ ending = "open" /\ transport = "open" /\ arrived + n <= 2 * Packets
  /\ arrived' = arrived + n
  /\ LET bytes == [i \in 1..n |-> arrived + i] IN
     IF Lent THEN written' = bytes /\ inbox' = inbox
             ELSE inbox' = inbox \o bytes /\ written' = written
  /\ UNCHANGED <<into, ending, consumer, seen, handler, client>>

StreamEnds(how) ==
  /\ ending = "open" \/ (ending = "eof" /\ how = "lost")
  /\ ending' = how
  /\ UNCHANGED <<into, arrived, inbox, written, consumer, seen, handler, client>>
-----------------------------------------------------------------------------
\* The end of the task.  The exit stacks of the generator run on_disconnection(),
\* then _on_disconnect(), which waits for the send lock; then the transport is
\* closed, gracefully after a handler that returned.

Disconnecting == [task |-> Task, call |-> "disconnect"]
Disconnect ==
  /\ pc' = "leaving" /\ closing' = TRUE
  /\ sendq' = Append(sendq, Disconnecting)

\* The hook is pushed once on_connection() is over.
HookIsDue(connected) == connected = "connected"

Leave(how, connected) ==
  /\ graceful' = how
  /\ IF HookIsDue(connected)
     THEN pc' = "hook" /\ hook' = connected /\ UNCHANGED <<closing, sendq>>
     ELSE hook' = connected /\ Disconnect

HookDone ==
  /\ pc = "hook"
  /\ hook' = "disconnected" /\ Disconnect
  /\ UNCHANGED <<stream, stage, params, graceful, cancelled, transport, inside>>

\* aclose_forcefully() when the handler did not return.
AfterLeaving ==
  IF graceful THEN pc' = "closing" /\ transport' = transport
              ELSE pc' = "done" /\ transport' = "closed"

FaultMayLeave == TRUE
MayLeave == Head(sendq).task = Task

Left ==
  /\ pc = "leaving" /\ MayLeave
  /\ sendq' = RemoveFirst(sendq, Disconnecting)
  /\ AfterLeaving
  /\ UNCHANGED <<stream, stage, params, graceful, hook, cancelled, closing, inside>>

TransportClosed ==
  /\ pc = "closing"
  /\ pc' = "done" /\ transport' = "closed"
  /\ UNCHANGED <<stream, stage, params, graceful, hook, cancelled, closing, sendq, inside>>
-----------------------------------------------------------------------------
\* The user code.

\* _RequestReceiver.next(): a packet that is already there is given after a
\* yield that ignores cancellation.
UserYields(p) ==
  /\ pc = "user" /\ cancelled # "thrown"
  /\ IF TransportClosing
     THEN Leave(FALSE, hook) /\ UNCHANGED <<stage, params, transport>>
     ELSE /\ pc' = IF HasPacket(consumer) THEN "yield" ELSE "recv"
          /\ stage' = IF stage = "first" THEN "handling" ELSE stage
          /\ params' = p
          /\ UNCHANGED <<graceful, hook, transport, closing, sendq>>
  /\ UNCHANGED <<stream, cancelled, inside>>

\* on_connection() or a generator of handle() returns.  A handle() that returns
\* without a yield closes the client by force.
UserReturns ==
  /\ pc = "user" /\ cancelled # "thrown"
  /\ LET connected == IF stage = "connecting" THEN "connected" ELSE hook IN
     \/ /\ stage = "first"
        /\ graceful' = TRUE /\ closing' = TRUE /\ transport' = "closed"
        /\ IF HookIsDue(connected)
           THEN pc' = "hook" /\ hook' = hook /\ sendq' = sendq
           ELSE hook' = hook /\ Disconnect
        /\ UNCHANGED stage
     \/ stage # "first" /\ closing /\ Leave(TRUE, connected) /\ UNCHANGED <<stage, transport>>
     \/ /\ stage # "first" /\ ~closing
        /\ stage' = "first" /\ hook' = connected
        /\ UNCHANGED <<pc, graceful, transport, closing, sendq>>
  /\ UNCHANGED <<stream, params, cancelled, inside>>

UserRaises ==
  /\ pc = "user"
  /\ Leave(FALSE, hook)
  /\ UNCHANGED <<stream, stage, params, cancelled, transport, inside>>
-----------------------------------------------------------------------------
\* The request loop.

\* A packet is sent to the generator; one that does not parse is thrown into it.
Give(bytes) ==
  /\ consumer' = SubSeq(bytes, 3, Len(bytes))
  /\ seen' = Append(seen, Packet(bytes))
  /\ pc' = "user"

Yielded ==
  /\ pc = "yield"
  /\ Give(consumer)
  /\ UNCHANGED <<into, arrived, ending, inbox, written, stage, params, graceful, hook, cancelled, client>>

\* next() goes back to the transport; next_with_ancillary() raises EOFError.
Received ==
  /\ pc = "recv" /\ inbox \o written # <<>> /\ ~TransportClosing
  /\ inbox' = <<>> /\ written' = <<>>
  /\ LET bytes == consumer \o written \o inbox IN
     IF HasPacket(bytes) THEN Give(bytes)
     ELSE /\ consumer' = bytes /\ seen' = seen
          /\ pc' = IF params.ancillary THEN "user" ELSE "recv"
  /\ UNCHANGED <<into, arrived, ending, stage, params, graceful, hook, cancelled, client>>

\* An end of stream, or an error that the filter takes for a disconnection.
FaultAtEnd == TransportClosing
AtEnd == TransportClosing \/ (ending = "eof" /\ inbox \o written = <<>>)

EndOfStream ==
  /\ pc = "recv" /\ AtEnd
  /\ Leave(TRUE, hook)
  /\ UNCHANGED <<stream, stage, params, cancelled, transport, inside>>

\* Any other error is thrown into the generator.
ReceiveFails ==
  /\ pc = "recv" /\ TransportClosing
  /\ pc' = "user"
  /\ UNCHANGED <<stream, stage, params, graceful, hook, cancelled, client>>

\* The timeout of a yield; one that fires in the shielded yield is dropped with
\* its scope.  The bytes written for a recv_into() that is cancelled are lost.
SurvivesTimeout == pc = "yield"

TimesOut ==
  /\ pc \in {"recv", "yield"} /\ params.timeout
  /\ params' = [params EXCEPT !.timeout = FALSE]
  /\ written' = <<>>
  /\ IF SurvivesTimeout THEN UNCHANGED <<pc, consumer>>
     ELSE /\ pc' = "user"
          /\ consumer' = IF pc = "yield" THEN SubSeq(consumer, 3, Len(consumer)) ELSE consumer
  /\ UNCHANGED <<into, arrived, ending, inbox, seen, stage, graceful, hook, cancelled, client>>

\* The end of the server cancels the task, once.
CancelTask ==
  /\ cancelled = "no" /\ pc # "done"
  /\ cancelled' = "pending"
  /\ UNCHANGED <<stream, pc, stage, params, graceful, hook, client>>

CancelThrown ==
  /\ cancelled = "pending" /\ pc \notin {"yield", "done"}
  /\ cancelled' = "thrown"
  /\ written' = <<>>
  /\ \/ pc \in {"user", "recv"} /\ pc' = "user" /\ UNCHANGED <<hook, transport, closing, sendq>>
     \/ pc = "hook" /\ hook' = "disconnected" /\ Disconnect /\ UNCHANGED transport
     \/ /\ pc = "leaving" /\ AfterLeaving
        /\ sendq' = RemoveFirst(sendq, Disconnecting)
        /\ UNCHANGED <<hook, closing>>
     \/ pc = "closing" /\ pc' = "done" /\ transport' = "closed" /\ UNCHANGED <<hook, closing, sendq>>
  /\ UNCHANGED <<into, arrived, ending, inbox, consumer, seen, stage, params, graceful, inside>>
-----------------------------------------------------------------------------
\* _ConnectedClientAPI, in the other tasks.

Waits(t) == \E i \in 1..Len(sendq) : sendq[i].task = t
Holds(t) == sendq # <<>> /\ Head(sendq).task = t

Call(t, c) ==
  /\ ~Waits(t) /\ ~(closing /\ sendq = <<>>)
  /\ sendq' = Append(sendq, [task |-> t, call |-> c])
  /\ UNCHANGED <<stream, handler, transport, closing, inside>>

\* The lock is taken: ClientClosedError, or into the transport.
Refused(c) == c = "send" /\ closing

Enter(t) ==
  /\ Holds(t) /\ ~inside
  /\ LET c == Head(sendq).call IN
     IF Refused(c) THEN sendq' = Tail(sendq) /\ UNCHANGED <<inside, closing>>
     ELSE inside' = TRUE /\ closing' = (closing \/ c = "close") /\ UNCHANGED sendq
  /\ UNCHANGED <<stream, handler, transport>>

Finish(t) ==
  /\ Holds(t) /\ inside
  /\ inside' = FALSE /\ sendq' = Tail(sendq)
  /\ transport' = IF Head(sendq).call = "close" THEN "closed" ELSE transport
  /\ UNCHANGED <<stream, handler, closing>>

\* The task is cancelled: an aclose() closes by force, unless it waits for the
\* lock and the client is closing already.
GiveUp(t) ==
  /\ \E c \in {"send", "close"} :
       LET asked == [task |-> t, call |-> c]
           in == Head(sendq) = asked /\ inside
       IN
       /\ Contains(sendq, asked) /\ sendq' = RemoveFirst(sendq, asked)
       /\ transport' = IF c = "close" /\ (in \/ ~closing) THEN "closed" ELSE transport
       /\ closing' = (closing \/ c = "close")
       /\ inside' = (inside /\ ~in)
  /\ UNCHANGED <<stream, handler>>
-----------------------------------------------------------------------------
UserCode == (\E p \in [timeout : BOOLEAN, ancillary : BOOLEAN] : UserYields(p)) \/ UserReturns \/ UserRaises
GoesOn == HookDone \/ Left \/ TransportClosed \/ Yielded \/ CancelThrown
Receives == Received \/ EndOfStream \/ ReceiveFails
OthersCall == \E t \in Others : (\E c \in {"send", "close"} : Call(t, c)) \/ GiveUp(t)
OthersGoOn == \E t \in Others : Enter(t) \/ Finish(t)

Next ==
  \/ \E n \in 1..2 : Deliver(n)
  \/ \E how \in {"eof", "lost"} : StreamEnds(how)
  \/ UserCode \/ GoesOn \/ Receives \/ TimesOut \/ CancelTask
  \/ OthersCall \/ OthersGoOn

\* The tasks of the loop run, a request handler does not wait for ever between two
\* yields, a send and a close end, and a timeout is long enough for the event loop
\* to look at the socket.
Fairness ==
  /\ WF_vars(UserCode) /\ WF_vars(GoesOn) /\ WF_vars(OthersGoOn)
  /\ SF_vars(Receives)

Spec == Init /\ [][Next]_vars
FairSpec == Spec /\ Fairness
-----------------------------------------------------------------------------
TypeOK ==
  /\ into \in BOOLEAN /\ arrived \in 0..(2 * Packets) /\ ending \in {"open", "eof", "lost"}
  /\ Len(inbox) <= 2 * Packets /\ Len(written) <= 2 /\ Len(consumer) <= 2 * Packets
  /\ pc \in {"user", "recv", "yield", "hook", "leaving", "closing", "done"}
  /\ stage \in {"connecting", "first", "handling"} /\ graceful \in BOOLEAN
  /\ params \in [timeout : BOOLEAN, ancillary : BOOLEAN]
  /\ hook \in {"none", "connected", "disconnected"} /\ cancelled \in {"no", "pending", "thrown"}
  /\ transport \in {"open", "closed"} /\ {closing, inside} \subseteq BOOLEAN
  /\ \A i \in 1..Len(sendq) : sendq[i].task \in Others \cup {Task}

\* __client_coroutine(): the request handler gets every packet of the peer once, in
\* order and whole, whatever times out; but a recv_into() of asyncio that times out
\* when its buffer is written loses those bytes.
InOrder == \A i \in 1..Len(seen) : seen[i] = <<2 * i - 1, 2 * i>>
Position == Len(consumer \o written \o inbox) + 2 * Len(seen)
RequestsIntact == ~into => InOrder /\ Position = arrived

\* The handlers of the documentation go on to read after a timeout: the next
\* packet must be the next one of the peer.
TimeoutKeepsPackets == InOrder

\* The task of a client ends with on_disconnection() called if and only if
\* on_connection() was over, the transport closed and the client object refusing
\* to send; no other task is still sending, unless the wait for it was cancelled.
ClientIsReleased ==
  pc = "done" =>
    /\ hook \in {"none", "disconnected"} /\ (stage # "connecting" => hook = "disconnected")
    /\ transport = "closed" /\ closing
    /\ inside /\ Head(sendq).call = "send" => cancelled = "thrown"

\* A client that is gone, that is closed or whose task is cancelled is let go.
ClientEnds == (ending # "open" \/ transport = "closed" \/ cancelled # "no") ~> (pc = "done")
=============================================================================
