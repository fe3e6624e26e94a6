------------------------------ MODULE AsyncClient ------------------------------
(***************************************************************************)
(* An asynchronous client, shared by several tasks:                        *)
(*   src/easynetwork/clients/async_tcp.py, async_udp.py (and their Unix    *)
(*   counterparts, which differ by the ancillary data)                     *)
(*   src/easynetwork/clients/_base.py (DeferredAsyncEndpointInit)          *)
(*   src/easynetwork/lowlevel/api_async/endpoints/stream.py, datagram.py   *)
(*                                                                         *)
(* The connection is made by the first call that needs it.  A step is what *)
(* a task does between two awaits; Cancelled(t) is a cancellation of t at  *)
(* its await.  A lock is held by the task that is in its section; the      *)
(* order of those who wait for it is the matter of module FairMutex.       *)
(***************************************************************************)
EXTENDS Naturals, FiniteSets

CONSTANTS
  Tasks,
  Kinds   \* those to check, among "stream" and "datagram"

ASSUME Parameters == IsFiniteSet(Tasks) /\ Kinds \subseteq {"stream", "datagram"} /\ Kinds # {}

VARIABLES
  kind,       \* of the client; it never changes
  call,       \* of each task: the method it is in
  pc,         \* of each task: what it awaits
  connector,  \* __transport_connector: "new", "entered" (its scope) or "none"
  cancelled,  \* the scope of the connector is cancelled
  endpoint,   \* __endpoint: "none", "open", "closing" or "closed"
  eofSent,    \* __eof_sent of the endpoint
  raised      \* history: "RuntimeError" or "BusyResourceError" of a call but aclose()

state == <<call, pc, connector, cancelled, endpoint, eofSent, raised>>
vars == <<kind, state>>

Methods == {"wait_connected", "send_packet", "send_eof", "recv_packet", "aclose"}
Waiting == {"want_lock", "want_connector"}
PCs == Waiting \cup {"idle", "connecting", "sending", "sending_eof", "receiving", "closing", "forcing"}

Init ==
  /\ kind \in Kinds
  /\ call = [t \in Tasks |-> "none"] /\ pc = [t \in Tasks |-> "idle"]
  /\ connector = "new" /\ cancelled = FALSE /\ endpoint = "none" /\ eofSent = FALSE
  /\ raised = "none"

\* The endpoint is_closing() when the transport is.
EndpointIsClosing == endpoint \in {"closing", "closed"}
IsClosing == connector = "none" /\ (endpoint = "none" \/ EndpointIsClosing)

Goes(t, place) == pc' = [pc EXCEPT ![t] = place]
Returns(t) == Goes(t, "idle") /\ call' = [call EXCEPT ![t] = "none"]

-----------------------------------------------------------------------------
(* Locks *)

\* The lock a method takes first.
FaultLockOf(m) == IF m = "send_packet" THEN "send" ELSE IF m = "wait_connected" THEN "none" ELSE "receive"
LockOf(m) ==
  CASE m = "wait_connected" -> "none"
    [] m = "recv_packet" -> "receive"
    [] OTHER -> "send"

\* The task that forces the close did not get the send lock.
Holds(t, lock) == pc[t] \notin {"idle", "want_lock", "forcing"} /\ LockOf(call[t]) = lock
IsFree(lock) == \A t \in Tasks : ~Holds(t, lock)
ConnectorIsFree == \A t \in Tasks : pc[t] # "connecting"

\* __send_guard and __recv_guard of the endpoint; only the close of a stream
\* endpoint takes the first one.
SendGuarded ==
  \E t \in Tasks : \/ pc[t] \in {"sending", "sending_eof"}
                   \/ (kind = "stream" /\ pc[t] \in {"closing", "forcing"})
CloseGuarded == kind = "stream" /\ SendGuarded
RecvGuarded == \E t \in Tasks : pc[t] = "receiving"

-----------------------------------------------------------------------------
(* The calls *)

Call(t, m) ==
  /\ pc[t] = "idle"
  /\ m = "send_eof" => kind = "stream"
  /\ call' = [call EXCEPT ![t] = m]
  /\ Goes(t, IF LockOf(m) = "none" THEN "want_connector" ELSE "want_lock")
  /\ UNCHANGED <<connector, cancelled, endpoint, eofSent, raised>>

\* What a call does with a connected endpoint, guards included.
Busy(t) == Returns(t) /\ raised' = "BusyResourceError" /\ UNCHANGED endpoint
Use(t) ==
  CASE call[t] = "wait_connected" -> Returns(t) /\ UNCHANGED raised
    [] call[t] = "recv_packet" -> IF RecvGuarded THEN Busy(t) ELSE Goes(t, "receiving") /\ UNCHANGED <<call, raised>>
    [] call[t] = "send_packet" ->
         IF SendGuarded THEN Busy(t)
         ELSE IF eofSent THEN Returns(t) /\ UNCHANGED raised
         ELSE Goes(t, "sending") /\ UNCHANGED <<call, raised>>
    [] call[t] = "send_eof" ->
         IF SendGuarded THEN Busy(t)
         ELSE IF eofSent THEN Returns(t) /\ UNCHANGED raised
         ELSE Goes(t, "sending_eof") /\ UNCHANGED <<call, raised>>

\* __endpoint.connect(), with the lock of the connector.  A scope is entered
\* once: to enter it again raises RuntimeError.
Connect(t) ==
  /\ ConnectorIsFree
  /\ UNCHANGED <<cancelled, eofSent>>
  /\ \/ /\ endpoint = "none" /\ connector = "new"
        /\ connector' = "entered"
        /\ Goes(t, "connecting")
        /\ UNCHANGED <<call, endpoint, raised>>
     \/ /\ endpoint = "none" /\ connector = "entered"
        /\ Returns(t) /\ raised' = "RuntimeError"
        /\ UNCHANGED <<connector, endpoint>>
     \/ /\ IsClosing \/ EndpointIsClosing
        /\ Returns(t)
        /\ UNCHANGED <<connector, endpoint, raised>>
     \/ /\ endpoint = "open"
        /\ Use(t)
        /\ UNCHANGED <<connector, endpoint>>

GetLock(t) ==
  /\ pc[t] = "want_lock" /\ call[t] # "aclose"
  /\ IsFree(LockOf(call[t]))
  /\ \/ Connect(t)
     \/ /\ ~ConnectorIsFree
        /\ Goes(t, "want_connector")
        /\ UNCHANGED <<call, connector, cancelled, endpoint, eofSent, raised>>

GetConnector(t) == pc[t] = "want_connector" /\ Connect(t)

\* The endpoint factory returns.  If the client was closed meanwhile, what it
\* made is closed at once.
FaultConnectorLeft == connector
ConnectorLeft == "none"
FaultDiscarded == FALSE
Discarded == cancelled
Connected(t) ==
  /\ pc[t] = "connecting"
  /\ connector' = ConnectorLeft
  /\ \/ /\ Discarded
        /\ Returns(t)
        /\ UNCHANGED <<endpoint, raised>>
     \/ /\ ~Discarded
        /\ endpoint' = "open"
        /\ Use(t)
  /\ UNCHANGED <<cancelled, eofSent>>

\* The factory fails: the connector stays.
ConnectFails(t) ==
  /\ pc[t] = "connecting" /\ ~cancelled
  /\ Returns(t)
  /\ UNCHANGED <<connector, cancelled, endpoint, eofSent, raised>>

\* The scope of the connector cancels the factory.
ConnectCancelled(t) ==
  /\ pc[t] = "connecting" /\ cancelled
  /\ connector' = "none"
  /\ Returns(t)
  /\ UNCHANGED <<cancelled, endpoint, eofSent, raised>>

\* The transport answers, with an error once it is closing.
Sent(t) ==
  /\ pc[t] = "sending"
  /\ Returns(t)
  /\ UNCHANGED <<connector, cancelled, endpoint, eofSent, raised>>

SentEof(t) ==
  /\ pc[t] = "sending_eof"
  /\ eofSent' = TRUE
  /\ Returns(t)
  /\ UNCHANGED <<connector, cancelled, endpoint, raised>>

Received(t) ==
  /\ pc[t] = "receiving"
  /\ Returns(t)
  /\ UNCHANGED <<connector, cancelled, endpoint, eofSent, raised>>

-----------------------------------------------------------------------------
(* aclose() *)

\* DeferredAsyncEndpointInit.aclose() up to its await.
FaultStopped == cancelled
Stopped == cancelled \/ connector # "none"
CloseEndpoint(t, place) ==
  /\ connector' = "none" /\ cancelled' = Stopped
  /\ \/ /\ endpoint = "none" \/ CloseGuarded
        /\ Returns(t)
        /\ UNCHANGED endpoint
     \/ /\ endpoint # "none" /\ ~CloseGuarded
        /\ endpoint' = IF endpoint = "open" THEN "closing" ELSE endpoint
        /\ Goes(t, place)
        /\ UNCHANGED call
  /\ UNCHANGED <<eofSent, raised>>

GetLockToClose(t) ==
  /\ pc[t] = "want_lock" /\ call[t] = "aclose"
  /\ IsFree("send")
  /\ CloseEndpoint(t, "closing")

\* The transport is closed, gracefully or not.
Closed(t) ==
  /\ pc[t] \in {"closing", "forcing"}
  /\ endpoint' = "closed"
  /\ Returns(t)
  /\ UNCHANGED <<connector, cancelled, eofSent, raised>>

-----------------------------------------------------------------------------
(* The environment *)

\* aclose() is cancelled while it waits for the lock: it closes by force.
Forced == ~IsClosing
CancelledClose(t) ==
  /\ pc[t] = "want_lock" /\ call[t] = "aclose"
  /\ \/ Forced /\ CloseEndpoint(t, "forcing")
     \/ ~Forced /\ Returns(t) /\ UNCHANGED <<connector, cancelled, endpoint, eofSent, raised>>

Cancelled(t) ==
  /\ pc[t] \notin {"idle", "forcing"} /\ ~(pc[t] = "want_lock" /\ call[t] = "aclose")
  /\ Returns(t)
  /\ endpoint' = IF pc[t] = "closing" THEN "closed" ELSE endpoint
  /\ UNCHANGED <<connector, cancelled, eofSent, raised>>

ConnectionLost ==
  /\ endpoint = "open" /\ endpoint' = "closed"
  /\ UNCHANGED <<call, pc, connector, cancelled, eofSent, raised>>

-----------------------------------------------------------------------------
Next ==
  /\ UNCHANGED kind
  /\ \/ ConnectionLost
     \/ \E t \in Tasks :
          \/ \E m \in Methods : Call(t, m)
          \/ GetLock(t) \/ GetConnector(t) \/ Connected(t) \/ ConnectFails(t) \/ ConnectCancelled(t)
          \/ Sent(t) \/ SentEof(t) \/ Received(t)
          \/ GetLockToClose(t) \/ Closed(t) \/ CancelledClose(t) \/ Cancelled(t)

Spec == Init /\ [][Next]_vars

\* Locks are first come first served; a cancelled connection attempt ends, a
\* closed transport answers and a transport gets closed.  A peer need not
\* answer, and a connection attempt need not end by itself.
Fairness ==
  \A t \in Tasks :
    /\ SF_state(GetLock(t)) /\ SF_state(GetConnector(t)) /\ SF_state(GetLockToClose(t))
    /\ WF_state(ConnectCancelled(t)) /\ WF_state(Closed(t))
    /\ WF_state(endpoint = "closed" /\ (Sent(t) \/ SentEof(t) \/ Received(t)))

FairSpec == Spec /\ Fairness

-----------------------------------------------------------------------------
(* Properties *)

\* Types; the locks exclude; there is an endpoint or a connector, or neither
\* after a close; whoever uses the endpoint finds one.
TypeOK ==
  /\ kind \in Kinds /\ call \in [Tasks -> Methods \cup {"none"}] /\ pc \in [Tasks -> PCs]
  /\ connector \in {"new", "entered", "none"} /\ {cancelled, eofSent} \subseteq BOOLEAN
  /\ endpoint \in {"none", "open", "closing", "closed"}
  /\ raised \in {"none", "RuntimeError", "BusyResourceError"}
  /\ \A t \in Tasks : (call[t] = "none") = (pc[t] = "idle")
  /\ \A l \in {"send", "receive"} : Cardinality({t \in Tasks : Holds(t, l)}) <= 1
  /\ connector # "none" => endpoint = "none" /\ ~cancelled
  /\ \A t \in Tasks : pc[t] \in {"sending", "sending_eof", "receiving", "closing", "forcing"} => endpoint # "none"

\* "Once that happens, all future operations on the client object will raise
\* ClientClosedError": is_closing() never comes back from True, not even when a
\* connection attempt succeeds after the close.
ClosedForGood == [][IsClosing => IsClosing']_vars

\* aclose() leaves a closed client, however it ends; for a stream whose sender
\* is stuck, only when it is not cancelled (see CancelledCloseIsAbrupt).
CloseEnds(t) == call[t] = "aclose" /\ call'[t] = "none"
CloseCloses == [][\A t \in Tasks : CloseEnds(t) /\ ~CloseGuarded => IsClosing']_vars

\* A close is final: both of the above.
CloseIsFinal == ClosedForGood /\ CloseCloses

\* "Does not require task synchronization": the locks of the client never let
\* two tasks use the endpoint at once, or one use it that is being closed.
NeverBusy == raised # "BusyResourceError"

\* A close reaches everyone: the tasks that connect, send, receive or wait for
\* a lock all return.
CloseReachesEveryone == \A t \in Tasks : (IsClosing /\ pc[t] # "idle") ~> pc[t] = "idle"

\* "If aclose() is cancelled, the client is closed abruptly."
CancelledCloseIsAbrupt == [][\A t \in Tasks : CloseEnds(t) => IsClosing']_vars

\* wait_connected() "can be safely called multiple times", after an attempt that
\* failed or was cancelled too.
ConnectsAgain == raised # "RuntimeError"
=============================================================================
