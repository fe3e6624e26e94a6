--------------------------- MODULE AsyncClient_proofs ---------------------------
(* Theorems about AsyncClient, for any set of tasks. *)
EXTENDS AsyncClient, FiniteSetTheorems, TLAPS

-----------------------------------------------------------------------------
(* The inductive invariant *)

Types ==
  /\ kind \in Kinds
  /\ call \in [Tasks -> Methods \cup {"none"}] /\ pc \in [Tasks -> PCs]
  /\ connector \in {"new", "entered", "none"} /\ cancelled \in BOOLEAN /\ eofSent \in BOOLEAN
  /\ endpoint \in {"none", "open", "closing", "closed"}
  /\ raised \in {"none", "RuntimeError"}

\* A task is where its call goes.
CallInv ==
  \A t \in Tasks :
    /\ call[t] = "none" <=> pc[t] = "idle"
    /\ pc[t] \in {"want_connector", "connecting"} => call[t] # "aclose"
    /\ pc[t] = "sending" => call[t] = "send_packet"
    /\ pc[t] = "sending_eof" => call[t] = "send_eof"
    /\ pc[t] = "receiving" => call[t] = "recv_packet"
    /\ pc[t] \in {"closing", "forcing"} => call[t] = "aclose"

\* A lock has one holder.
Locks == {"send", "receive"}
LockInv == \A l \in Locks : \A t, u \in Tasks : Holds(t, l) /\ Holds(u, l) => t = u

\* There is a connector, or the endpoint it made, or the client is closed; one task
\* connects, and only while there is no endpoint.
ConnectInv ==
  /\ connector # "none" => endpoint = "none" /\ ~cancelled
  /\ \A t \in Tasks : pc[t] = "connecting" =>
       /\ endpoint = "none" /\ (cancelled \/ connector = "entered")
       /\ \A u \in Tasks : pc[u] = "connecting" => u = t

\* Who uses the endpoint finds one, which is closing when a task closes it.
UseInv ==
  \A t \in Tasks :
    /\ pc[t] \in {"sending", "sending_eof", "receiving"} => endpoint # "none"
    /\ pc[t] \in {"closing", "forcing"} => EndpointIsClosing

IInv == Types /\ CallInv /\ LockInv /\ ConnectInv /\ UseInv

-----------------------------------------------------------------------------
(* The steps of a task *)

\* What a step of t leaves alone.
Others(t) == \A u \in Tasks \ {t} : pc'[u] = pc[u] /\ call'[u] = call[u]

\* A step of t keeps the locks if t takes only those that are free.
LEMMA LocksFrame ==
  ASSUME LockInv, NEW t \in Tasks, Others(t),
         \A l \in Locks : Holds(t, l)' => Holds(t, l) \/ IsFree(l)
  PROVE  LockInv'
<1> SUFFICES ASSUME NEW l \in Locks, NEW u \in Tasks, NEW v \in Tasks, Holds(u, l)', Holds(v, l)'
             PROVE  u = v
  BY DEF LockInv
<1>1. \A w \in Tasks \ {t} : Holds(w, l)' => Holds(w, l)
  BY DEF Others, Holds
<1>2. CASE u # t /\ v # t
  BY <1>1, <1>2 DEF LockInv
<1>3. CASE u = t /\ v # t
  BY <1>1, <1>3 DEF LockInv, IsFree
<1>4. CASE u # t /\ v = t
  BY <1>1, <1>4 DEF LockInv, IsFree
<1> QED BY <1>2, <1>3, <1>4

\* A call that returns keeps the invariant, whatever the endpoint becomes, when the
\* connector was not the reason of an endpoint or of a connection that goes on.
LEMMA ReturnsInv ==
  ASSUME IInv, NEW t \in Tasks, Returns(t), UNCHANGED kind,
         cancelled' \in BOOLEAN, eofSent' \in BOOLEAN, raised' \in {"none", "RuntimeError"},
         connector' \in {"new", "entered", "none"}, endpoint' \in {"none", "open", "closing", "closed"},
         ConnectInv',
         endpoint # "none" => endpoint' # "none",
         EndpointIsClosing => endpoint' \in {"closing", "closed"}
  PROVE  IInv'
<1>1. Types'
  BY DEF IInv, Types, Returns, Goes, PCs
<1>2. CallInv'
  BY DEF IInv, Types, CallInv, Returns, Goes
<1>3. LockInv'
  <2>1. Others(t) /\ pc'[t] = "idle"
    BY DEF Others, Returns, Goes, IInv, Types
  <2> QED BY <2>1, LocksFrame DEF IInv, Holds
<1>4. UseInv'
  BY DEF IInv, Types, UseInv, Returns, Goes, EndpointIsClosing
<1> QED BY <1>1, <1>2, <1>3, <1>4 DEF IInv

\* The guards of the endpoint are free for whoever holds the lock of its call.
LEMMA NotBusy ==
  ASSUME IInv, NEW t \in Tasks, ~EndpointIsClosing,
         (pc[t] = "want_lock" /\ IsFree(LockOf(call[t]))) \/ pc[t] \in {"want_connector", "connecting"}
  PROVE  /\ call[t] = "recv_packet" => ~RecvGuarded
         /\ call[t] \in {"send_packet", "send_eof"} => ~SendGuarded
<1>1. \A u \in Tasks : pc[u] \notin {"closing", "forcing"}
  BY DEF IInv, UseInv
<1>2. \A u \in Tasks : pc[u] = "receiving" => Holds(u, "receive")
  BY DEF IInv, CallInv, Holds, LockOf
<1>3. \A u \in Tasks : pc[u] \in {"sending", "sending_eof"} => Holds(u, "send")
  BY DEF IInv, CallInv, Holds, LockOf
<1>4. \A l \in Locks : LockOf(call[t]) = l => \A u \in Tasks : Holds(u, l) => u = t
  BY DEF IInv, LockInv, IsFree, Holds
<1>5. ASSUME call[t] = "recv_packet" PROVE ~RecvGuarded
  BY <1>2, <1>4, <1>5 DEF RecvGuarded, LockOf, Locks
<1>6. ASSUME call[t] \in {"send_packet", "send_eof"} PROVE ~SendGuarded
  BY <1>1, <1>3, <1>4, <1>6 DEF SendGuarded, LockOf, Locks
<1> QED BY <1>5, <1>6

\* A call that has its lock and its connection uses the endpoint, or returns.
LEMMA UseStep ==
  ASSUME IInv, NEW t \in Tasks, Use(t),
         (pc[t] = "want_lock" /\ IsFree(LockOf(call[t]))) \/ pc[t] \in {"want_connector", "connecting"},
         call[t] \in Methods \ {"aclose"}, endpoint \in {"none", "open"}, endpoint' = "open", connector' = "none",
         \A u \in Tasks \ {t} : pc[u] # "connecting",
         UNCHANGED <<kind, cancelled, eofSent>>
  PROVE  IInv'
<1>1. \/ Returns(t) /\ UNCHANGED raised
      \/ \E p \in {"receiving", "sending", "sending_eof"} :
           /\ Goes(t, p) /\ UNCHANGED <<call, raised>>
           /\ p = "receiving" => call[t] = "recv_packet"
           /\ p = "sending" => call[t] = "send_packet"
           /\ p = "sending_eof" => call[t] = "send_eof"
  BY NotBusy DEF Use, Methods, EndpointIsClosing
<1>2. ConnectInv'
  BY <1>1 DEF ConnectInv, Returns, Goes, IInv, Types
<1>3. CASE Returns(t) /\ UNCHANGED raised
  BY <1>2, <1>3, ReturnsInv DEF IInv, Types, EndpointIsClosing
<1>4. CASE \E p \in {"receiving", "sending", "sending_eof"} :
             /\ Goes(t, p) /\ UNCHANGED <<call, raised>>
             /\ p = "receiving" => call[t] = "recv_packet"
             /\ p = "sending" => call[t] = "send_packet"
             /\ p = "sending_eof" => call[t] = "send_eof"
  <2>1. PICK p \in {"receiving", "sending", "sending_eof"} :
             /\ Goes(t, p) /\ UNCHANGED <<call, raised>>
             /\ p = "receiving" => call[t] = "recv_packet"
             /\ p = "sending" => call[t] = "send_packet"
             /\ p = "sending_eof" => call[t] = "send_eof"
    BY <1>4
  <2>2. Types'
    BY <2>1 DEF IInv, Types, Goes, PCs
  <2>3. CallInv'
    BY <2>1 DEF IInv, Types, CallInv, Goes
  <2>4. LockInv'
    <3>1. Others(t) /\ pc'[t] = p /\ call'[t] = call[t]
      BY <2>1 DEF Others, Goes, IInv, Types
    <3>2. \A l \in Locks : Holds(t, l)' => Holds(t, l) \/ IsFree(l)
      BY <3>1 DEF Holds
    <3> QED BY <3>1, <3>2, LocksFrame DEF IInv
  <2>5. UseInv'
    BY <2>1 DEF IInv, Types, UseInv, Goes, EndpointIsClosing
  <2> QED BY <1>2, <2>2, <2>3, <2>4, <2>5 DEF IInv
<1> QED BY <1>1, <1>3, <1>4

\* A call that moves on without an endpoint keeps the invariant.
LEMMA MovesInv ==
  ASSUME IInv, NEW t \in Tasks, NEW p \in {"want_lock", "want_connector", "connecting"}, Goes(t, p),
         NEW m \in Methods, call' = [call EXCEPT ![t] = m], p # "want_lock" => m # "aclose",
         p = "want_lock" \/ Holds(t, LockOf(m)) \/ IsFree(LockOf(m)) \/ LockOf(m) = "none",
         call[t] = m \/ pc[t] = "idle",
         connector' \in {"new", "entered", "none"}, ConnectInv', UNCHANGED <<kind, cancelled, endpoint, eofSent, raised>>
  PROVE  IInv'
<1>1. Types'
  BY DEF IInv, Types, Goes, PCs, Waiting
<1>2. CallInv'
  BY DEF IInv, Types, CallInv, Goes, Methods
<1>3. LockInv'
  <2>1. Others(t) /\ pc'[t] = p /\ call'[t] = m
    BY DEF Others, Goes, IInv, Types
  <2>2. \A l \in Locks : Holds(t, l)' => Holds(t, l) \/ IsFree(l)
    BY <2>1 DEF Holds, Locks
  <2> QED BY <2>1, <2>2, LocksFrame DEF IInv
<1>4. UseInv'
  BY DEF IInv, Types, UseInv, Goes, EndpointIsClosing
<1> QED BY <1>1, <1>2, <1>3, <1>4 DEF IInv

\* __endpoint.connect() for a call that has its lock.
LEMMA ConnectStep ==
  ASSUME IInv, NEW t \in Tasks, Connect(t), UNCHANGED kind, call[t] # "aclose",
         (pc[t] = "want_lock" /\ IsFree(LockOf(call[t]))) \/ pc[t] = "want_connector"
  PROVE  IInv'
<1>1. call[t] \in Methods \ {"aclose"} /\ \A u \in Tasks : pc[u] # "connecting"
  BY DEF IInv, Types, CallInv, Connect, ConnectorIsFree
<1>2. CASE /\ endpoint = "none" /\ connector = "new" /\ connector' = "entered"
           /\ Goes(t, "connecting") /\ UNCHANGED <<call, endpoint, raised>>
  <2>1. ConnectInv'
    BY <1>1, <1>2 DEF Connect, ConnectInv, IInv, Types, Goes
  <2>2. call' = [call EXCEPT ![t] = call[t]] /\ UNCHANGED <<kind, cancelled, endpoint, eofSent, raised>>
    BY <1>2 DEF Connect, IInv, Types
  <2>3. Holds(t, LockOf(call[t])) \/ IsFree(LockOf(call[t]))
    BY DEF Holds
  <2> QED BY <1>1, <1>2, <2>1, <2>2, <2>3, MovesInv
<1>3. CASE /\ endpoint = "none" /\ connector = "entered"
           /\ Returns(t) /\ raised' = "RuntimeError" /\ UNCHANGED <<connector, endpoint>>
  <2>1. ConnectInv'
    BY <1>1, <1>3 DEF Connect, ConnectInv, IInv, Types, Returns, Goes
  <2> QED BY <1>3, <2>1, ReturnsInv DEF Connect, IInv, Types, EndpointIsClosing
<1>4. CASE Returns(t) /\ UNCHANGED <<connector, endpoint, raised>>
  <2>1. ConnectInv'
    BY <1>1, <1>4 DEF Connect, ConnectInv, IInv, Types, Returns, Goes
  <2> QED BY <1>4, <2>1, ReturnsInv DEF Connect, IInv, Types, EndpointIsClosing
<1>5. CASE endpoint = "open" /\ Use(t) /\ UNCHANGED <<connector, endpoint>>
  <2>1. connector = "none"
    BY <1>5 DEF IInv, Types, ConnectInv
  <2> QED BY <1>1, <1>5, <2>1, UseStep DEF Connect
<1> QED BY <1>2, <1>3, <1>4, <1>5 DEF Connect

\* The endpoint factory returns, to a client that is open or closed.
LEMMA ConnectedStep == ASSUME IInv, NEW t \in Tasks, Connected(t), UNCHANGED kind PROVE IInv'
<1>1. /\ pc[t] = "connecting" /\ call[t] \in Methods \ {"aclose"} /\ endpoint = "none"
      /\ \A u \in Tasks \ {t} : pc[u] # "connecting"
  BY DEF Connected, IInv, Types, CallInv, ConnectInv
<1>2. CASE Returns(t) /\ UNCHANGED <<endpoint, raised>>
  <2>1. ConnectInv'
    BY <1>1, <1>2 DEF Connected, ConnectorLeft, ConnectInv, IInv, Types, Returns, Goes
  <2> QED BY <1>2, <2>1, ReturnsInv DEF Connected, ConnectorLeft, IInv, Types, EndpointIsClosing
<1>3. CASE endpoint' = "open" /\ Use(t)
  BY <1>1, <1>3, UseStep DEF Connected, ConnectorLeft
<1> QED BY <1>2, <1>3 DEF Connected

\* aclose(), with the send lock or by force.
LEMMA CloseStep ==
  ASSUME IInv, NEW t \in Tasks, NEW place \in {"closing", "forcing"}, CloseEndpoint(t, place), UNCHANGED kind,
         pc[t] = "want_lock", call[t] = "aclose", place = "closing" => IsFree("send")
  PROVE  IInv'
<1>1. connector' = "none" /\ cancelled' \in BOOLEAN /\ UNCHANGED <<kind, eofSent, raised>>
  BY DEF CloseEndpoint, Stopped, IInv, Types
<1>2. \A u \in Tasks : pc[u] = "connecting" => endpoint = "none" /\ cancelled'
  BY DEF CloseEndpoint, Stopped, IInv, ConnectInv
<1>3. CASE Returns(t) /\ UNCHANGED endpoint
  <2>1. ConnectInv'
    BY <1>1, <1>2, <1>3 DEF ConnectInv, IInv, Types, Returns, Goes
  <2> QED BY <1>1, <1>3, <2>1, ReturnsInv DEF IInv, Types, EndpointIsClosing
<1>4. CASE /\ endpoint # "none" /\ endpoint' = (IF endpoint = "open" THEN "closing" ELSE endpoint)
           /\ Goes(t, place) /\ UNCHANGED call
  <2>1. endpoint' \in {"closing", "closed"}
    BY <1>4 DEF IInv, Types
  <2>2. Types'
    BY <1>1, <1>4, <2>1 DEF IInv, Types, Goes, PCs
  <2>3. CallInv'
    BY <1>4 DEF IInv, Types, CallInv, Goes
  <2>4. LockInv'
    <3>1. Others(t) /\ pc'[t] = place /\ call'[t] = "aclose"
      BY <1>4 DEF Others, Goes, IInv, Types
    <3>2. \A l \in Locks : Holds(t, l)' => Holds(t, l) \/ IsFree(l)
      BY <3>1 DEF Holds, LockOf
    <3> QED BY <3>1, <3>2, LocksFrame DEF IInv
  <2>5. ConnectInv'
    BY <1>1, <1>2, <1>4 DEF ConnectInv, IInv, Types, Goes
  <2>6. UseInv'
    BY <1>4, <2>1 DEF UseInv, IInv, Types, Goes, EndpointIsClosing
  <2> QED BY <2>2, <2>3, <2>4, <2>5, <2>6 DEF IInv
<1> QED BY <1>3, <1>4 DEF CloseEndpoint

-----------------------------------------------------------------------------
(* The theorems *)

LEMMA InitInv == Init => IInv
<1> SUFFICES ASSUME Init PROVE IInv
  OBVIOUS
<1>1. Types
  BY DEF Init, Types, PCs
<1>2. CallInv /\ LockInv /\ ConnectInv /\ UseInv
  BY DEF Init, CallInv, LockInv, ConnectInv, UseInv, Holds
<1> QED BY <1>1, <1>2 DEF IInv

LEMMA StepInv == IInv /\ [Next]_vars => IInv'
<1> SUFFICES ASSUME IInv, [Next]_vars PROVE IInv'
  OBVIOUS
<1>1. CASE UNCHANGED vars
  BY <1>1 DEF vars, state, IInv, Types, CallInv, LockInv, Holds, ConnectInv, UseInv, EndpointIsClosing
<1>2. CASE ConnectionLost /\ UNCHANGED kind
  BY <1>2 DEF ConnectionLost, IInv, Types, CallInv, LockInv, Holds, ConnectInv, UseInv, EndpointIsClosing
<1>3. ASSUME NEW t \in Tasks, NEW m \in Methods, Call(t, m), UNCHANGED kind PROVE IInv'
  <2>1. ConnectInv'
    BY <1>3 DEF Call, Goes, ConnectInv, IInv, Types
  <2>2. LockOf("aclose") # "none" /\ call' = [call EXCEPT ![t] = m] /\ pc[t] = "idle"
        /\ UNCHANGED <<connector, kind, cancelled, endpoint, eofSent, raised>>
    BY <1>3 DEF Call, LockOf
  <2>3. CASE LockOf(m) = "none" /\ Goes(t, "want_connector")
    BY <2>1, <2>2, <2>3, MovesInv DEF IInv, Types
  <2>4. CASE Goes(t, "want_lock")
    BY <2>1, <2>2, <2>4, MovesInv DEF IInv, Types
  <2> QED BY <1>3, <2>3, <2>4 DEF Call
<1>4. ASSUME NEW t \in Tasks, GetLock(t), UNCHANGED kind PROVE IInv'
  <2>1. CASE Connect(t)
    BY <1>4, <2>1, ConnectStep DEF GetLock
  <2>2. CASE Goes(t, "want_connector") /\ UNCHANGED <<call, connector, cancelled, endpoint, eofSent, raised>>
    <3>1. ConnectInv'
      BY <1>4, <2>2 DEF GetLock, Goes, ConnectInv, IInv, Types
    <3>2. call' = [call EXCEPT ![t] = call[t]] /\ call[t] \in Methods
      BY <1>4, <2>2 DEF GetLock, IInv, Types, CallInv
    <3> QED BY <1>4, <2>2, <3>1, <3>2, MovesInv DEF GetLock, IInv, Types
  <2> QED BY <1>4, <2>1, <2>2 DEF GetLock
<1>5. ASSUME NEW t \in Tasks, GetConnector(t), UNCHANGED kind PROVE IInv'
  BY <1>5, ConnectStep DEF GetConnector, IInv, CallInv
<1>6. ASSUME NEW t \in Tasks, Connected(t), UNCHANGED kind PROVE IInv'
  BY <1>6, ConnectedStep
<1>7. ASSUME NEW t \in Tasks, UNCHANGED kind,
             ConnectFails(t) \/ ConnectCancelled(t) \/ Sent(t) \/ SentEof(t) \/ Received(t) \/ Closed(t) \/ Cancelled(t)
      PROVE  IInv'
  <2>1. /\ Returns(t) /\ UNCHANGED <<kind, cancelled, raised>> /\ eofSent' \in BOOLEAN
        /\ \/ UNCHANGED connector
           \/ pc[t] = "connecting" /\ cancelled /\ connector' = "none"
        /\ \/ UNCHANGED endpoint
           \/ pc[t] \in {"closing", "forcing"} /\ endpoint' = "closed"
    BY <1>7 DEF ConnectFails, ConnectCancelled, Sent, SentEof, Received, Closed, Cancelled, IInv, Types
  <2>2. pc[t] \in {"closing", "forcing"} => endpoint \in {"closing", "closed"}
    BY DEF IInv, UseInv, EndpointIsClosing
  <2>3. ConnectInv'
    BY <2>1, <2>2 DEF ConnectInv, IInv, Types, Returns, Goes
  <2> QED BY <2>1, <2>2, <2>3, ReturnsInv DEF IInv, Types, EndpointIsClosing
<1>8. ASSUME NEW t \in Tasks, GetLockToClose(t), UNCHANGED kind PROVE IInv'
  BY <1>8, CloseStep DEF GetLockToClose
<1>9. ASSUME NEW t \in Tasks, CancelledClose(t), UNCHANGED kind PROVE IInv'
  <2>1. CASE CloseEndpoint(t, "forcing")
    BY <1>9, <2>1, CloseStep DEF CancelledClose
  <2>2. CASE Returns(t) /\ UNCHANGED <<connector, cancelled, endpoint, eofSent, raised>>
    <3>1. ConnectInv'
      BY <1>9, <2>2 DEF ConnectInv, IInv, Types, Returns, Goes
    <3> QED BY <1>9, <2>2, <3>1, ReturnsInv DEF IInv, Types, EndpointIsClosing
  <2> QED BY <1>9, <2>1, <2>2 DEF CancelledClose
<1> QED BY <1>1, <1>2, <1>3, <1>4, <1>5, <1>6, <1>7, <1>8, <1>9 DEF Next

LEMMA Invariance == Spec => []IInv
BY InitInv, StepInv, PTL DEF Spec

\* "Does not require task synchronization": whatever the tasks of a client do together,
\* none of their calls finds the endpoint busy.
THEOREM ClientIsNeverBusy == Spec => []NeverBusy
<1>1. IInv => NeverBusy
  BY DEF IInv, Types, NeverBusy
<1> QED BY <1>1, Invariance, PTL

\* Every variable keeps its type, a lock has one holder, and whoever uses the endpoint
\* finds one, whoever connects, closes and is cancelled meanwhile.
THEOREM ClientIsConsistent == Spec => []TypeOK
<1>1. IInv => TypeOK
  <2> SUFFICES ASSUME IInv PROVE TypeOK
    OBVIOUS
  <2>1. \A l \in Locks : Cardinality({t \in Tasks : Holds(t, l)}) <= 1
    <3> SUFFICES ASSUME NEW l \in Locks PROVE Cardinality({t \in Tasks : Holds(t, l)}) <= 1
      OBVIOUS
    <3> DEFINE H == {t \in Tasks : Holds(t, l)}
    <3>1. CASE H = {}
      BY <3>1, FS_EmptySet
    <3>2. CASE H # {}
      <4>1. PICK t \in H : TRUE
        BY <3>2
      <4>2. H = {t}
        BY <4>1 DEF IInv, LockInv
      <4> QED BY <4>2, FS_Singleton
    <3> QED BY <3>1, <3>2
  <2> QED BY <2>1 DEF TypeOK, IInv, Types, CallInv, ConnectInv, UseInv, Locks, EndpointIsClosing
<1> QED BY <1>1, Invariance, PTL

\* What a step does once the client is closed, and how an aclose() ends.
LEMMA StaysClosed == IInv /\ [Next]_vars => (IsClosing => IsClosing')
<1> SUFFICES ASSUME IInv, [Next]_vars, IsClosing PROVE IsClosing'
  OBVIOUS
<1> USE DEF IsClosing, EndpointIsClosing
<1>0. connector = "none" /\ endpoint \in {"none", "closing", "closed"}
  OBVIOUS
<1>1. CASE UNCHANGED vars
  BY <1>1 DEF vars, state
<1>2. CASE ConnectionLost
  BY <1>0, <1>2 DEF ConnectionLost
<1>3. ASSUME NEW t \in Tasks, NEW m \in Methods, Call(t, m) PROVE IsClosing'
  BY <1>0, <1>3 DEF Call
<1>4. ASSUME NEW t \in Tasks, Connect(t) PROVE IsClosing'
  BY <1>0, <1>4 DEF Connect
<1>5. ASSUME NEW t \in Tasks, GetLock(t) PROVE IsClosing'
  BY <1>0, <1>4, <1>5 DEF GetLock
<1>6. ASSUME NEW t \in Tasks, Connected(t) PROVE IsClosing'
  \* It connects although the connector is gone: aclose() cancelled its scope.
  <2>1. cancelled
    BY <1>0, <1>6 DEF Connected, IInv, ConnectInv
  <2> QED BY <1>0, <1>6, <2>1 DEF Connected, ConnectorLeft, Discarded
<1>7. ASSUME NEW t \in Tasks, NEW place, CloseEndpoint(t, place) PROVE IsClosing'
  BY <1>0, <1>7 DEF CloseEndpoint
<1>8. ASSUME NEW t \in Tasks,
             \/ ConnectFails(t) \/ ConnectCancelled(t) \/ Sent(t) \/ SentEof(t) \/ Received(t)
             \/ Closed(t) \/ Cancelled(t)
      PROVE  IsClosing'
  BY <1>0, <1>8 DEF ConnectFails, ConnectCancelled, Sent, SentEof, Received, Closed, Cancelled
<1>9. ASSUME NEW t \in Tasks, GetConnector(t) \/ GetLockToClose(t) \/ CancelledClose(t) PROVE IsClosing'
  BY <1>0, <1>4, <1>7, <1>9 DEF GetConnector, GetLockToClose, CancelledClose
<1> QED BY <1>1, <1>2, <1>3, <1>5, <1>6, <1>8, <1>9 DEF Next

LEMMA CloseLeavesClosed ==
  IInv /\ [Next]_vars => \A t \in Tasks : CloseEnds(t) /\ ~CloseGuarded => IsClosing'
<1> SUFFICES ASSUME IInv, [Next]_vars, NEW t \in Tasks, call[t] = "aclose", call'[t] = "none", ~CloseGuarded
             PROVE  IsClosing'
  BY DEF CloseEnds
<1>1. pc[t] \in {"want_lock", "closing", "forcing"}
  BY DEF IInv, Types, CallInv, PCs, Waiting
<1>2. pc[t] \in {"closing", "forcing"} => connector = "none"
  BY DEF IInv, Types, UseInv, ConnectInv, EndpointIsClosing
<1>3. ASSUME NEW u \in Tasks, u # t, NEW m \in Methods \cup {"none"}, call' = [call EXCEPT ![u] = m] PROVE FALSE
  BY <1>3 DEF IInv, Types
<1>4. \A u \in Tasks : Returns(u) => call' = [call EXCEPT ![u] = "none"]
  BY DEF Returns
<1>5. call' # call
  OBVIOUS
<1>6. ASSUME NEW u \in Tasks, Returns(u) PROVE u = t
  BY <1>3, <1>4, <1>6
<1>7. ASSUME NEW u \in Tasks, NEW m \in Methods, Call(u, m) PROVE FALSE
  <2>1. CASE u = t
    BY <1>1, <1>7, <2>1 DEF Call
  <2>2. CASE u # t
    BY <1>3, <1>7, <2>2 DEF Call
  <2> QED BY <2>1, <2>2
<1>8. ASSUME NEW u \in Tasks, Use(u), call[u] \in Methods \ {"aclose"} PROVE FALSE
  <2>1. Returns(u) \/ UNCHANGED call
    BY <1>8 DEF Use, Busy, Methods
  <2> QED BY <1>5, <1>6, <1>8, <2>1
<1>9. ASSUME NEW u \in Tasks, Connect(u), call[u] \in Methods \ {"aclose"} PROVE FALSE
  BY <1>5, <1>6, <1>8, <1>9 DEF Connect
<1>10. ASSUME NEW u \in Tasks, NEW place, CloseEndpoint(u, place) PROVE IsClosing'
  <2>1. connector' = "none" /\ endpoint = "none" /\ UNCHANGED endpoint
    BY <1>5, <1>10 DEF CloseEndpoint
  <2> QED BY <2>1 DEF IsClosing
<1>11. CASE UNCHANGED call
  BY <1>5, <1>11
<1>12. ASSUME NEW u \in Tasks, GetLock(u) \/ GetConnector(u) \/ Connected(u) PROVE FALSE
  <2>1. call[u] \in Methods \ {"aclose"}
    BY <1>12 DEF GetLock, GetConnector, Connected, IInv, Types, CallInv
  <2>2. Connect(u) \/ Use(u) \/ Returns(u) \/ UNCHANGED call
    BY <1>12 DEF GetLock, GetConnector, Connected
  <2> QED BY <1>5, <1>6, <1>8, <1>9, <2>1, <2>2
<1>13. ASSUME NEW u \in Tasks, ConnectFails(u) \/ ConnectCancelled(u) \/ Sent(u) \/ SentEof(u) \/ Received(u) PROVE FALSE
  <2>1. Returns(u) /\ pc[u] \notin {"want_lock", "closing", "forcing"}
    BY <1>13 DEF ConnectFails, ConnectCancelled, Sent, SentEof, Received
  <2> QED BY <1>1, <1>6, <2>1
<1>14. ASSUME NEW u \in Tasks, Closed(u) \/ Cancelled(u) PROVE IsClosing'
  <2>1. u = t
    BY <1>6, <1>14 DEF Closed, Cancelled
  <2>2. pc[t] \in {"closing", "forcing"} /\ connector' = connector /\ endpoint' = "closed"
    BY <1>1, <1>14, <2>1 DEF Closed, Cancelled
  <2> QED BY <1>2, <2>2 DEF IsClosing, EndpointIsClosing
<1>15. ASSUME NEW u \in Tasks, GetLockToClose(u) \/ CancelledClose(u) PROVE IsClosing'
  BY <1>10, <1>15 DEF GetLockToClose, CancelledClose, Forced, IsClosing, EndpointIsClosing
<1>16. UNCHANGED vars \/ ConnectionLost => UNCHANGED call
  BY DEF vars, state, ConnectionLost
<1> QED BY <1>7, <1>11, <1>12, <1>13, <1>14, <1>15, <1>16 DEF Next

\* A client that is closed stays closed, even when an attempt to connect succeeds after
\* the close, and an aclose() ends with the client closed, however it ends, unless a
\* stream's sender is stuck.
THEOREM ClosesForGood == Spec => CloseIsFinal
<1>1. IInv /\ [Next]_vars => [IsClosing => IsClosing']_vars
  BY StaysClosed
<1>2. IInv /\ [Next]_vars => [\A t \in Tasks : CloseEnds(t) /\ ~CloseGuarded => IsClosing']_vars
  BY CloseLeavesClosed
<1> QED BY <1>1, <1>2, Invariance, PTL DEF Spec, CloseIsFinal, ClosedForGood, CloseCloses
=============================================================================
