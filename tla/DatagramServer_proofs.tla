------------------------ MODULE DatagramServer_proofs ------------------------
(* Theorems about DatagramServer, for any addresses and number of datagrams. *)
EXTENDS DatagramServer, SequenceLemmas, FiniteSetTheorems, TLAPS

-----------------------------------------------------------------------------
(* The inductive invariant *)

NotStarted == {"unborn", "delayed", "new"}

\* Only received datagrams have a task, and those have a sender.
BornInv ==
  \A t \in Tasks : (t <= born <=> pc[t] # "unborn") /\ (t <= born => addr[t] \in Addresses)

\* A cache entry is the _ClientData of its own client, made by a started task.
CacheInv ==
  \A a \in Addresses :
    cache[a] # None => addr[cache[a]] = a /\ pc[cache[a]] \notin NotStarted

\* What a task references is what the cache has for its client.
HoldInv ==
  \A t \in Tasks :
    /\ pc[t] \in NotStarted => hold[t] = None
    /\ pc[t] \in Coroutine \cup {"pushLock"} => hold[t] # None
    /\ hold[t] # None => cache[addr[t]] = hold[t]

\* A _ClientData that does not exist yet is idle.
FreshInv == \A c \in Tasks : pc[c] \in NotStarted => state[c] = None

\* One coroutine per _ClientData, and a pending one has a datagram to begin with.
CoroutineInv ==
  \A t \in Tasks :
    /\ pc[t] = "pending" => queue[hold[t]] # <<>>
    /\ pc[t] \in Coroutine => \A u \in Tasks : pc[u] \in Coroutine /\ hold[u] = hold[t] => u = t

IInv == TypeOK /\ BornInv /\ CacheInv /\ HoldInv /\ FreshInv /\ StateMatchesTask /\ CoroutineInv

\* What a task references is a started _ClientData of its own client.
LEMMA HeldIsStarted ==
  ASSUME IInv, NEW t \in Tasks, hold[t] # None
  PROVE  /\ addr[t] \in Addresses /\ hold[t] \in Tasks
         /\ pc[hold[t]] \notin NotStarted /\ addr[hold[t]] = addr[t]
<1>1. pc[t] \notin NotStarted /\ hold[t] \in Tasks /\ cache[addr[t]] = hold[t]
  BY DEF IInv, TypeOK, HoldInv
<1>2. addr[t] \in Addresses
  BY <1>1 DEF IInv, BornInv, NotStarted
<1> QED BY <1>1, <1>2 DEF IInv, CacheInv

\* The coroutines of a step of t: those of the other tasks are as they were, and
\* that of t, if it has one after the step, is as the state says and alone.
OthersKept(t) ==
  \A u \in Tasks \ {t} : pc'[u] \in Coroutine =>
    /\ pc[u] \in Coroutine /\ (pc'[u] = "pending" <=> pc[u] = "pending")
    /\ hold'[u] = hold[u] /\ state'[hold[u]] = state[hold[u]]
    /\ pc[u] = "pending" => queue'[hold[u]] # <<>>
    /\ pc'[t] \in Coroutine => hold[u] # hold'[t]

OwnMatches(t) ==
  /\ pc'[t] = "pending" => state'[hold'[t]] = "TASK_PENDING" /\ queue'[hold'[t]] # <<>>
  /\ pc'[t] \in Running => state'[hold'[t]] = "TASK_RUNNING"

LEMMA CoroutineFrame ==
  ASSUME StateMatchesTask, CoroutineInv, NEW t \in Tasks, OthersKept(t), OwnMatches(t)
  PROVE  StateMatchesTask' /\ CoroutineInv'
<1>1. \A u \in Tasks \ {t} :
        /\ pc'[u] = "pending" => state'[hold'[u]] = "TASK_PENDING" /\ queue'[hold'[u]] # <<>>
        /\ pc'[u] \in Running => state'[hold'[u]] = "TASK_RUNNING"
  BY DEF OthersKept, StateMatchesTask, Coroutine, Running
<1>2. \A u, v \in Tasks : pc'[u] \in Coroutine /\ pc'[v] \in Coroutine /\ hold'[u] = hold'[v] => u = v
  BY DEF OthersKept, CoroutineInv
<1>3. StateMatchesTask'
  BY <1>1 DEF OwnMatches, StateMatchesTask
<1>4. CoroutineInv'
  BY <1>1, <1>2 DEF OwnMatches, CoroutineInv
<1> QED BY <1>3, <1>4

-----------------------------------------------------------------------------
(* The steps *)

LEMMA InitIInv == Init => IInv
<1> SUFFICES ASSUME Init PROVE IInv
  OBVIOUS
<1> <<>> \in Seq(Tasks)
  BY EmptySeq
<1>1. TypeOK
  <2>1. queue \in [Tasks -> Seq(Tasks)] /\ lockq \in [Tasks -> Seq(Tasks)] /\ consumed \in [Addresses -> Seq(Tasks)]
    BY DEF Init
  <2>2. pc \in [Tasks -> PCs] /\ state \in [Tasks -> ClientStates]
    BY DEF Init, PCs, ClientStates
  <2>3. born \in 0..MaxDatagrams
    BY DatagramsAssumption DEF Init
  <2> QED BY <2>1, <2>2, <2>3 DEF Init, TypeOK
<1>2. BornInv /\ CacheInv /\ HoldInv /\ FreshInv
  BY DatagramsAssumption
     DEF Init, BornInv, CacheInv, HoldInv, FreshInv, Tasks, Coroutine, Running, NotStarted
<1>3. StateMatchesTask /\ CoroutineInv
  BY DEF Init, StateMatchesTask, CoroutineInv, Coroutine, Running
<1> QED BY <1>1, <1>2, <1>3 DEF IInv

\* Types of the expressions the actions assign to the queues.
LEMMA QueueTypes ==
  ASSUME NEW q \in Seq(Tasks), NEW t \in Tasks
  PROVE  /\ Push(q, t) \in Seq(Tasks) /\ Push(q, t) # <<>>
         /\ RemoveFirst(q, t) \in Seq(Tasks)
         /\ q # <<>> => Head(q) \in Tasks /\ Tail(q) \in Seq(Tasks)
BY AppendProperties, HeadTailProperties, RemoveFirstType DEF Push

LEMMA BeginTypes ==
  ASSUME TypeOK, NEW t \in Tasks, addr[t] \in Addresses, NEW c \in Tasks,
         NEW q \in Seq(Tasks), q # <<>>, BeginCoroutine(t, c, q)
  PROVE  /\ state' \in [Tasks -> ClientStates]
         /\ queue' \in [Tasks -> Seq(Tasks)]
         /\ consumed' \in [Addresses -> Seq(Tasks)]
<1>1. Head(q) \in Tasks /\ Tail(q) \in Seq(Tasks)
  BY QueueTypes
<1>2. Append(consumed[addr[t]], Head(q)) \in Seq(Tasks)
  BY <1>1, AppendProperties DEF TypeOK
<1> QED BY <1>1, <1>2 DEF BeginCoroutine, TypeOK, ClientStates

LEMMA ListenerStep ==
  ASSUME IInv,
         \/ \E a \in Addresses : DatagramReceived(a) \/ Forget(a)
         \/ Serve \/ ConnectionLost \/ Cancel
  PROVE  IInv'
<1> USE DatagramsAssumption
<1>1. ASSUME NEW a \in Addresses, DatagramReceived(a) PROVE IInv'
  <2>1. TypeOK'
    <3>1. born + 1 \in Tasks /\ born' \in 0..MaxDatagrams
      BY <1>1 DEF DatagramReceived, IInv, TypeOK, Tasks
    <3> QED BY <1>1, <3>1 DEF DatagramReceived, IInv, TypeOK, PCs
  <2>2. BornInv' /\ CacheInv' /\ HoldInv' /\ FreshInv'
    <3>1. BornInv'
      BY <1>1 DEF DatagramReceived, IInv, TypeOK, BornInv, Tasks, NotStarted, Coroutine, Running
    <3>2. CacheInv'
      BY <1>1 DEF DatagramReceived, IInv, TypeOK, BornInv, CacheInv, HoldInv, FreshInv, Tasks, NotStarted, Coroutine, Running
    <3>3. HoldInv'
      BY <1>1 DEF DatagramReceived, IInv, TypeOK, BornInv, CacheInv, HoldInv, FreshInv, Tasks, NotStarted, Coroutine, Running
    <3>4. FreshInv'
      BY <1>1 DEF DatagramReceived, IInv, TypeOK, BornInv, CacheInv, HoldInv, FreshInv, Tasks, NotStarted, Coroutine, Running
    <3> QED BY <3>1, <3>2, <3>3, <3>4
  <2>3. StateMatchesTask' /\ CoroutineInv'
    <3>1. StateMatchesTask'
      BY <1>1 DEF DatagramReceived, IInv, TypeOK, StateMatchesTask, Tasks, Coroutine, Running
    <3>2. CoroutineInv'
      BY <1>1 DEF DatagramReceived, IInv, TypeOK, StateMatchesTask, CoroutineInv, Tasks, Coroutine, Running
    <3> QED BY <3>1, <3>2
  <2> QED BY <2>1, <2>2, <2>3 DEF IInv
<1>2. ASSUME NEW a \in Addresses, Forget(a) PROVE IInv'
  <2>1. TypeOK'
    BY <1>2 DEF Forget, IInv, TypeOK
  <2>2. BornInv' /\ CacheInv' /\ HoldInv' /\ FreshInv'
    <3>1. BornInv'
      BY <1>2 DEF Forget, Unreferenced, IInv, TypeOK, BornInv, NotStarted
    <3>2. CacheInv'
      BY <1>2 DEF Forget, Unreferenced, IInv, TypeOK, BornInv, CacheInv, HoldInv, FreshInv, NotStarted
    <3>3. HoldInv'
      BY <1>2 DEF Forget, Unreferenced, IInv, TypeOK, BornInv, CacheInv, HoldInv, FreshInv, NotStarted
    <3>4. FreshInv'
      BY <1>2 DEF Forget, Unreferenced, IInv, TypeOK, BornInv, CacheInv, HoldInv, FreshInv, NotStarted
    <3> QED BY <3>1, <3>2, <3>3, <3>4
  <2>3. StateMatchesTask' /\ CoroutineInv'
    <3>1. StateMatchesTask'
      BY <1>2 DEF Forget, IInv, StateMatchesTask
    <3>2. CoroutineInv'
      BY <1>2 DEF Forget, IInv, StateMatchesTask, CoroutineInv
    <3> QED BY <3>1, <3>2
  <2> QED BY <2>1, <2>2, <2>3 DEF IInv
<1>3. ASSUME Serve \/ ConnectionLost \/ Cancel PROVE IInv'
  <2>1. TypeOK'
    BY <1>3 DEF Serve, ConnectionLost, Cancel, IInv, TypeOK, PCs
  <2>2. /\ \A t \in Tasks : pc'[t] # pc[t] => pc[t] = "delayed" /\ pc'[t] \in {"new", "dropped"}
        /\ UNCHANGED <<born, addr, hold, cache, state, queue, lockq, consumed>>
    BY <1>3 DEF Serve, ConnectionLost, Cancel, IInv, TypeOK
  <2>3. BornInv' /\ CacheInv'
    <3>1. BornInv'
      BY <2>2 DEF IInv, TypeOK, BornInv, NotStarted
    <3>2. CacheInv'
      BY <2>2 DEF IInv, TypeOK, BornInv, CacheInv, NotStarted
    <3> QED BY <3>1, <3>2
  <2>5. HoldInv' /\ FreshInv'
    <3>1. HoldInv'
      BY <2>2 DEF IInv, TypeOK, HoldInv, FreshInv, NotStarted, Coroutine, Running
    <3>2. FreshInv'
      BY <2>2 DEF IInv, TypeOK, HoldInv, FreshInv, NotStarted, Coroutine, Running
    <3> QED BY <3>1, <3>2
  <2>4. StateMatchesTask' /\ CoroutineInv'
    <3>1. StateMatchesTask'
      BY <2>1, <2>2 DEF IInv, TypeOK, StateMatchesTask, Coroutine, Running
    <3>2. CoroutineInv'
      <4>1. \A u \in Tasks : pc'[u] \in Coroutine => pc'[u] = pc[u]
        BY <2>2 DEF Coroutine, Running
      <4> QED BY <2>2, <4>1 DEF IInv, CoroutineInv, Coroutine
    <3> QED BY <3>1, <3>2
  <2> QED BY <2>1, <2>3, <2>4, <2>5 DEF IInv
<1> QED BY <1>1, <1>2, <1>3

LEMMA HandlerStep ==
  ASSUME IInv, NEW t \in Tasks, HandlerStart(t) \/ HandlerNotify(t)
  PROVE  IInv'
<1> USE DatagramsAssumption
<1>1. ASSUME HandlerStart(t) PROVE IInv'
  <2> DEFINE c == ClientDataOf(t)
  <2>1. /\ addr[t] \in Addresses /\ pc[t] = "new" /\ hold[t] = None
        /\ c \in Tasks /\ addr[c] = addr[t]
        /\ cache' = [cache EXCEPT ![addr[t]] = c] /\ hold' = [hold EXCEPT ![t] = c]
        /\ cache[addr[t]] # None => cache[addr[t]] = c /\ pc[c] \notin NotStarted
        /\ cache[addr[t]] = None => c = t
    <3>1. addr[t] \in Addresses /\ pc[t] = "new" /\ hold[t] = None
      BY <1>1 DEF HandlerStart, IInv, BornInv, HoldInv, NotStarted
    <3>2. c \in Tasks /\ (cache[addr[t]] = None => c = t) /\ (cache[addr[t]] # None => c = cache[addr[t]])
      BY <3>1 DEF ClientDataOf, IInv, TypeOK
    <3>3. cache[addr[t]] # None => pc[c] \notin NotStarted /\ addr[c] = addr[t]
      BY <3>1, <3>2 DEF IInv, CacheInv
    <3> QED BY <1>1, <3>1, <3>2, <3>3 DEF HandlerStart
  <2>2. \A u \in Tasks : hold[u] # None /\ hold[u] = c => addr[u] = addr[t] /\ cache[addr[t]] = c
    BY <2>1 DEF IInv, TypeOK, BornInv, CacheInv, HoldInv, NotStarted
  <2>3. CASE state[c] = None /\ BeginCoroutine(t, c, Push(queue[c], t)) /\ pc' = [pc EXCEPT ![t] = "first"]
             /\ UNCHANGED lockq
    <3>1. \A u \in Tasks : pc[u] \in Coroutine => hold[u] # c
      BY <2>3 DEF IInv, StateMatchesTask, Coroutine, ClientStates
    <3>2. TypeOK'
      <4>1. Push(queue[c], t) \in Seq(Tasks) /\ Push(queue[c], t) # <<>>
        BY <2>1, QueueTypes DEF IInv, TypeOK
      <4>2. pc' \in [Tasks -> PCs] /\ hold' \in [Tasks -> Tasks \cup {None}] /\ cache' \in [Addresses -> Tasks \cup {None}]
        BY <2>1, <2>3 DEF IInv, TypeOK, PCs, Coroutine, Running
      <4>3. UNCHANGED <<listener, cancelled, born, addr, lockq>>
        BY <1>1, <2>3 DEF HandlerStart
      <4>4. /\ state' \in [Tasks -> ClientStates] /\ queue' \in [Tasks -> Seq(Tasks)]
            /\ consumed' \in [Addresses -> Seq(Tasks)]
        BY <2>1, <2>3, <4>1, BeginTypes DEF IInv
      <4> QED BY <4>2, <4>3, <4>4 DEF IInv, TypeOK
    <3>3. BornInv' /\ CacheInv' /\ HoldInv' /\ FreshInv'
      <4>1. /\ UNCHANGED <<born, addr>> /\ c \in Tasks /\ t \in Tasks /\ pc[t] = "new" /\ addr[t] \in Addresses
            /\ state' = [state EXCEPT ![c] = "TASK_RUNNING"] /\ pc' = [pc EXCEPT ![t] = "first"]
        BY <1>1, <2>1, <2>3 DEF HandlerStart, BeginCoroutine
      <4>2. BornInv'
        BY <4>1 DEF IInv, TypeOK, BornInv
      <4>3. CacheInv'
        BY <2>1, <4>1 DEF IInv, TypeOK, CacheInv, NotStarted
      <4>4. HoldInv'
        <5>1. \A u \in Tasks : hold[u] # None /\ u # t => cache'[addr[u]] = hold[u] /\ hold'[u] = hold[u]
          BY <2>1, HeldIsStarted DEF IInv, TypeOK, HoldInv
        <5>2. hold'[t] = c /\ cache'[addr[t]] = c /\ hold'[t] # None
          BY <2>1, <4>1 DEF IInv, TypeOK, Tasks
        <5> QED BY <2>1, <4>1, <5>1, <5>2 DEF IInv, TypeOK, HoldInv, NotStarted, Coroutine, Running
      <4>5. FreshInv'
        BY <2>1, <4>1 DEF IInv, TypeOK, FreshInv, NotStarted
      <4> QED BY <4>2, <4>3, <4>4, <4>5
    <3>4. StateMatchesTask' /\ CoroutineInv'
      <4>1. OthersKept(t)
        BY <1>1, <2>1, <2>3, <3>1 DEF OthersKept, CoroutineInv, HandlerStart, BeginCoroutine, IInv, TypeOK, HoldInv, Coroutine, Running
      <4>2. OwnMatches(t)
        BY <1>1, <2>1, <2>3, <3>1 DEF OwnMatches, HandlerStart, BeginCoroutine, IInv, TypeOK, HoldInv, Coroutine, Running
      <4> QED BY <4>1, <4>2, CoroutineFrame DEF IInv
    <3> QED BY <3>2, <3>3, <3>4 DEF IInv
  <2>4. CASE /\ state[c] # None
             /\ queue' = [queue EXCEPT ![c] = Push(queue[c], t)]
             /\ lockq' = [lockq EXCEPT ![c] = Append(@, t)]
             /\ pc' = [pc EXCEPT ![t] = "pushLock"]
             /\ UNCHANGED <<state, consumed>>
    <3>1. TypeOK'
      <4>1. Push(queue[c], t) \in Seq(Tasks) /\ Append(lockq[c], t) \in Seq(Tasks)
        BY <2>1, QueueTypes, AppendProperties DEF IInv, TypeOK
      <4>2. UNCHANGED <<listener, cancelled, born, addr>>
        BY <1>1 DEF HandlerStart
      <4> QED BY <2>1, <2>4, <4>1, <4>2 DEF IInv, TypeOK, PCs
    <3>2. BornInv' /\ CacheInv' /\ HoldInv' /\ FreshInv'
      <4>1. BornInv'
        BY <1>1, <2>1, <2>2, <2>4 DEF HandlerStart, IInv, TypeOK, BornInv, NotStarted, Coroutine, Running
      <4>2. CacheInv'
        BY <1>1, <2>1, <2>2, <2>4 DEF HandlerStart, IInv, TypeOK, BornInv, CacheInv, HoldInv, FreshInv, NotStarted, Coroutine, Running
      <4>3. HoldInv'
        BY <1>1, <2>1, <2>2, <2>4 DEF HandlerStart, IInv, TypeOK, BornInv, CacheInv, HoldInv, FreshInv, NotStarted, Coroutine, Running
      <4>4. FreshInv'
        BY <1>1, <2>1, <2>2, <2>4 DEF HandlerStart, IInv, TypeOK, BornInv, CacheInv, HoldInv, FreshInv, NotStarted, Coroutine, Running
      <4> QED BY <4>1, <4>2, <4>3, <4>4
    <3>3. StateMatchesTask' /\ CoroutineInv'
      <4>1. queue[c] \in Seq(Tasks) /\ Push(queue[c], t) # <<>>
        BY <2>1, QueueTypes DEF IInv, TypeOK
      <4>2. \A u \in Tasks : pc'[u] \in Coroutine =>
              pc[u] = pc'[u] /\ hold'[u] = hold[u] /\ (queue[hold[u]] # <<>> => queue'[hold[u]] # <<>>)
        BY <2>1, <2>4, <4>1 DEF IInv, TypeOK, HoldInv, Coroutine, Running
      <4> QED BY <2>4, <4>2 DEF IInv, TypeOK, StateMatchesTask, CoroutineInv, Coroutine, Running
    <3> QED BY <3>1, <3>2, <3>3 DEF IInv
  <2> QED BY <1>1, <2>3, <2>4 DEF HandlerStart
<1>2. ASSUME HandlerNotify(t) PROVE IInv'
  <2> DEFINE c == hold[t]
  <2>1. /\ pc[t] = "pushLock" /\ c \in Tasks /\ cache[addr[t]] = c /\ lockq[c] # <<>>
        /\ lockq' = Release(c)
        /\ UNCHANGED <<listener, cancelled, born, addr, cache>>
    BY <1>2 DEF HandlerNotify, Owner, IInv, TypeOK, HoldInv
  <2>2. /\ Notified(c) \in [Tasks -> PCs]
        /\ \A u \in Tasks : Notified(c)[u] # pc[u] => pc[u] = "waiting" /\ Notified(c)[u] = "notified"
    BY DEF Notified, IInv, TypeOK, PCs, Coroutine, Running
  <2>3. Release(c) \in [Tasks -> Seq(Tasks)]
    BY <2>1, HeadTailProperties DEF Release, IInv, TypeOK
  <2>4. CASE /\ MayStart(c) /\ BeginCoroutine(t, c, queue[c])
             /\ pc' = [Notified(c) EXCEPT ![t] = "first"] /\ UNCHANGED hold
    <3>1. \A u \in Tasks : pc[u] \in Coroutine => hold[u] # c
      BY <2>4 DEF MayStart, IInv, StateMatchesTask, Coroutine, ClientStates
    <3>2. TypeOK'
      <4>1. queue[c] \in Seq(Tasks) /\ queue[c] # <<>> /\ addr[t] \in Addresses
        BY <2>1, <2>4 DEF MayStart, IInv, TypeOK, BornInv
      <4>2. pc' \in [Tasks -> PCs] /\ hold' \in [Tasks -> Tasks \cup {None}]
        BY <2>2, <2>4 DEF IInv, TypeOK, PCs, Coroutine, Running
      <4> QED BY <2>1, <2>3, <2>4, <4>1, <4>2, BeginTypes DEF IInv, TypeOK
    <3>3. BornInv' /\ CacheInv' /\ HoldInv' /\ FreshInv'
      <4>1. /\ state' = [state EXCEPT ![c] = "TASK_RUNNING"] /\ UNCHANGED hold
            /\ pc' = [Notified(c) EXCEPT ![t] = "first"]
        BY <2>4 DEF BeginCoroutine
      <4>2. BornInv'
        BY <2>1, <2>2, <4>1 DEF IInv, TypeOK, BornInv
      <4>3. CacheInv'
        BY <2>1, <2>2, <4>1 DEF IInv, TypeOK, CacheInv, NotStarted
      <4>4. HoldInv'
        BY <2>1, <2>2, <4>1 DEF IInv, TypeOK, HoldInv, NotStarted, Coroutine, Running
      <4>5. FreshInv'
        <5>1. pc[c] \notin NotStarted
          <6>1. hold[t] # None
            BY <2>1 DEF Tasks
          <6> QED BY <6>1, HeldIsStarted
        <5> QED BY <2>1, <2>2, <4>1, <5>1 DEF IInv, TypeOK, FreshInv, NotStarted
      <4> QED BY <4>2, <4>3, <4>4, <4>5
    <3>4. StateMatchesTask' /\ CoroutineInv'
      <4>1. OthersKept(t)
        BY <2>1, <2>2, <2>4, <3>1 DEF OthersKept, CoroutineInv, BeginCoroutine, IInv, TypeOK, Coroutine, Running
      <4>2. OwnMatches(t)
        BY <2>1, <2>2, <2>4, <3>1 DEF OwnMatches, BeginCoroutine, IInv, TypeOK, Coroutine, Running
      <4> QED BY <4>1, <4>2, CoroutineFrame DEF IInv
    <3> QED BY <3>2, <3>3, <3>4 DEF IInv
  <2>5. CASE /\ pc' = [Notified(c) EXCEPT ![t] = "done"]
             /\ hold' = [hold EXCEPT ![t] = None]
             /\ UNCHANGED <<state, queue, consumed>>
    <3>1. TypeOK'
      BY <2>1, <2>2, <2>3, <2>5 DEF IInv, TypeOK, PCs
    <3>2. BornInv' /\ CacheInv' /\ HoldInv' /\ FreshInv'
      <4>1. BornInv'
        BY <2>1, <2>2, <2>5 DEF IInv, TypeOK, BornInv, NotStarted, Coroutine, Running
      <4>2. CacheInv'
        BY <2>1, <2>2, <2>5 DEF IInv, TypeOK, BornInv, CacheInv, HoldInv, FreshInv, NotStarted, Coroutine, Running
      <4>3. HoldInv'
        BY <2>1, <2>2, <2>5 DEF IInv, TypeOK, BornInv, CacheInv, HoldInv, FreshInv, NotStarted, Coroutine, Running
      <4>4. FreshInv'
        BY <2>1, <2>2, <2>5 DEF IInv, TypeOK, BornInv, CacheInv, HoldInv, FreshInv, NotStarted, Coroutine, Running
      <4> QED BY <4>1, <4>2, <4>3, <4>4
    <3>3. StateMatchesTask' /\ CoroutineInv'
      <4>1. OthersKept(t)
        BY <2>1, <2>2, <2>5 DEF OthersKept, CoroutineInv, IInv, TypeOK, Coroutine, Running
      <4>2. OwnMatches(t)
        BY <2>1, <2>2, <2>5 DEF OwnMatches, IInv, TypeOK, Coroutine, Running
      <4> QED BY <4>1, <4>2, CoroutineFrame DEF IInv
    <3> QED BY <3>1, <3>2, <3>3 DEF IInv
  <2> QED BY <1>2, <2>4, <2>5 DEF HandlerNotify
<1> QED BY <1>1, <1>2

LEMMA CoroutineStep ==
  ASSUME IInv, NEW t \in Tasks,
         \/ PendingStart(t) \/ PopDatagram(t) \/ WakeUp(t) \/ GeneratorStep(t)
         \/ InterruptPop(t) \/ TaskCancelled(t)
  PROVE  IInv'
<1> USE DatagramsAssumption
<1>1. ASSUME PendingStart(t) PROVE IInv'
  <2>1. /\ pc[t] = "pending" /\ hold[t] \in Tasks /\ queue[hold[t]] \in Seq(Tasks) /\ queue[hold[t]] # <<>>
        /\ addr[t] \in Addresses /\ pc[hold[t]] \notin NotStarted
    BY <1>1 DEF PendingStart, IInv, TypeOK, BornInv, CacheInv, HoldInv, CoroutineInv, Coroutine
  <2>2. /\ pc' = [pc EXCEPT ![t] = "first"] /\ state' = [state EXCEPT ![hold[t]] = "TASK_RUNNING"]
        /\ queue' = [queue EXCEPT ![hold[t]] = Tail(queue[hold[t]])]
        /\ UNCHANGED <<listener, cancelled, born, addr, hold, cache, lockq>>
    BY <1>1 DEF PendingStart, BeginCoroutine
  <2>3. TypeOK'
    <3>1. pc' \in [Tasks -> PCs]
      BY <2>2 DEF IInv, TypeOK, PCs, Coroutine, Running
    <3>2. BeginCoroutine(t, hold[t], queue[hold[t]])
      BY <1>1 DEF PendingStart
    <3> QED BY <2>1, <2>2, <3>1, <3>2, BeginTypes DEF IInv, TypeOK
  <2>4. BornInv' /\ CacheInv'
    <3>1. BornInv'
      BY <2>1, <2>2 DEF IInv, TypeOK, BornInv, NotStarted
    <3>2. CacheInv'
      BY <2>1, <2>2 DEF IInv, TypeOK, BornInv, CacheInv, NotStarted
    <3> QED BY <3>1, <3>2
  <2>5. HoldInv' /\ FreshInv'
    <3>1. HoldInv'
      BY <2>1, <2>2 DEF IInv, TypeOK, HoldInv, FreshInv, NotStarted, Coroutine, Running
    <3>2. FreshInv'
      BY <2>1, <2>2 DEF IInv, TypeOK, HoldInv, FreshInv, NotStarted, Coroutine, Running
    <3> QED BY <3>1, <3>2
  <2>6. StateMatchesTask' /\ CoroutineInv'
    <3>1. OthersKept(t)
      BY <2>1, <2>2 DEF OthersKept, CoroutineInv, IInv, TypeOK, HoldInv, Coroutine, Running
    <3>2. OwnMatches(t)
      BY <2>1, <2>2 DEF OwnMatches, IInv, TypeOK, HoldInv, Coroutine, Running
    <3> QED BY <3>1, <3>2, CoroutineFrame DEF IInv
  <2> QED BY <2>3, <2>4, <2>5, <2>6 DEF IInv
<1>2. ASSUME PopDatagram(t) \/ WakeUp(t) \/ FirstYield(t) \/ NextYield(t) \/ InterruptPop(t) PROVE IInv'
  <2>1. /\ pc[t] \in Running /\ hold[t] \in Tasks /\ pc[hold[t]] \notin NotStarted /\ addr[t] \in Addresses
        /\ lockq[hold[t]] \in Seq(Tasks) /\ queue[hold[t]] \in Seq(Tasks)
    BY <1>2 DEF PopDatagram, WakeUp, FirstYield, NextYield, InterruptPop,
                IInv, TypeOK, BornInv, CacheInv, HoldInv, Coroutine, Running
  <2>2. \E p \in Running : pc' = [pc EXCEPT ![t] = p]
    BY <1>2 DEF PopDatagram, WakeUp, FirstYield, NextYield, InterruptPop, Running
  <2>3. UNCHANGED <<listener, cancelled, born, addr, hold, cache, state>>
    BY <1>2 DEF PopDatagram, WakeUp, FirstYield, NextYield, InterruptPop
  <2>4. lockq' \in [Tasks -> Seq(Tasks)]
    <3>1. /\ Append(lockq[hold[t]], t) \in Seq(Tasks) /\ RemoveFirst(lockq[hold[t]], t) \in Seq(Tasks)
          /\ Owner(t) => Tail(lockq[hold[t]]) \in Seq(Tasks)
      BY <2>1, AppendProperties, HeadTailProperties, RemoveFirstType DEF Owner
    <3> QED BY <1>2, <3>1 DEF PopDatagram, WakeUp, FirstYield, NextYield, InterruptPop, Release, IInv, TypeOK
  <2>5. /\ queue' \in [Tasks -> Seq(Tasks)] /\ consumed' \in [Addresses -> Seq(Tasks)]
        /\ \A c \in Tasks : c # hold[t] => queue'[c] = queue[c]
    <3>1. queue[hold[t]] # <<>> =>
            /\ Tail(queue[hold[t]]) \in Seq(Tasks)
            /\ Append(consumed[addr[t]], Head(queue[hold[t]])) \in Seq(Tasks)
      BY <2>1, AppendProperties, HeadTailProperties DEF IInv, TypeOK
    <3>2. CASE /\ queue[hold[t]] # <<>>
               /\ queue' = [queue EXCEPT ![hold[t]] = Tail(@)]
               /\ consumed' = [consumed EXCEPT ![addr[t]] = Append(@, Head(queue[hold[t]]))]
      BY <2>1, <3>1, <3>2 DEF IInv, TypeOK
    <3>3. CASE UNCHANGED <<queue, consumed>>
      BY <3>3 DEF IInv, TypeOK
    <3> QED BY <1>2, <3>2, <3>3 DEF PopDatagram, WakeUp, FirstYield, NextYield, InterruptPop
  <2>6. TypeOK'
    <3>1. pc' \in [Tasks -> PCs]
      BY <2>2 DEF IInv, TypeOK, PCs, Coroutine
    <3> QED BY <2>3, <2>4, <2>5, <3>1 DEF IInv, TypeOK
  <2>7. BornInv' /\ CacheInv'
    <3>1. BornInv'
      BY <2>1, <2>2, <2>3 DEF IInv, TypeOK, BornInv, NotStarted, Running
    <3>2. CacheInv'
      BY <2>1, <2>2, <2>3 DEF IInv, TypeOK, BornInv, CacheInv, NotStarted, Running
    <3> QED BY <3>1, <3>2
  <2>8. HoldInv' /\ FreshInv'
    <3>1. HoldInv'
      BY <2>1, <2>2, <2>3 DEF IInv, TypeOK, HoldInv, FreshInv, NotStarted, Coroutine, Running
    <3>2. FreshInv'
      BY <2>1, <2>2, <2>3 DEF IInv, TypeOK, HoldInv, FreshInv, NotStarted, Coroutine, Running
    <3> QED BY <3>1, <3>2
  <2>9. StateMatchesTask' /\ CoroutineInv'
    <3>1. OthersKept(t)
      BY <2>1, <2>2, <2>3, <2>5, ZenonT(60) DEF OthersKept, CoroutineInv, IInv, TypeOK, HoldInv, Coroutine, Running
    <3>2. OwnMatches(t)
      BY <2>1, <2>2, <2>3 DEF OwnMatches, IInv, TypeOK, StateMatchesTask, Running
    <3> QED BY <3>1, <3>2, CoroutineFrame DEF IInv
  <2> QED BY <2>6, <2>7, <2>8, <2>9 DEF IInv
<1>3. ASSUME CoroutineEnd(t) PROVE IInv'
  <2>1. /\ pc[t] \in Running /\ hold[t] \in Tasks /\ pc[hold[t]] \notin NotStarted
        /\ \A u \in Tasks : pc[u] \in Coroutine /\ hold[u] = hold[t] => u = t
    <3>1. pc[t] \in Running /\ hold[t] # None
      BY <1>3 DEF CoroutineEnd, IInv, HoldInv, Coroutine, Running
    <3> QED BY <3>1, HeldIsStarted DEF IInv, CoroutineInv, Coroutine
  <2>2. UNCHANGED <<listener, cancelled, born, addr, cache, queue, lockq, consumed>>
    BY <1>3 DEF CoroutineEnd
  <2>3. \/ /\ state' = [state EXCEPT ![hold[t]] = None]
           /\ pc' = [pc EXCEPT ![t] = "done"] /\ hold' = [hold EXCEPT ![t] = None]
        \/ /\ queue[hold[t]] # <<>> /\ state' = [state EXCEPT ![hold[t]] = "TASK_PENDING"]
           /\ pc' = [pc EXCEPT ![t] = "pending"] /\ UNCHANGED hold
    BY <1>3 DEF CoroutineEnd, HasSuccessor, MarkDone
  <2>4. TypeOK'
    BY <2>1, <2>2, <2>3 DEF IInv, TypeOK, PCs, Coroutine, ClientStates
  <2>5. BornInv' /\ CacheInv'
    <3>1. BornInv'
      BY <2>1, <2>2, <2>3 DEF IInv, TypeOK, BornInv, NotStarted, Running
    <3>2. CacheInv'
      BY <2>1, <2>2, <2>3 DEF IInv, TypeOK, BornInv, CacheInv, NotStarted, Running
    <3> QED BY <3>1, <3>2
  <2>6. CASE /\ state' = [state EXCEPT ![hold[t]] = None]
             /\ pc' = [pc EXCEPT ![t] = "done"] /\ hold' = [hold EXCEPT ![t] = None]
    <3>1. HoldInv' /\ FreshInv'
      <4>1. HoldInv'
        BY <2>1, <2>2, <2>6 DEF IInv, TypeOK, HoldInv, FreshInv, NotStarted, Coroutine, Running
      <4>2. FreshInv'
        BY <2>1, <2>2, <2>6 DEF IInv, TypeOK, HoldInv, FreshInv, NotStarted, Coroutine, Running
      <4> QED BY <4>1, <4>2
    <3>2. StateMatchesTask' /\ CoroutineInv'
      <4>1. OthersKept(t)
        BY <2>1, <2>2, <2>6 DEF OthersKept, CoroutineInv, IInv, TypeOK, HoldInv, Coroutine, Running
      <4>2. OwnMatches(t)
        BY <2>1, <2>2, <2>6 DEF OwnMatches, IInv, TypeOK, HoldInv, Coroutine, Running
      <4> QED BY <4>1, <4>2, CoroutineFrame DEF IInv
    <3> QED BY <2>4, <2>5, <3>1, <3>2 DEF IInv
  <2>7. CASE /\ queue[hold[t]] # <<>> /\ state' = [state EXCEPT ![hold[t]] = "TASK_PENDING"]
             /\ pc' = [pc EXCEPT ![t] = "pending"] /\ UNCHANGED hold
    <3>1. HoldInv' /\ FreshInv'
      <4>1. HoldInv'
        BY <2>1, <2>2, <2>7 DEF IInv, TypeOK, HoldInv, FreshInv, NotStarted, Coroutine, Running
      <4>2. FreshInv'
        BY <2>1, <2>2, <2>7 DEF IInv, TypeOK, HoldInv, FreshInv, NotStarted, Coroutine, Running
      <4> QED BY <4>1, <4>2
    <3>2. StateMatchesTask' /\ CoroutineInv'
      <4>1. OthersKept(t)
        BY <2>1, <2>2, <2>7 DEF OthersKept, CoroutineInv, IInv, TypeOK, HoldInv, Coroutine, Running
      <4>2. OwnMatches(t)
        BY <2>1, <2>2, <2>7 DEF OwnMatches, IInv, TypeOK, HoldInv, Coroutine, Running
      <4> QED BY <4>1, <4>2, CoroutineFrame DEF IInv
    <3> QED BY <2>4, <2>5, <3>1, <3>2 DEF IInv
  <2> QED BY <2>3, <2>6, <2>7
<1>4. ASSUME TaskCancelled(t) PROVE IInv'
  <2>1. /\ pc[t] \in {"new", "pushLock", "pending", "first", "handling"}
        /\ pc[t] \in Coroutine => \A u \in Tasks : pc[u] \in Coroutine /\ hold[u] = hold[t] => u = t
        /\ pc[t] # "new" => hold[t] \in Tasks
    BY <1>4 DEF TaskCancelled, IInv, TypeOK, HoldInv, CoroutineInv, Coroutine, Running
  <2>2. /\ UNCHANGED <<listener, cancelled, born, addr, cache, queue, consumed>>
        /\ pc' = [pc EXCEPT ![t] = "done"] /\ hold' = [hold EXCEPT ![t] = None]
        /\ state' = IF pc[t] \in Running THEN [state EXCEPT ![hold[t]] = None] ELSE state
    BY <1>4 DEF TaskCancelled, MarkDone
  <2>3. TypeOK'
    <3>1. lockq' \in [Tasks -> Seq(Tasks)]
      <4>1. pc[t] = "pushLock" => RemoveFirst(lockq[hold[t]], t) \in Seq(Tasks)
        BY <2>1, RemoveFirstType DEF IInv, TypeOK
      <4> QED BY <1>4, <4>1 DEF TaskCancelled, IInv, TypeOK
    <3> QED BY <2>1, <2>2, <3>1 DEF IInv, TypeOK, PCs, ClientStates
  <2>4. BornInv' /\ CacheInv'
    <3>1. BornInv'
      BY <2>1, <2>2 DEF IInv, TypeOK, BornInv, NotStarted
    <3>2. CacheInv'
      BY <2>1, <2>2 DEF IInv, TypeOK, BornInv, CacheInv, NotStarted
    <3> QED BY <3>1, <3>2
  <2>5. HoldInv' /\ FreshInv'
    <3>1. HoldInv'
      BY <2>1, <2>2 DEF IInv, TypeOK, HoldInv, FreshInv, NotStarted, Coroutine, Running
    <3>2. FreshInv'
      BY <2>1, <2>2 DEF IInv, TypeOK, HoldInv, FreshInv, NotStarted, Coroutine, Running
    <3> QED BY <3>1, <3>2
  <2>6. StateMatchesTask' /\ CoroutineInv'
    <3>1. OthersKept(t)
      BY <2>1, <2>2 DEF OthersKept, CoroutineInv, IInv, TypeOK, HoldInv, Coroutine, Running
    <3>2. OwnMatches(t)
      BY <2>1, <2>2 DEF OwnMatches, IInv, TypeOK, HoldInv, Coroutine, Running
    <3> QED BY <3>1, <3>2, CoroutineFrame DEF IInv
  <2> QED BY <2>3, <2>4, <2>5, <2>6 DEF IInv
<1> QED BY <1>1, <1>2, <1>3, <1>4 DEF GeneratorStep

-----------------------------------------------------------------------------
(* The theorems *)

LEMMA NextIInv == IInv /\ [Next]_vars => IInv'
<1> SUFFICES ASSUME IInv, [Next]_vars PROVE IInv'
  OBVIOUS
<1>1. CASE Next
  BY <1>1, ListenerStep, HandlerStep, CoroutineStep DEF Next, TaskStep
<1>2. CASE UNCHANGED vars
  BY <1>2 DEF vars, IInv, TypeOK, BornInv, CacheInv, HoldInv, FreshInv, StateMatchesTask, CoroutineInv
<1> QED BY <1>1, <1>2

LEMMA Invariance == Spec => []IInv
BY InitIInv, NextIInv, PTL DEF Spec

\* NoLostWakeup is kept by a step where whoever waits was waiting for the same client
\* data, with a queue that was not filled or has a new handler, and where a handler that
\* leaves the lock wakes up who waits for its client.
LEMMA WaitersFrame ==
  ASSUME NoLostWakeup, cancelled' => cancelled, NEW t \in Tasks,
         \A u \in Tasks : pc'[u] = "waiting" /\ queue'[hold'[u]] # <<>> =>
           /\ pc[u] = "waiting" /\ hold'[u] = hold[u]
           /\ \/ queue[hold[u]] # <<>>
              \/ pc'[t] = "pushLock" /\ hold'[t] = hold[u],
         \A u \in Tasks \ {t} : pc[u] = "pushLock" => pc'[u] = "pushLock" /\ hold'[u] = hold[u],
         pc[t] = "pushLock" => \A u \in Tasks : hold'[u] = hold[t] => pc'[u] # "waiting",
         cancelled => cancelled'
  PROVE  NoLostWakeup'
<1> SUFFICES ASSUME ~cancelled', NEW u \in Tasks, pc'[u] = "waiting", queue'[hold'[u]] # <<>>
             PROVE  \E v \in Tasks : pc'[v] = "pushLock" /\ hold'[v] = hold'[u]
  BY DEF NoLostWakeup
<1>1. CASE pc'[t] = "pushLock" /\ hold'[t] = hold[u]
  BY <1>1
<1>2. CASE queue[hold[u]] # <<>>
  <2>1. PICK v \in Tasks : pc[v] = "pushLock" /\ hold[v] = hold[u]
    BY <1>2 DEF NoLostWakeup
  <2>2. v # t
    BY <2>1
  <2> QED BY <2>1, <2>2
<1> QED BY <1>1, <1>2

LEMMA NextNoLostWakeup == IInv /\ NoLostWakeup /\ [Next]_vars => NoLostWakeup'
<1> SUFFICES ASSUME IInv, NoLostWakeup, [Next]_vars PROVE NoLostWakeup'
  OBVIOUS
<1>1. CASE UNCHANGED vars
  BY <1>1 DEF vars, NoLostWakeup
<1>2. ASSUME NEW a \in Addresses, DatagramReceived(a) PROVE NoLostWakeup'
  <2>1. born + 1 \in Tasks /\ pc[born + 1] = "unborn"
    BY <1>2, DatagramsAssumption DEF DatagramReceived, IInv, TypeOK, BornInv, Tasks
  <2> QED BY <1>2, <2>1 DEF DatagramReceived, IInv, TypeOK, NoLostWakeup
<1>3. ASSUME NEW a \in Addresses, Forget(a) PROVE NoLostWakeup'
  BY <1>3 DEF Forget, NoLostWakeup
<1>4. CASE Serve \/ ConnectionLost
  BY <1>4 DEF Serve, ConnectionLost, IInv, TypeOK, NoLostWakeup
<1>5. CASE Cancel
  BY <1>5 DEF Cancel, NoLostWakeup
<1>6. ASSUME NEW t \in Tasks, HandlerStart(t) PROVE NoLostWakeup'
  <2> DEFINE c == ClientDataOf(t)
  <2>1. pc[t] = "new" /\ hold' = [hold EXCEPT ![t] = c] /\ c \in Tasks /\ UNCHANGED cancelled
    BY <1>6 DEF HandlerStart, ClientDataOf, IInv, TypeOK, BornInv, NotStarted
  <2>2. \A u \in Tasks : pc[u] = "waiting" => hold[u] \in Tasks /\ state[hold[u]] = "TASK_RUNNING"
    BY DEF IInv, TypeOK, HoldInv, StateMatchesTask, Coroutine, Running
  <2>3. CASE state[c] = None /\ BeginCoroutine(t, c, Push(queue[c], t)) /\ pc' = [pc EXCEPT ![t] = "first"]
    <3>1. \A u \in Tasks \ {t} : pc'[u] = pc[u] /\ hold'[u] = hold[u]
      BY <2>1, <2>3
    <3>2. pc'[t] = "first"
      BY <2>3 DEF IInv, TypeOK
    <3>3. \A d \in Tasks : d # c => queue'[d] = queue[d]
      BY <2>1, <2>3 DEF BeginCoroutine, IInv, TypeOK
    <3>4. \A u \in Tasks : pc[u] = "waiting" => hold[u] \in Tasks /\ hold[u] # c
      BY <2>2, <2>3, DatagramsAssumption
    <3> HIDE DEF c
    <3> QED BY <2>1, <3>1, <3>2, <3>3, <3>4, WaitersFrame
  <2>4. CASE queue' = [queue EXCEPT ![c] = Push(queue[c], t)] /\ pc' = [pc EXCEPT ![t] = "pushLock"]
    <3>1. \A u \in Tasks \ {t} : pc'[u] = pc[u] /\ hold'[u] = hold[u]
      BY <2>1, <2>4
    <3>2. pc'[t] = "pushLock" /\ hold'[t] = c
      BY <2>1, <2>4 DEF IInv, TypeOK
    <3>3. \A d \in Tasks : d # c => queue'[d] = queue[d]
      BY <2>1, <2>4 DEF IInv, TypeOK
    <3> HIDE DEF c
    <3> QED BY <2>1, <2>2, <3>1, <3>2, <3>3, WaitersFrame
  <2> QED BY <1>6, <2>3, <2>4 DEF HandlerStart
<1>7. ASSUME NEW t \in Tasks, HandlerNotify(t) PROVE NoLostWakeup'
  <2> DEFINE c == hold[t]
  <2>1. pc[t] = "pushLock" /\ c \in Tasks /\ UNCHANGED cancelled
    BY <1>7 DEF HandlerNotify, IInv, TypeOK, HoldInv
  <2>2. /\ pc' \in [Tasks -> PCs] /\ pc'[t] \in {"first", "done"}
        /\ \A u \in Tasks \ {t} : pc'[u] = Notified(c)[u] /\ hold'[u] = hold[u]
    BY <1>7 DEF HandlerNotify, Notified, IInv, TypeOK, PCs, Coroutine, Running
  <2>3. \A u \in Tasks \ {t} :
          /\ pc'[u] = "waiting" => pc[u] = "waiting" /\ hold[u] # c
          /\ pc[u] = "pushLock" => pc'[u] = "pushLock"
    BY <2>2 DEF Notified
  <2>4. \A d \in Tasks : d # c => queue'[d] = queue[d]
    BY <1>7, <2>1 DEF HandlerNotify, BeginCoroutine, IInv, TypeOK
  <2>5. \A u \in Tasks : pc[u] = "waiting" => hold[u] \in Tasks
    BY DEF IInv, TypeOK, HoldInv, Coroutine, Running
  <2> QED BY <2>1, <2>2, <2>3, <2>4, <2>5, WaitersFrame
<1>8. ASSUME NEW t \in Tasks,
             PendingStart(t) \/ PopDatagram(t) \/ WakeUp(t) \/ GeneratorStep(t) \/ InterruptPop(t)
      PROVE  NoLostWakeup'
  <2>1. /\ pc[t] \in Coroutine /\ hold[t] \in Tasks /\ UNCHANGED cancelled
        /\ \A u \in Tasks : pc[u] \in Coroutine /\ hold[u] = hold[t] => u = t
        /\ \A u \in Tasks : pc[u] = "waiting" => hold[u] \in Tasks
    BY <1>8 DEF PendingStart, PopDatagram, WakeUp, GeneratorStep, FirstYield, NextYield, CoroutineEnd,
                InterruptPop, IInv, TypeOK, HoldInv, CoroutineInv, Coroutine, Running
  <2>2. /\ \E p \in PCs \ {"pushLock"} : pc' = [pc EXCEPT ![t] = p]
        /\ \A u \in Tasks \ {t} : hold'[u] = hold[u]
    BY <1>8 DEF PendingStart, PopDatagram, WakeUp, GeneratorStep, FirstYield, NextYield, CoroutineEnd,
                InterruptPop, IInv, TypeOK, PCs, Coroutine, Running
  <2>3. \A d \in Tasks : d # hold[t] => queue'[d] = queue[d]
    BY <1>8, <2>1 DEF PendingStart, PopDatagram, WakeUp, GeneratorStep, FirstYield, NextYield, CoroutineEnd,
                InterruptPop, BeginCoroutine, IInv, TypeOK
  <2>4. pc'[t] = "waiting" => queue'[hold'[t]] = <<>>
    BY <1>8, <2>1, <2>2 DEF PendingStart, PopDatagram, WakeUp, GeneratorStep, FirstYield, NextYield, CoroutineEnd,
                InterruptPop, IInv, TypeOK
  <2>5. pc[t] # "pushLock" /\ \A u \in Tasks \ {t} : pc'[u] = pc[u]
    BY <2>1, <2>2 DEF Coroutine, Running, IInv, TypeOK
  <2>6. \A u \in Tasks : pc'[u] = "waiting" /\ queue'[hold'[u]] # <<>> =>
          pc[u] = "waiting" /\ hold'[u] = hold[u] /\ queue[hold[u]] # <<>>
    <3> SUFFICES ASSUME NEW u \in Tasks, pc'[u] = "waiting", queue'[hold'[u]] # <<>>
                 PROVE  pc[u] = "waiting" /\ hold'[u] = hold[u] /\ queue[hold[u]] # <<>>
      OBVIOUS
    <3>1. u # t
      BY <2>4
    <3>2. pc[u] = "waiting" /\ hold'[u] = hold[u]
      BY <2>2, <2>5, <3>1
    <3>3. hold[u] # hold[t]
      BY <2>1, <3>1, <3>2 DEF Coroutine, Running
    <3> QED BY <2>1, <2>3, <3>2, <3>3
  <2> QED BY <2>1, <2>2, <2>5, <2>6, WaitersFrame
<1>9. ASSUME NEW t \in Tasks, TaskCancelled(t) PROVE NoLostWakeup'
  BY <1>9 DEF TaskCancelled, NoLostWakeup
<1> QED BY <1>1, <1>2, <1>3, <1>4, <1>5, <1>6, <1>7, <1>8, <1>9 DEF Next, TaskStep

\* push_datagram() and pop_datagram(): a coroutine never sleeps on the condition while
\* its queue has a datagram, unless a handler is about to wake it up.
THEOREM WakeupsReachCoroutines == Spec => []NoLostWakeup
<1>1. Init => NoLostWakeup
  BY DEF Init, NoLostWakeup
<1> QED BY <1>1, Invariance, NextNoLostWakeup, PTL DEF Spec

\* Every variable keeps its type: in particular no datagram is taken from an
\* empty deque, by any of the three code paths that pop one.
THEOREM TypeCorrect == Spec => []TypeOK
<1>1. IInv => TypeOK
  BY DEF IInv
<1> QED BY <1>1, Invariance, PTL

\* _ClientData of one client are never two at a time, whatever the order in
\* which handlers start, end and drop their references.
THEOREM ClientDataIsUnique == Spec => []SingleClientData
<1>1. IInv => SingleClientData
  BY DEF IInv, HoldInv, SingleClientData
<1> QED BY <1>1, Invariance, PTL

\* The inconsistent-state error of _ClientData is unreachable.
THEOREM StateConsistent == Spec => []StateMatchesTask
<1>1. IInv => StateMatchesTask
  BY DEF IInv
<1> QED BY <1>1, Invariance, PTL

\* "There will always be only one active generator per client."
THEOREM OneGeneratorPerClient == Spec => []AtMostOneCoroutine
<1>1. IInv => AtMostOneCoroutine
  BY DEF IInv, HoldInv, CoroutineInv, AtMostOneCoroutine
<1> QED BY <1>1, Invariance, PTL

-----------------------------------------------------------------------------
(* Datagrams stay in place *)

AtListener == {"unborn", "delayed", "new", "dropped"}

\* Handlers start once the listener serves; what it drops, it drops before any started.
SetupInv ==
  /\ cancelled => listener = "closed"
  /\ \A t \in Tasks :
       /\ listener = "setup" => pc[t] \in {"unborn", "delayed"}
       /\ pc[t] = "delayed" => listener = "setup"
       /\ pc[t] = "dropped" => listener = "closed" /\ \A u \in Tasks : pc[u] \in {"unborn", "dropped"}

\* A _ClientData with datagrams is referenced, and one that is not idle has a coroutine.
BusyInv ==
  ~cancelled => \A c \in Tasks :
    /\ queue[c] # <<>> => \E t \in Tasks : hold[t] = c
    /\ state[c] # None => \E t \in Tasks : pc[t] \in Coroutine /\ hold[t] = c

\* What left the listener is in order, and before what has not.
OrderInv ==
  \A a \in Addresses :
    /\ \A i, j \in 1..Len(Passed(a)) : i < j => Passed(a)[i] < Passed(a)[j]
    /\ \A t \in ToSet(Passed(a)) :
         /\ t \in Tasks /\ addr[t] = a /\ pc[t] \notin AtListener
         /\ \A u \in Tasks : pc[u] \in {"delayed", "new"} => t < u

\* Nothing that left the listener is missing.
CompleteInv ==
  ~cancelled => \A t \in Tasks : pc[t] \notin AtListener => t \in ToSet(Passed(addr[t]))

\* No datagram is queued for a _ClientData that does not exist yet.
FreshQueueInv == \A c \in Tasks : pc[c] \in NotStarted => queue[c] = <<>>

DeliveryInv == IInv /\ SetupInv /\ BusyInv /\ FreshQueueInv /\ OrderInv /\ CompleteInv

LEMMA PassedType ==
  ASSUME TypeOK, NEW a \in Addresses
  PROVE  Queued(a) \in Seq(Tasks) /\ consumed[a] \in Seq(Tasks) /\ Passed(a) \in Seq(Tasks)
<1>1. Queued(a) \in Seq(Tasks) /\ consumed[a] \in Seq(Tasks)
  BY EmptySeq DEF Queued, TypeOK
<1> QED BY <1>1, ConcatProperties DEF Passed

\* A step that gives or queues datagrams of one client changes nothing for the others.
LEMMA OthersPassed ==
  ASSUME IInv, NEW a \in Addresses, NEW c \in Tasks, addr[c] = a,
         \A b \in Addresses \ {a} : cache'[b] = cache[b] /\ consumed'[b] = consumed[b],
         \A d \in Tasks \ {c} : queue'[d] = queue[d]
  PROVE  \A b \in Addresses \ {a} : Passed(b)' = Passed(b)
<1> SUFFICES ASSUME NEW b \in Addresses \ {a} PROVE Passed(b)' = Passed(b)
  OBVIOUS
<1>1. cache[b] # None => cache[b] \in Tasks \ {c}
  BY DEF IInv, TypeOK, CacheInv
<1>2. Queued(b)' = Queued(b)
  BY <1>1 DEF Queued
<1> QED BY <1>2 DEF Passed

\* A coroutine that begins with the queue q takes its head.
LEMMA BeginPassed ==
  ASSUME TypeOK, NEW t \in Tasks, NEW a \in Addresses, addr[t] = a, NEW c \in Tasks,
         NEW q \in Seq(Tasks), q # <<>>, BeginCoroutine(t, c, q), cache'[a] = c
  PROVE  Passed(a)' = consumed[a] \o q
<1>1. consumed'[a] = Append(consumed[a], Head(q)) /\ queue'[c] = Tail(q)
  BY DEF BeginCoroutine, TypeOK
<1>2. Queued(a)' = Tail(q)
  BY <1>1, DatagramsAssumption DEF Queued, Tasks
<1>3. consumed[a] \in Seq(Tasks)
  BY PassedType
<1> QED BY <1>1, <1>2, <1>3, ConcatShift DEF Passed

\* handler() puts its datagram after those that left the listener before it.
LEMMA HandlerStartPassed ==
  ASSUME IInv, FreshQueueInv, NEW t \in Tasks, HandlerStart(t), NEW a \in Addresses, addr[t] = a
  PROVE  /\ Passed(a)' = Append(Passed(a), t)
         /\ \A b \in Addresses \ {a} : Passed(b)' = Passed(b)
<1> DEFINE c == ClientDataOf(t)
<1>1. /\ pc[t] = "new" /\ c \in Tasks /\ addr[c] = a
      /\ cache[a] = None => queue[c] = <<>>
      /\ Queued(a) = queue[c]
  <2>1. pc[t] = "new"
    BY DEF HandlerStart
  <2>2. c \in Tasks /\ addr[c] = a
    BY <2>1 DEF ClientDataOf, IInv, TypeOK, CacheInv
  <2>3. cache[a] = None => queue[c] = <<>>
    BY <2>1 DEF ClientDataOf, FreshQueueInv, NotStarted
  <2>4. Queued(a) = queue[c]
    BY <2>3 DEF Queued, ClientDataOf
  <2> QED BY <2>1, <2>2, <2>3, <2>4
<1>2. /\ cache' = [cache EXCEPT ![a] = c] /\ cache'[a] = c /\ UNCHANGED addr
      /\ c # None
  BY <1>1, DatagramsAssumption DEF HandlerStart, IInv, TypeOK, Tasks
<1>3. /\ queue[c] \in Seq(Tasks) /\ Push(queue[c], t) \in Seq(Tasks) /\ Push(queue[c], t) # <<>>
      /\ consumed[a] \in Seq(Tasks)
  BY <1>1, QueueTypes DEF IInv, TypeOK
<1>4. consumed[a] \o Push(queue[c], t) = Append(Passed(a), t)
  <2> HIDE DEF c
  <2>1. \A x, y \in Seq(Tasks) : x \o Append(y, t) = Append(x \o y, t)
    BY ConcatPush
  <2>2. consumed[a] \o Append(queue[c], t) = Append(consumed[a] \o queue[c], t)
    BY <1>3, <2>1, Zenon
  <2> QED BY <1>1, <2>2 DEF Passed, Push
<1>5. /\ \/ BeginCoroutine(t, c, Push(queue[c], t))
         \/ queue' = [queue EXCEPT ![c] = Push(queue[c], t)] /\ UNCHANGED consumed
  BY DEF HandlerStart
<1>6. Passed(a)' = Append(Passed(a), t)
  <2>1. CASE BeginCoroutine(t, c, Push(queue[c], t))
    <3>1. TypeOK
      BY DEF IInv
    <3> HIDE DEF c
    <3> QED BY <1>1, <1>2, <1>3, <1>4, <2>1, <3>1, BeginPassed
  <2>2. CASE queue' = [queue EXCEPT ![c] = Push(queue[c], t)] /\ UNCHANGED consumed
    <3>1. Queued(a)' = Push(queue[c], t)
      BY <1>1, <1>2, <2>2 DEF Queued, IInv, TypeOK
    <3> QED BY <1>4, <2>2, <3>1 DEF Passed
  <2> QED BY <1>5, <2>1, <2>2
<1>7. /\ \A b \in Addresses \ {a} : cache'[b] = cache[b] /\ consumed'[b] = consumed[b]
      /\ \A d \in Tasks \ {c} : queue'[d] = queue[d]
  BY <1>1, <1>2, <1>5 DEF BeginCoroutine, IInv, TypeOK
<1> HIDE DEF c
<1>8. \A b \in Addresses \ {a} : Passed(b)' = Passed(b)
  BY <1>1, <1>7, OthersPassed
<1> QED BY <1>6, <1>8

\* The other steps of the tasks move datagrams from the queue to the generator.
LEMMA TaskPassed ==
  ASSUME IInv, NEW t \in Tasks,
         \/ HandlerNotify(t) \/ PendingStart(t) \/ PopDatagram(t) \/ WakeUp(t)
         \/ GeneratorStep(t) \/ InterruptPop(t) \/ TaskCancelled(t)
  PROVE  \A a \in Addresses : Passed(a)' = Passed(a)
<1> DEFINE c == hold[t]
<1>1. ASSUME UNCHANGED <<consumed, queue, cache>> PROVE \A a \in Addresses : Passed(a)' = Passed(a)
  BY <1>1 DEF Passed, Queued
<1>2. ASSUME c # None, queue[c] # <<>>, UNCHANGED cache,
             \/ BeginCoroutine(t, c, queue[c])
             \/ /\ queue' = [queue EXCEPT ![c] = Tail(@)]
                /\ consumed' = [consumed EXCEPT ![addr[t]] = Append(@, Head(queue[c]))]
      PROVE  \A a \in Addresses : Passed(a)' = Passed(a)
  <2>0. addr[t] \in Addresses
    BY <1>2, HeldIsStarted
  <2>. PICK a \in Addresses : a = addr[t]
    BY <2>0
  <2>1. c \in Tasks /\ addr[c] = a /\ cache[a] = c
    BY <1>2, HeldIsStarted DEF IInv, HoldInv
  <2> HIDE DEF c
  <2>2. /\ queue' = [queue EXCEPT ![c] = Tail(queue[c])]
        /\ consumed' = [consumed EXCEPT ![a] = Append(consumed[a], Head(queue[c]))]
    BY <1>2, <2>1 DEF BeginCoroutine, IInv, TypeOK
  <2>3. Queued(a) = queue[c] /\ Queued(a)' = Tail(queue[c])
    BY <1>2, <2>1, <2>2 DEF Queued, IInv, TypeOK
  <2>4. consumed'[a] = Append(consumed[a], Head(queue[c]))
    BY <2>1, <2>2 DEF IInv, TypeOK
  <2>5. queue[c] \in Seq(Tasks) /\ consumed[a] \in Seq(Tasks)
    BY <2>1 DEF IInv, TypeOK
  <2>6. Passed(a)' = Passed(a)
    <3>1. Append(consumed[a], Head(queue[c])) \o Tail(queue[c]) = consumed[a] \o queue[c]
      <4>1. PICK u, v : u = consumed[a] /\ v = queue[c]
        OBVIOUS
      <4>2. u \in Seq(Tasks) /\ v \in Seq(Tasks) /\ v # <<>>
        BY <1>2, <2>5, <4>1
      <4>3. Append(u, Head(v)) \o Tail(v) = u \o v
        BY <4>2, ConcatShift
      <4> QED BY <4>1, <4>3
    <3> QED BY <2>3, <2>4, <3>1 DEF Passed
  <2>7. /\ \A b \in Addresses \ {a} : cache'[b] = cache[b] /\ consumed'[b] = consumed[b]
        /\ \A d \in Tasks \ {c} : queue'[d] = queue[d]
    BY <1>2, <2>1, <2>2 DEF IInv, TypeOK
  <2>8. \A b \in Addresses \ {a} : Passed(b)' = Passed(b)
    BY <2>1, <2>7, OthersPassed
  <2> QED BY <2>6, <2>8
<1>3. CASE HandlerNotify(t)
  <2>1. c # None /\ UNCHANGED cache
    BY <1>3 DEF HandlerNotify, IInv, HoldInv
  <2> HIDE DEF c
  <2>2. CASE queue[c] # <<>> /\ BeginCoroutine(t, c, queue[c])
    BY <1>2, <2>1, <2>2
  <2>3. CASE UNCHANGED <<queue, consumed>>
    BY <1>1, <2>1, <2>3
  <2> QED BY <1>3, <2>2, <2>3 DEF HandlerNotify, MayStart, c
<1>4. CASE PendingStart(t)
  <2>1. c # None /\ UNCHANGED cache /\ queue[c] # <<>> /\ BeginCoroutine(t, c, queue[c])
    BY <1>4 DEF PendingStart, IInv, HoldInv, CoroutineInv, Coroutine
  <2> HIDE DEF c
  <2> QED BY <1>2, <2>1
<1>5. CASE PopDatagram(t)
  <2>1. c # None /\ UNCHANGED cache
    BY <1>5 DEF PopDatagram, IInv, HoldInv, Coroutine, Running
  <2>2. \/ UNCHANGED <<queue, consumed>>
        \/ /\ queue[c] # <<>> /\ queue' = [queue EXCEPT ![c] = Tail(@)]
           /\ consumed' = [consumed EXCEPT ![addr[t]] = Append(@, Head(queue[c]))]
    BY <1>5 DEF PopDatagram
  <2> HIDE DEF c
  <2> QED BY <1>1, <1>2, <2>1, <2>2
<1>6. CASE WakeUp(t) \/ GeneratorStep(t) \/ InterruptPop(t) \/ TaskCancelled(t)
  <2>1. UNCHANGED <<consumed, queue, cache>>
    BY <1>6 DEF WakeUp, GeneratorStep, FirstYield, NextYield, CoroutineEnd, InterruptPop, TaskCancelled
  <2> QED BY <1>1, <2>1
<1> QED BY <1>3, <1>4, <1>5, <1>6

LEMMA NextSetupInv == IInv /\ SetupInv /\ [Next]_vars => SetupInv'
<1> SUFFICES ASSUME IInv, SetupInv, [Next]_vars PROVE SetupInv'
  OBVIOUS
<1>1. CASE UNCHANGED vars
  BY <1>1 DEF vars, SetupInv
<1>2. ASSUME NEW a \in Addresses, DatagramReceived(a) PROVE SetupInv'
  <2>1. /\ born + 1 \in Tasks /\ UNCHANGED <<listener, cancelled>> /\ listener # "closed"
        /\ pc' = [pc EXCEPT ![born + 1] = IF listener = "serving" THEN "new" ELSE "delayed"]
        /\ listener \in {"setup", "serving"}
    BY <1>2, DatagramsAssumption DEF DatagramReceived, IInv, TypeOK, Tasks
  <2> QED BY <2>1 DEF IInv, TypeOK, SetupInv
<1>3. ASSUME NEW a \in Addresses, Forget(a) PROVE SetupInv'
  BY <1>3 DEF Forget, SetupInv
<1>4. CASE Serve \/ ConnectionLost \/ Cancel
  BY <1>4 DEF Serve, ConnectionLost, Cancel, IInv, TypeOK, SetupInv
<1>5. ASSUME NEW t \in Tasks, TaskStep(t) \/ GeneratorStep(t) \/ InterruptPop(t) \/ TaskCancelled(t)
      PROVE  SetupInv'
  <2>1. /\ UNCHANGED <<listener, cancelled>>
        /\ pc[t] \notin {"unborn", "delayed", "dropped"}
    BY <1>5 DEF TaskStep, GeneratorStep, HandlerStart, HandlerNotify, PendingStart, FirstYield, NextYield,
                PopDatagram, WakeUp, InterruptPop, CoroutineEnd, TaskCancelled
  <2>2. /\ pc'[t] \notin {"unborn", "delayed", "dropped"}
        /\ \A u \in Tasks : pc'[u] \in {"unborn", "delayed", "dropped"} => pc'[u] = pc[u]
    <3>1. CASE HandlerNotify(t)
      BY <3>1 DEF HandlerNotify, Notified, IInv, TypeOK
    <3>2. CASE ~HandlerNotify(t)
      BY <1>5, <3>2 DEF TaskStep, GeneratorStep, HandlerStart, PendingStart, FirstYield, NextYield,
                PopDatagram, WakeUp, InterruptPop, CoroutineEnd, TaskCancelled, IInv, TypeOK
    <3> QED BY <3>1, <3>2
  <2>3. \A u \in Tasks : pc'[u] # "dropped"
    BY <2>1, <2>2 DEF SetupInv
  <2>4. listener # "setup"
    BY <2>1 DEF SetupInv
  <2> QED BY <2>1, <2>2, <2>3, <2>4 DEF SetupInv
<1> QED BY <1>1, <1>2, <1>3, <1>4, <1>5 DEF Next

\* The states and queues of _ClientData change at the one a task works on, and while
\* the server runs a task that leaves it leaves it empty and idle, or to another task.
LEMMA BusyFrame ==
  ASSUME BusyInv, cancelled => cancelled', NEW c \in Tasks,
         \A d \in Tasks \ {c} : queue'[d] = queue[d] /\ state'[d] = state[d],
         \A u \in Tasks : ~cancelled' /\ hold[u] # c /\ hold[u] # None =>
           hold'[u] = hold[u] /\ (pc[u] \in Coroutine => pc'[u] \in Coroutine),
         ~cancelled' => \/ queue'[c] = <<>> /\ state'[c] = None
                        \/ \E u \in Tasks : pc'[u] \in Coroutine /\ hold'[u] = c
  PROVE  BusyInv'
<1> SUFFICES ASSUME ~cancelled', NEW d \in Tasks
             PROVE  /\ queue'[d] # <<>> => \E t \in Tasks : hold'[t] = d
                    /\ state'[d] # None => \E t \in Tasks : pc'[t] \in Coroutine /\ hold'[t] = d
  BY DEF BusyInv
<1>1. CASE d = c
  BY <1>1
<1>2. CASE d # c
  <2>1. d # None
    BY DatagramsAssumption DEF Tasks
  <2> QED BY <1>2, <2>1 DEF BusyInv
<1> QED BY <1>1, <1>2

LEMMA NextBusyInv == IInv /\ BusyInv /\ FreshQueueInv /\ [Next]_vars => BusyInv' /\ FreshQueueInv'
<1> SUFFICES ASSUME IInv, BusyInv, FreshQueueInv, [Next]_vars PROVE BusyInv' /\ FreshQueueInv'
  OBVIOUS
<1> USE DatagramsAssumption
<1>0. \A u \in Tasks : pc[u] = "unborn" \/ pc[u] = "delayed" => hold[u] = None
  BY DEF IInv, HoldInv, NotStarted
<1>1. CASE UNCHANGED vars
  BY <1>1 DEF vars, BusyInv, FreshQueueInv
<1>2. ASSUME NEW a \in Addresses, DatagramReceived(a) PROVE BusyInv' /\ FreshQueueInv'
  <2>1. born + 1 \in Tasks /\ pc[born + 1] = "unborn" /\ born + 1 # None
    BY <1>2 DEF DatagramReceived, IInv, TypeOK, BornInv, Tasks
  <2>2. \A u \in Tasks : pc[u] \in Coroutine => u # born + 1
    BY <2>1 DEF Coroutine, Running
  <2>3. BusyInv'
    BY <1>2, <2>1, <2>2 DEF DatagramReceived, IInv, TypeOK, BusyInv
  <2>4. FreshQueueInv'
    BY <1>2, <2>1 DEF DatagramReceived, IInv, TypeOK, FreshQueueInv, NotStarted
  <2> QED BY <2>3, <2>4
<1>3. ASSUME NEW a \in Addresses, Forget(a) PROVE BusyInv' /\ FreshQueueInv'
  BY <1>3 DEF Forget, BusyInv, FreshQueueInv
<1>4. CASE Serve \/ ConnectionLost \/ Cancel
  <2>1. /\ \A u \in Tasks : pc[u] \in Coroutine => pc'[u] = pc[u]
        /\ \A u \in Tasks : pc'[u] \in NotStarted => pc[u] \in NotStarted
        /\ UNCHANGED <<hold, state, queue>> /\ (cancelled => cancelled')
    BY <1>4 DEF Serve, ConnectionLost, Cancel, IInv, TypeOK, Coroutine, Running, NotStarted
  <2> QED BY <2>1 DEF BusyInv, FreshQueueInv
<1>5. ASSUME NEW t \in Tasks, TaskCancelled(t) PROVE BusyInv' /\ FreshQueueInv'
  BY <1>5 DEF TaskCancelled, BusyInv, FreshQueueInv, NotStarted, IInv, TypeOK
<1>6. ASSUME NEW t \in Tasks, HandlerStart(t) PROVE BusyInv' /\ FreshQueueInv'
  <2> DEFINE c == ClientDataOf(t)
  <2>1. /\ pc[t] = "new" /\ hold[t] = None /\ c \in Tasks /\ c # None
        /\ c = t \/ pc[c] \notin NotStarted
        /\ hold' = [hold EXCEPT ![t] = c] /\ UNCHANGED cancelled
    BY <1>6 DEF HandlerStart, ClientDataOf, IInv, TypeOK, BornInv, CacheInv, HoldInv, Tasks, NotStarted
  <2>2. \/ /\ state' = [state EXCEPT ![c] = "TASK_RUNNING"] /\ pc' = [pc EXCEPT ![t] = "first"]
           /\ queue' = [queue EXCEPT ![c] = Tail(Push(queue[c], t))]
        \/ /\ state[c] # None /\ UNCHANGED state /\ pc' = [pc EXCEPT ![t] = "pushLock"]
           /\ queue' = [queue EXCEPT ![c] = Push(queue[c], t)]
    BY <1>6 DEF HandlerStart, BeginCoroutine
  <2> HIDE DEF c
  <2>3. \A d \in Tasks \ {c} : queue'[d] = queue[d] /\ state'[d] = state[d]
    BY <2>1, <2>2 DEF IInv, TypeOK
  <2>4. \A u \in Tasks \ {t} : hold'[u] = hold[u] /\ pc'[u] = pc[u]
    BY <2>1, <2>2 DEF IInv, TypeOK
  <2>5. hold'[t] = c /\ pc'[t] \in {"first", "pushLock"}
    BY <2>1, <2>2 DEF IInv, TypeOK
  <2>6. ~cancelled' => \E u \in Tasks : pc'[u] \in Coroutine /\ hold'[u] = c
    <3>1. CASE pc'[t] = "first"
      BY <2>5, <3>1 DEF Coroutine, Running
    <3>2. CASE pc'[t] = "pushLock"
      <4>1. state[c] # None
        BY <2>1, <2>2, <3>2 DEF IInv, TypeOK
      <4>2. ~cancelled => \E u \in Tasks : pc[u] \in Coroutine /\ hold[u] = c
        BY <2>1, <4>1 DEF BusyInv
      <4>3. pc[t] \notin Coroutine
        BY <2>1 DEF Coroutine, Running
      <4> QED BY <2>1, <2>4, <4>2, <4>3
    <3> QED BY <2>5, <3>1, <3>2
  <2>7. BusyInv'
    BY <2>1, <2>3, <2>4, <2>6, BusyFrame
  <2>8. FreshQueueInv'
    BY <2>1, <2>3, <2>4, <2>5 DEF FreshQueueInv, NotStarted
  <2> QED BY <2>7, <2>8
<1>7. ASSUME NEW t \in Tasks, HandlerNotify(t) PROVE BusyInv' /\ FreshQueueInv'
  <2> DEFINE c == hold[t]
  <2>1. pc[t] = "pushLock" /\ c \in Tasks /\ UNCHANGED cancelled /\ pc[c] \notin NotStarted
    BY <1>7, HeldIsStarted DEF HandlerNotify, IInv, TypeOK, HoldInv
  <2>2. \A u \in Tasks \ {t} : /\ hold'[u] = hold[u] /\ (pc[u] \in Coroutine => pc'[u] \in Coroutine)
                               /\ pc'[u] \in NotStarted => pc'[u] = pc[u]
    BY <1>7 DEF HandlerNotify, Notified, IInv, TypeOK, Coroutine, Running, NotStarted
  <2>3. \A d \in Tasks \ {c} : queue'[d] = queue[d] /\ state'[d] = state[d]
    BY <1>7, <2>1 DEF HandlerNotify, BeginCoroutine, IInv, TypeOK
  <2>4. CASE MayStart(c) /\ pc' = [Notified(c) EXCEPT ![t] = "first"] /\ UNCHANGED hold
    <3>1. pc'[t] = "first"
      BY <2>4 DEF Notified
    <3>2. BusyInv'
      <4>1. \E u \in Tasks : pc'[u] \in Coroutine /\ hold'[u] = c
        BY <2>4, <3>1 DEF Coroutine, Running
      <4> HIDE DEF c
      <4>2. \A u \in Tasks : hold[u] # c => u # t
        BY DEF c
      <4> QED BY <2>1, <2>2, <2>3, <4>1, <4>2, BusyFrame
    <3>3. FreshQueueInv'
      BY <2>1, <2>2, <2>3, <3>1 DEF FreshQueueInv, NotStarted
    <3> QED BY <3>2, <3>3
  <2>5. CASE ~MayStart(c) /\ pc' = [Notified(c) EXCEPT ![t] = "done"] /\ UNCHANGED <<state, queue>>
    <3>1. pc'[t] = "done" /\ pc[t] \notin Coroutine
      BY <2>1, <2>5 DEF Notified, Coroutine, Running
    <3>2. BusyInv'
      <4>1. ~cancelled' => \/ queue'[c] = <<>> /\ state'[c] = None
                           \/ \E u \in Tasks : pc'[u] \in Coroutine /\ hold'[u] = c
        <5>1. CASE state[c] = None
          BY <2>5, <5>1 DEF MayStart
        <5>2. CASE state[c] # None
          <6>1. ~cancelled => \E u \in Tasks : pc[u] \in Coroutine /\ hold[u] = c
            BY <2>1, <5>2 DEF BusyInv
          <6> QED BY <2>1, <2>2, <3>1, <6>1
        <5> QED BY <5>1, <5>2
      <4>2. \A u \in Tasks : hold[u] # c => u # t
        OBVIOUS
      <4> HIDE DEF c
      <4> QED BY <2>1, <2>2, <2>3, <4>1, <4>2, BusyFrame
    <3>3. FreshQueueInv'
      BY <2>1, <2>2, <2>3, <3>1 DEF FreshQueueInv, NotStarted
    <3> QED BY <3>2, <3>3
  <2> QED BY <1>7, <2>4, <2>5 DEF HandlerNotify
<1>8. ASSUME NEW t \in Tasks,
             PendingStart(t) \/ PopDatagram(t) \/ WakeUp(t) \/ GeneratorStep(t) \/ InterruptPop(t)
      PROVE  BusyInv' /\ FreshQueueInv'
  <2> DEFINE c == hold[t]
  <2>1. pc[t] \in Coroutine /\ c \in Tasks /\ UNCHANGED cancelled /\ pc[c] \notin NotStarted
    <3>1. pc[t] \in Coroutine /\ hold[t] # None /\ UNCHANGED cancelled
      BY <1>8 DEF PendingStart, PopDatagram, WakeUp, GeneratorStep, FirstYield, NextYield, CoroutineEnd,
                  InterruptPop, IInv, HoldInv, Coroutine, Running
    <3> QED BY <3>1, HeldIsStarted
  <2>2. /\ pc'[t] \notin NotStarted
        /\ \A u \in Tasks \ {t} : hold'[u] = hold[u] /\ pc'[u] = pc[u]
    BY <1>8, <2>1 DEF PendingStart, PopDatagram, WakeUp, GeneratorStep, FirstYield, NextYield, CoroutineEnd,
                InterruptPop, IInv, TypeOK, NotStarted, Coroutine, Running
  <2>3. \A d \in Tasks \ {c} : queue'[d] = queue[d] /\ state'[d] = state[d]
    BY <1>8, <2>1 DEF PendingStart, PopDatagram, WakeUp, GeneratorStep, FirstYield, NextYield, CoroutineEnd,
                InterruptPop, BeginCoroutine, MarkDone, IInv, TypeOK
  <2>4. \/ queue'[c] = <<>> /\ state'[c] = None
        \/ \E u \in Tasks : pc'[u] \in Coroutine /\ hold'[u] = c
    <3>1. CASE CoroutineEnd(t) /\ ~HasSuccessor(c)
      BY <2>1, <3>1 DEF CoroutineEnd, HasSuccessor, MarkDone, IInv, TypeOK
    <3>2. CASE ~(CoroutineEnd(t) /\ ~HasSuccessor(c))
      <4>1. pc'[t] \in Coroutine /\ hold'[t] = hold[t]
        BY <1>8, <2>1, <3>2 DEF PendingStart, PopDatagram, WakeUp, GeneratorStep, FirstYield, NextYield,
                    CoroutineEnd, InterruptPop, IInv, TypeOK, Coroutine, Running
      <4> QED BY <4>1
    <3> QED BY <3>1, <3>2
  <2>5. \A u \in Tasks : hold[u] # c => u # t
    OBVIOUS
  <2> HIDE DEF c
  <2>6. BusyInv'
    BY <2>1, <2>2, <2>3, <2>4, <2>5, BusyFrame
  <2>7. FreshQueueInv'
    BY <2>1, <2>2, <2>3 DEF FreshQueueInv
  <2> QED BY <2>6, <2>7
<1> QED BY <1>1, <1>2, <1>3, <1>4, <1>5, <1>6, <1>7, <1>8 DEF Next, TaskStep

\* Order and completeness are kept by a step that moves no datagram out of the listener,
\* and by one that moves the next one.
LEMMA PassedFrame ==
  ASSUME IInv, OrderInv, CompleteInv, cancelled => cancelled',
         \A a \in Addresses : Passed(a)' = Passed(a),
         \A t \in Tasks : pc[t] \notin AtListener => addr'[t] = addr[t] /\ pc'[t] \notin AtListener,
         \A t \in Tasks : ~cancelled' /\ pc'[t] \notin AtListener => pc[t] \notin AtListener,
         \A u \in Tasks : pc'[u] \in {"delayed", "new"} =>
            \/ pc[u] \in {"delayed", "new"}
            \/ \A t \in Tasks : pc[t] \notin AtListener => t < u
  PROVE  OrderInv' /\ CompleteInv'
<1>1. OrderInv'
  BY DEF OrderInv
<1>2. CompleteInv'
  <2> SUFFICES ASSUME ~cancelled', NEW t \in Tasks, pc'[t] \notin AtListener
               PROVE  t \in ToSet(Passed(addr[t]))'
    BY DEF CompleteInv
  <2>1. pc[t] \notin AtListener /\ addr'[t] = addr[t] /\ addr[t] \in Addresses
    BY DEF IInv, BornInv, AtListener
  <2>2. PICK a \in Addresses : a = addr[t]
    BY <2>1
  <2>3. t \in ToSet(Passed(a))
    BY <2>1, <2>2 DEF CompleteInv
  <2>4. t \in ToSet(Passed(a))'
    BY <2>3
  <2> QED BY <2>1, <2>2, <2>4
<1> QED BY <1>1, <1>2

LEMMA StartFrame ==
  ASSUME IInv, OrderInv, CompleteInv, UNCHANGED <<cancelled, addr>>,
         NEW t \in Tasks, NEW a \in Addresses, addr[t] = a, pc[t] = "new", InTurn(t),
         \A u \in Tasks : pc[u] # "delayed",
         Passed(a)' = Append(Passed(a), t),
         \A b \in Addresses \ {a} : Passed(b)' = Passed(b),
         pc'[t] \notin AtListener, \A u \in Tasks \ {t} : pc'[u] = pc[u]
  PROVE  OrderInv' /\ CompleteInv'
<1>0. Passed(a) \in Seq(Tasks)
  BY PassedType DEF IInv
<1>1. /\ ToSet(Passed(a))' = ToSet(Passed(a)) \cup {t}
      /\ Len(Passed(a)) \in Nat /\ Len(Passed(a))' = Len(Passed(a)) + 1
      /\ \A i \in 1..Len(Passed(a)) :
           /\ Passed(a)'[i] = Passed(a)[i]
           /\ Passed(a)[i] \in ToSet(Passed(a)) /\ Passed(a)[i] < t
      /\ Passed(a)'[Len(Passed(a)) + 1] = t
  <2>1. /\ Len(Append(Passed(a), t)) = Len(Passed(a)) + 1
        /\ \A i \in 1..Len(Passed(a)) : Append(Passed(a), t)[i] = Passed(a)[i]
        /\ Append(Passed(a), t)[Len(Passed(a)) + 1] = t
    BY <1>0, AppendProperties
  <2>2. /\ ToSet(Append(Passed(a), t)) = ToSet(Passed(a)) \cup {t}
        /\ \A i \in 1..Len(Passed(a)) : Passed(a)[i] \in ToSet(Passed(a))
    BY <1>0, ToSetProperties
  <2>3. \A u \in ToSet(Passed(a)) : u < t
    BY DEF OrderInv
  <2>4. Len(Passed(a)) \in Nat
    BY <1>0, LenProperties
  <2> QED BY <2>1, <2>2, <2>3, <2>4
<1>2. \A u \in Tasks : pc'[u] \in {"delayed", "new"} => pc[u] \in {"delayed", "new"} /\ t < u
  <2>1. \A u \in Tasks : t < u \/ u < t \/ u = t
    BY DEF Tasks
  <2> QED BY <2>1 DEF InTurn, AtListener
<1>3. \A u \in Tasks : pc[u] \notin AtListener => pc'[u] \notin AtListener
  BY DEF AtListener
<1>4. ASSUME NEW b \in Addresses
      PROVE  /\ \A i, j \in 1..Len(Passed(b))' : i < j => Passed(b)'[i] < Passed(b)'[j]
             /\ \A v \in ToSet(Passed(b))' :
                  /\ v \in Tasks /\ addr[v] = b /\ pc'[v] \notin AtListener
                  /\ \A u \in Tasks : pc'[u] \in {"delayed", "new"} => v < u
  <2>1. CASE b = a
    <3>1. \A v \in ToSet(Passed(a)) \cup {t} :
             /\ v \in Tasks /\ addr[v] = a /\ pc'[v] \notin AtListener
             /\ \A u \in Tasks : pc'[u] \in {"delayed", "new"} => v < u
      BY <1>2, <1>3 DEF OrderInv
    <3>2. ASSUME NEW i \in 1..(Len(Passed(a)) + 1), NEW j \in 1..(Len(Passed(a)) + 1), i < j
          PROVE  Passed(a)'[i] < Passed(a)'[j]
      <4>1. i \in 1..Len(Passed(a)) /\ (j \in 1..Len(Passed(a)) \/ j = Len(Passed(a)) + 1)
        BY <1>1, <3>2
      <4>2. CASE j \in 1..Len(Passed(a))
        BY <1>1, <3>2, <4>1, <4>2 DEF OrderInv
      <4>3. CASE j = Len(Passed(a)) + 1
        BY <1>1, <4>1, <4>3
      <4> QED BY <4>1, <4>2, <4>3
    <3> QED BY <1>1, <2>1, <3>1, <3>2
  <2>2. CASE b # a
    <3>1. Passed(b)' = Passed(b)
      BY <2>2
    <3> QED BY <1>2, <1>3, <3>1 DEF OrderInv
  <2> QED BY <2>1, <2>2
<1>5. OrderInv'
  BY <1>4 DEF OrderInv
<1>6. CompleteInv'
  <2> SUFFICES ASSUME ~cancelled, NEW u \in Tasks, pc'[u] \notin AtListener
               PROVE  u \in ToSet(Passed(addr[u]))'
    BY DEF CompleteInv
  <2>1. CASE u = t
    BY <1>1, <2>1
  <2>2. CASE u # t
    <3>1. pc[u] \notin AtListener /\ addr[u] \in Addresses
      BY <2>2 DEF IInv, BornInv, AtListener
    <3>2. PICK b \in Addresses : b = addr[u]
      BY <3>1
    <3>3. u \in ToSet(Passed(b))
      BY <3>1, <3>2 DEF CompleteInv
    <3>4. u \in ToSet(Passed(b))'
      BY <1>1, <3>3
    <3> QED BY <3>2, <3>4
  <2> QED BY <2>1, <2>2
<1> QED BY <1>5, <1>6

LEMMA NextOrderInv == DeliveryInv /\ [Next]_vars => OrderInv' /\ CompleteInv'
<1> SUFFICES ASSUME DeliveryInv, [Next]_vars PROVE OrderInv' /\ CompleteInv'
  OBVIOUS
<1> USE DEF DeliveryInv
<1>1. CASE UNCHANGED vars
  <2>1. UNCHANGED <<cancelled, addr, pc>> /\ \A a \in Addresses : Passed(a)' = Passed(a)
    BY <1>1 DEF vars, Passed, Queued
  <2> QED BY <2>1, PassedFrame
<1>2. ASSUME NEW d \in Addresses, DatagramReceived(d) PROVE OrderInv' /\ CompleteInv'
  <2>1. /\ born + 1 \in Tasks /\ pc[born + 1] = "unborn"
        /\ \A t \in Tasks : pc[t] \notin AtListener => t < born + 1
    BY <1>2, DatagramsAssumption DEF DatagramReceived, IInv, TypeOK, BornInv, Tasks, AtListener
  <2>2. UNCHANGED <<cancelled>> /\ \A a \in Addresses : Passed(a)' = Passed(a)
    BY <1>2 DEF DatagramReceived, Passed, Queued
  <2>3. /\ \A u \in Tasks \ {born + 1} : pc'[u] = pc[u] /\ addr'[u] = addr[u]
        /\ pc'[born + 1] \in {"delayed", "new"}
    BY <1>2, <2>1 DEF DatagramReceived, IInv, TypeOK
  <2> QED BY <2>1, <2>2, <2>3, PassedFrame DEF AtListener
<1>3. ASSUME NEW d \in Addresses, Forget(d) PROVE OrderInv' /\ CompleteInv'
  <2>1. UNCHANGED <<cancelled, addr, pc, consumed, queue>> /\ cache' = [cache EXCEPT ![d] = None]
    BY <1>3 DEF Forget
  <2>2. \A a \in Addresses \ {d} : Passed(a)' = Passed(a)
    BY <2>1 DEF Passed, Queued, IInv, TypeOK
  <2>3. CASE ~cancelled
    <3>1. Queued(d) = <<>>
      <4>1. cache[d] \in Tasks /\ \A t \in Tasks : hold[t] # cache[d]
        BY <1>3 DEF Forget, Unreferenced, IInv, TypeOK
      <4> QED BY <2>3, <4>1 DEF Queued, BusyInv
    <3>2. Passed(d)' = Passed(d)
      BY <2>1, <3>1 DEF Passed, Queued, IInv, TypeOK
    <3> QED BY <2>1, <2>2, <3>2, PassedFrame
  <2>4. CASE cancelled
    <3>1. Passed(d)' = consumed[d] \o <<>>
      BY <2>1 DEF Passed, Queued, IInv, TypeOK
    <3>2. consumed[d] \in Seq(Tasks) /\ Queued(d) \in Seq(Tasks) /\ Passed(d) \in Seq(Tasks)
      BY PassedType DEF IInv
    <3>3. Passed(d)' = consumed[d]
      BY <3>1, <3>2, ConcatEmptySeq
    <3>4. /\ Len(consumed[d]) \in Nat /\ Len(Passed(d)) \in Nat /\ Len(consumed[d]) <= Len(Passed(d))
          /\ \A i \in 1..Len(consumed[d]) : consumed[d][i] = Passed(d)[i]
      BY <3>2, LenProperties, ConcatProperties DEF Passed
    <3>5. /\ \A i \in 1..Len(consumed[d]) : i \in 1..Len(Passed(d))
          /\ \A v \in ToSet(consumed[d]) : v \in ToSet(Passed(d))
      <4>1. \A i \in 1..Len(consumed[d]) : i \in 1..Len(Passed(d))
        BY <3>4
      <4>2. /\ \A v : v \in ToSet(consumed[d]) <=> \E i \in 1..Len(consumed[d]) : consumed[d][i] = v
            /\ \A v : v \in ToSet(Passed(d)) <=> \E i \in 1..Len(Passed(d)) : Passed(d)[i] = v
        BY <3>2, ToSetProperties
      <4> QED BY <3>4, <4>1, <4>2
    <3>6. OrderInv'
      <4> SUFFICES ASSUME NEW b \in Addresses
                   PROVE  /\ \A i, j \in 1..Len(Passed(b))' : i < j => Passed(b)'[i] < Passed(b)'[j]
                          /\ \A v \in ToSet(Passed(b))' :
                               /\ v \in Tasks /\ addr'[v] = b /\ pc'[v] \notin AtListener
                               /\ \A u \in Tasks : pc'[u] \in {"delayed", "new"} => v < u
        BY DEF OrderInv
      <4>1. CASE b = d
        BY <2>1, <3>3, <3>4, <3>5, <4>1 DEF OrderInv
      <4>2. CASE b # d
        BY <2>1, <2>2, <4>2 DEF OrderInv
      <4> QED BY <4>1, <4>2
    <3> QED BY <2>1, <2>4, <3>6 DEF CompleteInv
  <2> QED BY <2>3, <2>4
<1>4. CASE Serve \/ ConnectionLost \/ Cancel
  <2>1. /\ \A t \in Tasks : pc'[t] # pc[t] => pc[t] = "delayed" /\ pc'[t] \in {"new", "dropped"}
        /\ UNCHANGED <<addr, cache, queue, consumed>> /\ (cancelled => cancelled')
    BY <1>4 DEF Serve, ConnectionLost, Cancel, IInv, TypeOK
  <2>2. \A a \in Addresses : Passed(a)' = Passed(a)
    BY <2>1 DEF Passed, Queued
  <2> QED BY <2>1, <2>2, PassedFrame DEF AtListener
<1>5. ASSUME NEW t \in Tasks, HandlerStart(t) PROVE OrderInv' /\ CompleteInv'
  <2>1. /\ pc[t] = "new" /\ InTurn(t) /\ UNCHANGED <<cancelled, addr>> /\ addr[t] \in Addresses
        /\ pc'[t] \notin AtListener /\ \A u \in Tasks \ {t} : pc'[u] = pc[u]
    BY <1>5 DEF HandlerStart, IInv, TypeOK, BornInv, AtListener
  <2>2. \A u \in Tasks : pc[u] # "delayed"
    BY <2>1 DEF SetupInv
  <2>3. PICK a \in Addresses : addr[t] = a
    BY <2>1
  <2>4. /\ Passed(a)' = Append(Passed(a), t)
        /\ \A b \in Addresses \ {a} : Passed(b)' = Passed(b)
    BY <1>5, <2>3, HandlerStartPassed
  <2> QED BY <2>1, <2>2, <2>3, <2>4, StartFrame
<1>6. ASSUME NEW t \in Tasks,
             \/ HandlerNotify(t) \/ PendingStart(t) \/ PopDatagram(t) \/ WakeUp(t)
             \/ GeneratorStep(t) \/ InterruptPop(t) \/ TaskCancelled(t)
      PROVE  OrderInv' /\ CompleteInv'
  <2>1. \A a \in Addresses : Passed(a)' = Passed(a)
    BY <1>6, TaskPassed
  <2>2. UNCHANGED <<cancelled, addr>>
    BY <1>6 DEF HandlerNotify, PendingStart, PopDatagram, WakeUp, GeneratorStep, FirstYield, NextYield,
                CoroutineEnd, InterruptPop, TaskCancelled
  <2>3. CASE HandlerNotify(t)
    <3>1. \A u \in Tasks : pc'[u] # pc[u] => pc[u] \notin AtListener /\ pc'[u] \notin AtListener
      BY <2>3 DEF HandlerNotify, Notified, IInv, TypeOK, AtListener
    <3> QED BY <2>1, <2>2, <3>1, PassedFrame DEF AtListener
  <2>4. CASE ~HandlerNotify(t)
    <3>1. /\ pc'[t] \notin AtListener /\ \A u \in Tasks \ {t} : pc'[u] = pc[u]
          /\ ~cancelled => pc[t] \notin AtListener
      BY <1>6, <2>4 DEF PendingStart, PopDatagram, WakeUp, GeneratorStep, FirstYield, NextYield,
                  CoroutineEnd, InterruptPop, TaskCancelled, IInv, TypeOK, AtListener
    <3> QED BY <2>1, <2>2, <3>1, PassedFrame DEF AtListener
  <2> QED BY <2>3, <2>4
<1> QED BY <1>1, <1>2, <1>3, <1>4, <1>5, <1>6 DEF Next, TaskStep

LEMMA InitDeliveryInv == Init => DeliveryInv
<1> SUFFICES ASSUME Init PROVE DeliveryInv
  OBVIOUS
<1>1. SetupInv /\ BusyInv /\ FreshQueueInv
  BY DEF Init, SetupInv, BusyInv, FreshQueueInv
<1>2. \A a \in Addresses : Passed(a) = <<>>
  <2> SUFFICES ASSUME NEW a \in Addresses PROVE Passed(a) = <<>>
    OBVIOUS
  <2>1. Passed(a) = <<>> \o <<>>
    BY DEF Init, Passed, Queued
  <2>2. <<>> \o <<>> = <<>>
    BY EmptySeq, ConcatEmptySeq
  <2> QED BY <2>1, <2>2
<1>3. Len(<<>>) = 0 /\ ToSet(<<>>) = {}
  BY DEF ToSet
<1>4. OrderInv
  BY <1>2, <1>3 DEF OrderInv
<1>5. CompleteInv
  BY DEF Init, CompleteInv, AtListener
<1> QED BY <1>1, <1>4, <1>5, InitIInv DEF DeliveryInv

LEMMA Delivered == Spec => []DeliveryInv
<1>1. DeliveryInv /\ [Next]_vars => DeliveryInv'
  BY NextIInv, NextSetupInv, NextBusyInv, NextOrderInv DEF DeliveryInv
<1> QED BY <1>1, InitDeliveryInv, PTL DEF Spec

\* handler(), push_datagram() and pop_datagram(): while the server runs, the datagrams
\* of a client leave the listener in order of arrival, and each of them is given to a
\* generator or queued, exactly once; and no coroutine sleeps over a queued datagram.
THEOREM DatagramsAreInPlace == Spec => []DatagramsInPlace
<1>1. DeliveryInv => NothingLostOrReordered
  <2> SUFFICES ASSUME DeliveryInv, ~cancelled, NEW a \in Addresses
               PROVE  /\ \A i, j \in DOMAIN Passed(a) : i < j => Passed(a)[i] < Passed(a)[j]
                      /\ ToSet(Passed(a)) = {t \in 1..born : addr[t] = a /\ pc[t] \notin {"delayed", "new", "dropped"}}
                      /\ \A t \in ToSet(Passed(a)), u \in 1..born :
                           addr[u] = a /\ pc[u] \in {"delayed", "new"} => t < u
    BY DEF NothingLostOrReordered
  <2>1. DOMAIN Passed(a) = 1..Len(Passed(a))
    BY PassedType, LenProperties DEF DeliveryInv, IInv
  <2>2. \A t : t \in 1..born <=> t \in Tasks /\ pc[t] # "unborn"
    BY DatagramsAssumption DEF DeliveryInv, IInv, TypeOK, BornInv, Tasks
  <2>3. \A t \in Tasks : t \in ToSet(Passed(a)) <=> addr[t] = a /\ pc[t] \notin AtListener
    BY DEF DeliveryInv, OrderInv, CompleteInv
  <2>4. ToSet(Passed(a)) \subseteq Tasks
    BY DEF DeliveryInv, OrderInv
  <2> QED BY <2>1, <2>2, <2>3, <2>4 DEF DeliveryInv, OrderInv, AtListener
<1> QED BY <1>1, Delivered, WakeupsReachCoroutines, PTL DEF DatagramsInPlace

-----------------------------------------------------------------------------
(* DatagramServer implements OrderedDelivery *)

\* The values of the abstract variables.
ReceivedOf(a) == Cardinality({t \in 1..born : addr[t] = a})
GivenOf(a) == [i \in DOMAIN consumed[a] |-> Rank(consumed[a][i])]
GeneratorsOf(a) == Cardinality({t \in Tasks : pc[t] \in Running /\ addr[t] = a})

\* The ranks of the datagrams of a client follow their order of arrival, without a gap.
LEMMA RankProperties ==
  ASSUME NEW a, born \in Nat, NEW y \in 1..born, addr[y] = a
  PROVE  /\ Rank(y) \in 1..ReceivedOf(a) /\ ReceivedOf(a) \in Nat
         /\ \A x \in 1..born : x < y /\ addr[x] = a =>
              /\ Rank(x) \in Nat /\ Rank(x) < Rank(y)
              /\ (\A z \in 1..born : addr[z] = a => z <= x \/ y <= z) => Rank(y) = Rank(x) + 1
         /\ (\A z \in 1..born : addr[z] = a => y <= z) => Rank(y) = 1
<1> DEFINE Of(n) == {u \in 1..n : addr[u] = a}
<1>1. \A n \in 1..born : IsFiniteSet(Of(n)) /\ Cardinality(Of(n)) \in Nat
  <2> TAKE n \in 1..born
  <2>1. IsFiniteSet(1..n) /\ Of(n) \in SUBSET (1..n)
    BY FS_Interval
  <2> QED BY <2>1, FS_Subset, FS_CardinalityType
<1>2. \A x \in 1..born : addr[x] = a => Rank(x) = Cardinality(Of(x))
  BY DEF Rank
<1>3. ReceivedOf(a) = Cardinality(Of(born)) /\ born \in 1..born
  BY DEF ReceivedOf
<1>4. ASSUME NEW m \in 1..born, NEW n \in 1..born, m <= n
      PROVE  /\ Cardinality(Of(m)) <= Cardinality(Of(n))
             /\ Cardinality(Of(m)) = Cardinality(Of(n)) => Of(m) = Of(n)
  <2>1. Of(m) \in SUBSET Of(n) /\ IsFiniteSet(Of(n))
    BY <1>1, <1>4
  <2>2. /\ Cardinality(Of(m)) <= Cardinality(Of(n))
        /\ Cardinality(Of(n)) = Cardinality(Of(m)) => Of(n) = Of(m)
    BY <2>1, FS_Subset
  <2> QED BY <2>2
<1>5. y \in Of(y) /\ Cardinality(Of(y)) # 0
  <2>1. y \in Of(y)
    OBVIOUS
  <2>2. Of(y) # {} /\ IsFiniteSet(Of(y))
    BY <1>1, <2>1
  <2> QED BY <2>1, <2>2, FS_EmptySet
<1>6. Rank(y) \in 1..ReceivedOf(a) /\ ReceivedOf(a) \in Nat
  <2>1. y <= born /\ Rank(y) = Cardinality(Of(y))
    BY <1>2
  <2> HIDE DEF Of
  <2>2. Cardinality(Of(y)) \in Nat \ {0} /\ Cardinality(Of(born)) \in Nat
    BY <1>1, <1>3, <1>5
  <2>3. Cardinality(Of(y)) <= Cardinality(Of(born))
    BY <1>3, <1>4, <2>1
  <2> QED BY <1>3, <2>1, <2>2, <2>3
<1>7. ASSUME NEW x \in 1..born, x < y, addr[x] = a
      PROVE  /\ Rank(x) \in Nat /\ Rank(x) < Rank(y)
             /\ (\A z \in 1..born : addr[z] = a => z <= x \/ y <= z) => Rank(y) = Rank(x) + 1
  <2>1. y \notin Of(x) /\ x <= y
    BY <1>7
  <2>2. Rank(x) \in Nat /\ Rank(x) < Rank(y)
    <3>1. Rank(x) = Cardinality(Of(x)) /\ Rank(y) = Cardinality(Of(y)) /\ Of(x) # Of(y)
      BY <1>2, <1>5, <1>7, <2>1
    <3> HIDE DEF Of
    <3>2. Cardinality(Of(x)) \in Nat /\ Cardinality(Of(y)) \in Nat
      BY <1>1
    <3>3. Cardinality(Of(x)) <= Cardinality(Of(y)) /\ Cardinality(Of(x)) # Cardinality(Of(y))
      BY <1>4, <2>1, <3>1
    <3> QED BY <3>1, <3>2, <3>3
  <2>3. ASSUME \A z \in 1..born : addr[z] = a => z <= x \/ y <= z PROVE Rank(y) = Rank(x) + 1
    <3>1. Of(y) = Of(x) \cup {y}
      BY <1>7, <2>3
    <3>2. Cardinality(Of(x) \cup {y}) = Cardinality(Of(x)) + 1
      BY <1>1, <2>1, FS_AddElement
    <3> QED BY <1>2, <1>7, <3>1, <3>2
  <2> QED BY <2>2, <2>3
<1>8. ASSUME \A z \in 1..born : addr[z] = a => y <= z PROVE Rank(y) = 1
  <2>1. Of(y) = {y}
    BY <1>8
  <2> QED BY <1>2, <2>1, FS_Singleton
<1> QED BY <1>6, <1>7, <1>8

\* What is given is a sequence of ranks, as long as what is consumed.
GivenTyped ==
  \A a \in Addresses :
         /\ GivenOf(a) \in Seq(Nat) /\ Len(GivenOf(a)) = Len(consumed[a]) /\ Len(consumed[a]) \in Nat
         /\ \A i \in 1..Len(consumed[a]) :
              /\ GivenOf(a)[i] = Rank(consumed[a][i])
              /\ consumed[a][i] = Passed(a)[i] /\ i \in 1..Len(Passed(a))
              /\ consumed[a][i] \in 1..born /\ addr[consumed[a][i]] = a

LEMMA GivenType == IInv /\ OrderInv => GivenTyped
<1> SUFFICES ASSUME IInv, OrderInv, NEW a \in Addresses
    PROVE  /\ GivenOf(a) \in Seq(Nat) /\ Len(GivenOf(a)) = Len(consumed[a]) /\ Len(consumed[a]) \in Nat
           /\ \A i \in 1..Len(consumed[a]) :
                /\ GivenOf(a)[i] = Rank(consumed[a][i])
                /\ consumed[a][i] = Passed(a)[i] /\ i \in 1..Len(Passed(a))
                /\ consumed[a][i] \in 1..born /\ addr[consumed[a][i]] = a
  BY DEF GivenTyped
<1>1. consumed[a] \in Seq(Tasks) /\ Queued(a) \in Seq(Tasks) /\ Passed(a) \in Seq(Tasks)
  BY PassedType DEF IInv
<1>2. /\ Len(consumed[a]) \in Nat /\ DOMAIN consumed[a] = 1..Len(consumed[a])
      /\ Len(Passed(a)) = Len(consumed[a]) + Len(Queued(a)) /\ Len(Queued(a)) \in Nat
      /\ \A i \in 1..Len(consumed[a]) : consumed[a][i] = Passed(a)[i]
  BY <1>1, LenProperties, ConcatProperties DEF Passed
<1>3. \A t \in ToSet(Passed(a)) : t \in 1..born /\ addr[t] = a
  BY DatagramsAssumption DEF OrderInv, IInv, TypeOK, BornInv, AtListener, Tasks
<1>4. \A i \in 1..Len(consumed[a]) : /\ consumed[a][i] \in 1..born /\ addr[consumed[a][i]] = a
                                     /\ i \in 1..Len(Passed(a))
  <2>1. \A i \in 1..Len(Passed(a)) : Passed(a)[i] \in ToSet(Passed(a))
    BY <1>1, ToSetProperties
  <2> QED BY <1>2, <1>3, <2>1
<1>5. born \in Nat
  BY DEF IInv, TypeOK
<1>6. \A t \in 1..born : addr[t] = a => Rank(t) \in Nat
  BY <1>5, RankProperties
<1>7. GivenOf(a) \in [1..Len(consumed[a]) -> Nat]
  BY <1>2, <1>4, <1>6 DEF GivenOf
<1>8. GivenOf(a) \in Seq(Nat)
  BY <1>2, <1>7, SeqDef
<1>9. Len(GivenOf(a)) = Len(consumed[a])
  <2>1. Len(GivenOf(a)) \in Nat /\ DOMAIN GivenOf(a) = 1..Len(GivenOf(a))
    BY <1>8, LenProperties
  <2>2. 1..Len(GivenOf(a)) = 1..Len(consumed[a])
    BY <1>7, <2>1
  <2> QED BY <1>2, <2>1, <2>2
<1> QED BY <1>2, <1>4, <1>8, <1>9 DEF GivenOf

LEMMA GivenTypeNext == (IInv /\ OrderInv)' => GivenTyped'
BY GivenType, PTL

LastGivenOf(a) == IF GivenOf(a) = <<>> THEN 0 ELSE GivenOf(a)[Len(GivenOf(a))]

\* The next datagram of a client, as the generators of the client see it.
GivesNext(a) ==
  /\ \A b \in Addresses \ {a} : GivenOf(b)' = GivenOf(b)
  /\ \E d \in (LastGivenOf(a) + 1)..ReceivedOf(a) :
       /\ ~cancelled => d = LastGivenOf(a) + 1
       /\ GivenOf(a)' = Append(GivenOf(a), d)

\* A generator that takes a datagram takes the next one, or a later one of a stopped server.
LEMMA GiveStep ==
  ASSUME DeliveryInv, DeliveryInv', UNCHANGED <<addr, born, cancelled>>,
         NEW a \in Addresses, NEW x \in Tasks, consumed' = [consumed EXCEPT ![a] = Append(@, x)]
  PROVE  GivesNext(a)
<1> DEFINE n == Len(consumed[a])
<1>0. Passed(a)' \in Seq(Tasks)
  <2>1. Queued(a)' \in Seq(Tasks) /\ consumed'[a] \in Seq(Tasks)
    BY EmptySeq DEF Queued, DeliveryInv, IInv, TypeOK
  <2> QED BY <2>1, ConcatProperties DEF Passed
<1>1. GivenTyped /\ GivenTyped' /\ born \in Nat
  BY GivenType, GivenTypeNext DEF DeliveryInv, IInv, TypeOK
<1>2. /\ consumed'[a] = Append(consumed[a], x) /\ \A b \in Addresses \ {a} : consumed'[b] = consumed[b]
      /\ n \in Nat /\ Len(consumed'[a]) = n + 1 /\ consumed'[a][n + 1] = x
      /\ \A i \in 1..n : consumed'[a][i] = consumed[a][i]
  <2>1. /\ consumed'[a] = Append(consumed[a], x) /\ \A b \in Addresses \ {a} : consumed'[b] = consumed[b]
        /\ consumed[a] \in Seq(Tasks)
    BY DEF DeliveryInv, IInv, TypeOK
  <2>2. /\ Len(Append(consumed[a], x)) = n + 1 /\ Append(consumed[a], x)[n + 1] = x
        /\ \A i \in 1..n : Append(consumed[a], x)[i] = consumed[a][i]
    BY <2>1, AppendProperties
  <2>3. n \in Nat
    BY <2>1, LenProperties
  <2> QED BY <2>1, <2>2, <2>3
<1>3. /\ x \in 1..born /\ addr[x] = a
      /\ n + 1 \in 1..Len(Passed(a))' /\ Passed(a)'[n + 1] = x
      /\ \A i \in 1..n : i \in 1..Len(Passed(a))' /\ Passed(a)'[i] = consumed[a][i]
      /\ \A i \in 1..n : consumed[a][i] \in 1..born /\ addr[consumed[a][i]] = a
  <2>1. \A i \in 1..(n + 1) :
          /\ consumed'[a][i] = Passed(a)'[i] /\ i \in 1..Len(Passed(a))'
          /\ consumed'[a][i] \in 1..born /\ addr[consumed'[a][i]] = a
    BY <1>1, <1>2 DEF GivenTyped
  <2>2. n + 1 \in 1..(n + 1) /\ \A i \in 1..n : i \in 1..(n + 1)
    BY <1>2
  <2> QED BY <1>2, <2>1, <2>2
<1>4. ASSUME ~cancelled, NEW z \in 1..born, addr[z] = a
      PROVE  x <= z \/ \E i \in 1..n : z = consumed[a][i]
  <2>1. z \in Tasks /\ pc'[z] # "unborn" /\ pc'[x] \notin AtListener
    <3>1. \E i \in 1..Len(Passed(a))' : Passed(a)'[i] = x
      BY <1>3
    <3>3. x \in ToSet(Passed(a)')
      BY <1>0, <3>1, ToSetProperties
    <3> QED BY <3>3, DatagramsAssumption DEF DeliveryInv, OrderInv, IInv, TypeOK, BornInv, Tasks
  <2>2. CASE pc'[z] \in {"delayed", "new"}
    <3>1. x < z
      <4>1. x \in ToSet(Passed(a)')
        BY <1>0, <1>3, ToSetProperties
      <4> QED BY <2>1, <2>2, <4>1 DEF DeliveryInv, OrderInv
    <3> QED BY <3>1 DEF Tasks
  <2>3. CASE pc'[z] = "dropped"
    BY <2>1, <2>3 DEF DeliveryInv, SetupInv, AtListener
  <2>4. CASE pc'[z] \notin AtListener
    <3>1. z \in ToSet(Passed(addr[z]))'
      BY <1>4, <2>1, <2>4 DEF DeliveryInv, CompleteInv
    <3>3. z \in ToSet(Passed(a)')
      BY <1>4, <3>1
    <3>4. PICK k \in 1..Len(Passed(a)') : Passed(a)'[k] = z
      BY <1>0, <3>3, ToSetProperties
    <3>5. Len(Passed(a)') \in Nat
      BY <1>0, LenProperties
    <3>6. CASE k <= n
      BY <1>3, <3>4, <3>5, <3>6
    <3>7. CASE k = n + 1
      BY <1>3, <3>4, <3>7 DEF Tasks
    <3>8. CASE k > n + 1
      <4>1. x < z
        BY <1>2, <1>3, <3>4, <3>5, <3>8 DEF DeliveryInv, OrderInv
      <4> QED BY <4>1 DEF Tasks
    <3> QED BY <1>2, <3>5, <3>6, <3>7, <3>8
  <2> QED BY <2>1, <2>2, <2>3, <2>4 DEF AtListener
<1>5. \A i \in 1..n : consumed[a][i] < x /\ (i < n => consumed[a][i] < consumed[a][n])
  <2>1. \A i \in 1..n : i < n + 1 /\ (i < n => n \in 1..n)
    BY <1>2
  <2> QED BY <1>3, <2>1 DEF DeliveryInv, OrderInv
<1>6. /\ \A b \in Addresses : ReceivedOf(b)' = ReceivedOf(b)
      /\ \A t : Rank(t)' = Rank(t)
  BY DEF ReceivedOf, Rank
<1>7. GivenOf(a)' = Append(GivenOf(a), Rank(x))
  <2>1. /\ GivenOf(a) \in Seq(Nat) /\ Len(GivenOf(a)) = n /\ GivenOf(a)' \in Seq(Nat) /\ Len(GivenOf(a)') = n + 1
        /\ \A i \in 1..n : GivenOf(a)[i] = Rank(consumed[a][i])
        /\ \A i \in 1..(n + 1) : GivenOf(a)'[i] = Rank(consumed'[a][i])
    <3>1. \A i \in 1..(n + 1) : GivenOf(a)'[i] = Rank(consumed[a][i])'
      BY <1>1, <1>2 DEF GivenTyped
    <3>2. \A i \in 1..(n + 1) : Rank(consumed[a][i])' = Rank(consumed'[a][i])
      BY DEF Rank
    <3> QED BY <1>1, <1>2, <3>1, <3>2 DEF GivenTyped
  <2>2. Rank(x) \in Nat
    BY <1>1, <1>3, RankProperties
  <2>3. /\ Append(GivenOf(a), Rank(x)) \in Seq(Nat) /\ Len(Append(GivenOf(a), Rank(x))) = n + 1
        /\ \A i \in 1..n : Append(GivenOf(a), Rank(x))[i] = GivenOf(a)[i]
        /\ Append(GivenOf(a), Rank(x))[n + 1] = Rank(x)
    BY <2>1, <2>2, AppendProperties
  <2>4. \A i \in 1..(n + 1) : Append(GivenOf(a), Rank(x))[i] = GivenOf(a)'[i]
    <3> TAKE i \in 1..(n + 1)
    <3>1. CASE i \in 1..n
      <4>1. consumed'[a][i] = consumed[a][i]
        BY <1>2, <3>1
      <4>2. GivenOf(a)'[i] = Rank(consumed[a][i])
        BY <2>1, <4>1
      <4> QED BY <2>1, <2>3, <3>1, <4>2
    <3>2. CASE i = n + 1
      <4>1. GivenOf(a)'[n + 1] = Rank(x)
        BY <1>2, <2>1, <3>2
      <4> QED BY <2>3, <3>2, <4>1
    <3>3. i \in 1..n \/ i = n + 1
      BY <1>2
    <3> QED BY <3>1, <3>2, <3>3
  <2> QED BY <2>1, <2>3, <2>4, SeqEqual
<1>8. \A b \in Addresses \ {a} : GivenOf(b)' = GivenOf(b)
  BY <1>2, <1>6 DEF GivenOf
<1>9. /\ Rank(x) \in (LastGivenOf(a) + 1)..ReceivedOf(a)
      /\ ~cancelled => Rank(x) = LastGivenOf(a) + 1
  <2>1. Rank(x) \in 1..ReceivedOf(a) /\ ReceivedOf(a) \in Nat
    BY <1>1, <1>3, RankProperties
  <2>2. CASE n = 0
    <3>1. LastGivenOf(a) = 0
      <4>1. GivenOf(a) = <<>>
        BY <1>1, <2>2, EmptySeq DEF GivenTyped
      <4> QED BY <4>1 DEF LastGivenOf
    <3>2. ASSUME ~cancelled PROVE Rank(x) = 1
      <4>1. \A z \in 1..born : addr[z] = a => x <= z
        BY <1>4, <2>2, <3>2
      <4> QED BY <1>1, <1>3, <4>1, RankProperties
    <3> QED BY <2>1, <3>1, <3>2
  <2>3. CASE n # 0
    <3>0. n \in 1..n /\ consumed[a][n] \in 1..born
      BY <1>2, <1>3, <2>3
    <3>. PICK y \in 1..born : y = consumed[a][n]
      BY <3>0
    <3>1. addr[y] = a /\ y < x
      BY <1>3, <1>5, <3>0
    <3>2. LastGivenOf(a) = Rank(y)
      <4>1. GivenOf(a) # <<>> /\ Len(GivenOf(a)) = n /\ GivenOf(a)[n] = Rank(y)
        BY <1>1, <2>3, <3>0, EmptySeq DEF GivenTyped
      <4> QED BY <4>1 DEF LastGivenOf
    <3>3. ASSUME ~cancelled PROVE \A z \in 1..born : addr[z] = a => z <= y \/ x <= z
      <4> SUFFICES ASSUME NEW z \in 1..born, addr[z] = a, ~(x <= z) PROVE z <= y
        OBVIOUS
      <4>1. PICK i \in 1..n : z = consumed[a][i]
        BY <1>4, <3>3
      <4>2. CASE i = n
        BY <1>1, <4>1, <4>2
      <4>3. CASE i < n
        BY <1>5, <4>1, <4>3
      <4> QED BY <1>2, <4>1, <4>2, <4>3
    <3>4. Rank(y) \in Nat /\ Rank(y) < Rank(x) /\ (~cancelled => Rank(x) = Rank(y) + 1)
      <4>1. \A w \in 1..born : w < x /\ addr[w] = a =>
              /\ Rank(w) \in Nat /\ Rank(w) < Rank(x)
              /\ (\A z \in 1..born : addr[z] = a => z <= w \/ x <= z) => Rank(x) = Rank(w) + 1
        BY <1>1, <1>3, RankProperties
      <4> QED BY <3>1, <3>3, <4>1
    <3> QED BY <2>1, <3>2, <3>4
  <2> QED BY <2>2, <2>3
<1> QED BY <1>6, <1>7, <1>8, <1>9 DEF GivesNext

\* The steps of the abstract specification, by what they do to the abstract variables.
LEMMA SimulateStutter ==
  ASSUME UNCHANGED cancelled,
         \A b \in Addresses : ReceivedOf(b)' = ReceivedOf(b) /\ GivenOf(b)' = GivenOf(b) /\ GeneratorsOf(b)' = GeneratorsOf(b)
  PROVE  UNCHANGED Delivery!vars
BY DEF Delivery!vars, ReceivedOf, GivenOf, GeneratorsOf

LEMMA SimulateGive ==
  ASSUME NEW a \in Addresses, GivesNext(a)
  PROVE  Delivery!Give(a)
<1>1. PICK d \in (LastGivenOf(a) + 1)..ReceivedOf(a) :
        (~cancelled => d = LastGivenOf(a) + 1) /\ GivenOf(a)' = Append(GivenOf(a), d)
  BY DEF GivesNext
<1>2. [b \in Addresses |-> GivenOf(b)]' = [[b \in Addresses |-> GivenOf(b)] EXCEPT ![a] = Append(@, d)]
  BY <1>1 DEF GivesNext
<1>3. Delivery!LastGiven(a) = LastGivenOf(a)
  BY DEF Delivery!LastGiven, LastGivenOf, GivenOf
<1> QED BY <1>1, <1>2, <1>3 DEF Delivery!Give, ReceivedOf, GivenOf

LEMMA SimulateStart ==
  ASSUME NEW a \in Addresses, GivesNext(a), UNCHANGED cancelled,
         \A b \in Addresses : ReceivedOf(b)' = ReceivedOf(b),
         \A b \in Addresses \ {a} : GeneratorsOf(b)' = GeneratorsOf(b),
         GeneratorsOf(a) \in {0, 1}, GeneratorsOf(a)' = 1
  PROVE  Delivery!Next
<1>1. Delivery!Give(a)
  BY SimulateGive
<1>2. CASE GeneratorsOf(a) = 0
  <2>1. Delivery!Start(a)
    <3>1. [b \in Addresses |-> GeneratorsOf(b)]' = [[b \in Addresses |-> GeneratorsOf(b)] EXCEPT ![a] = 1]
      OBVIOUS
    <3> QED BY <1>1, <1>2, <3>1 DEF Delivery!Start, ReceivedOf, GeneratorsOf
  <2> QED BY <2>1 DEF Delivery!Next
<1>3. CASE GeneratorsOf(a) = 1
  <2>1. Delivery!Continue(a)
    BY <1>1, <1>3 DEF Delivery!Continue, ReceivedOf, GeneratorsOf
  <2> QED BY <2>1 DEF Delivery!Next
<1> QED BY <1>2, <1>3

LEMMA SimulateFinish ==
  ASSUME NEW a \in Addresses, UNCHANGED cancelled,
         \A b \in Addresses : ReceivedOf(b)' = ReceivedOf(b) /\ GivenOf(b)' = GivenOf(b),
         \A b \in Addresses \ {a} : GeneratorsOf(b)' = GeneratorsOf(b),
         GeneratorsOf(a) = 1, GeneratorsOf(a)' = 0
  PROVE  Delivery!Next
<1>1. [b \in Addresses |-> GeneratorsOf(b)]' = [[b \in Addresses |-> GeneratorsOf(b)] EXCEPT ![a] = 0]
  OBVIOUS
<1>2. Delivery!Finish(a)
  BY <1>1 DEF Delivery!Finish, ReceivedOf, GivenOf, GeneratorsOf
<1> QED BY <1>2 DEF Delivery!Next

LEMMA SimulateArrive ==
  ASSUME NEW a \in Addresses, UNCHANGED cancelled, ~cancelled,
         \A b \in Addresses : GivenOf(b)' = GivenOf(b) /\ GeneratorsOf(b)' = GeneratorsOf(b),
         \A b \in Addresses \ {a} : ReceivedOf(b)' = ReceivedOf(b),
         ReceivedOf(a)' = ReceivedOf(a) + 1
  PROVE  Delivery!Next
<1>1. [b \in Addresses |-> ReceivedOf(b)]' = [[b \in Addresses |-> ReceivedOf(b)] EXCEPT ![a] = @ + 1]
  OBVIOUS
<1>2. Delivery!Arrive(a)
  BY <1>1 DEF Delivery!Arrive, ReceivedOf, GivenOf, GeneratorsOf
<1> QED BY <1>2 DEF Delivery!Next

\* A client has a generator exactly while one of its coroutines runs.
GeneratorsInv ==
  \A a \in Addresses :
    /\ (\A t \in Tasks : ~(pc[t] \in Running /\ addr[t] = a)) => GeneratorsOf(a) = 0
    /\ \A t \in Tasks : pc[t] \in Running /\ addr[t] = a => GeneratorsOf(a) = 1

LEMMA GeneratorsProperties == IInv => GeneratorsInv
<1> SUFFICES ASSUME IInv, NEW a \in Addresses
             PROVE  /\ (\A t \in Tasks : ~(pc[t] \in Running /\ addr[t] = a)) => GeneratorsOf(a) = 0
                    /\ \A t \in Tasks : pc[t] \in Running /\ addr[t] = a => GeneratorsOf(a) = 1
  BY DEF GeneratorsInv
<1> DEFINE G == {t \in Tasks : pc[t] \in Running /\ addr[t] = a}
<1>1. GeneratorsOf(a) = Cardinality(G)
  BY DEF GeneratorsOf
<1>2. ASSUME \A t \in Tasks : ~(pc[t] \in Running /\ addr[t] = a) PROVE GeneratorsOf(a) = 0
  <2>1. G = {}
    BY <1>2
  <2> HIDE DEF G
  <2> QED BY <1>1, <2>1, FS_EmptySet
<1>3. ASSUME NEW t \in Tasks, pc[t] \in Running, addr[t] = a PROVE GeneratorsOf(a) = 1
  <2>1. G = {t}
    BY <1>3 DEF IInv, HoldInv, CoroutineInv, Coroutine
  <2> HIDE DEF G
  <2> QED BY <1>1, <2>1, FS_Singleton
<1> QED BY <1>2, <1>3

LEMMA GeneratorsNext == IInv' => GeneratorsInv'
BY GeneratorsProperties, PTL

\* What a step leaves as it was, when it brings no datagram, gives none, and keeps the
\* running coroutines except perhaps that of task t.
LEMMA SimulatedFrame ==
  ASSUME UNCHANGED <<born, addr>>
  PROVE  /\ \A b \in Addresses : ReceivedOf(b)' = ReceivedOf(b)
         /\ UNCHANGED consumed => \A b \in Addresses : GivenOf(b)' = GivenOf(b)
<1>1. \A t : Rank(t)' = Rank(t)
  BY DEF Rank
<1> QED BY <1>1 DEF ReceivedOf, GivenOf

LEMMA RunningFrame ==
  ASSUME UNCHANGED addr, NEW t \in Tasks, \A u \in Tasks \ {t} : pc'[u] \in Running <=> pc[u] \in Running
  PROVE  /\ \A b \in Addresses \ {addr[t]} : GeneratorsOf(b)' = GeneratorsOf(b)
         /\ (pc'[t] \in Running <=> pc[t] \in Running) => \A b \in Addresses : GeneratorsOf(b)' = GeneratorsOf(b)
<1>1. ASSUME NEW b, b # addr[t] \/ (pc'[t] \in Running <=> pc[t] \in Running)
      PROVE  GeneratorsOf(b)' = GeneratorsOf(b)
  <2>1. {u \in Tasks : pc'[u] \in Running /\ addr'[u] = b} = {u \in Tasks : pc[u] \in Running /\ addr[u] = b}
    BY <1>1
  <2> QED BY <2>1 DEF GeneratorsOf
<1> QED BY <1>1

\* The datagram that arrives is counted, and changes no rank.
LEMMA ArriveSimulated ==
  ASSUME DeliveryInv, NEW a \in Addresses, DatagramReceived(a)
  PROVE  Delivery!Next
<1> DEFINE m == born + 1
<1>1. /\ m \in Tasks /\ pc[m] = "unborn" /\ born \in Nat /\ born' = m /\ UNCHANGED <<cancelled, consumed>>
      /\ \A t \in Tasks \ {m} : addr'[t] = addr[t] /\ pc'[t] = pc[t]
      /\ addr'[m] = a /\ pc'[m] \in {"new", "delayed"} /\ listener # "closed"
  BY DatagramsAssumption DEF DatagramReceived, DeliveryInv, IInv, TypeOK, BornInv, Tasks
<1>2. ~cancelled
  BY <1>1 DEF DeliveryInv, SetupInv
<1>3. \A t \in 1..born : t \in Tasks \ {m}
  BY <1>1, DatagramsAssumption DEF Tasks
<1>4. ASSUME NEW b \in Addresses PROVE GeneratorsOf(b)' = GeneratorsOf(b)
  <2>1. {u \in Tasks : pc'[u] \in Running /\ addr'[u] = b} = {u \in Tasks : pc[u] \in Running /\ addr[u] = b}
    BY <1>1 DEF Running
  <2> QED BY <2>1 DEF GeneratorsOf
<1>5. ASSUME NEW b \in Addresses PROVE GivenOf(b)' = GivenOf(b)
  <2>1. \A i \in DOMAIN consumed[b] : consumed[b][i] \in 1..born
    <3>1. consumed[b] \in Seq(Tasks)
      BY DEF DeliveryInv, IInv, TypeOK
    <3> QED BY <3>1, LenProperties, GivenType DEF DeliveryInv, GivenTyped
  <2>2. ASSUME NEW t \in 1..born PROVE Rank(t)' = Rank(t)
    <3>1. \A u \in 1..t : addr'[u] = addr[u]
      BY <1>1, <1>3
    <3>2. addr'[t] = addr[t]
      BY <1>1, <1>3
    <3>3. {u \in 1..t : addr'[u] = addr'[t]} = {u \in 1..t : addr[u] = addr[t]}
      BY <3>1, <3>2
    <3> QED BY <3>3 DEF Rank
  <2>3. \A i \in DOMAIN consumed[b] : Rank(consumed[b][i])' = Rank(consumed[b][i])
    <3> SUFFICES ASSUME NEW i \in DOMAIN consumed[b] PROVE Rank(consumed[b][i])' = Rank(consumed[b][i])
      OBVIOUS
    <3>1. PICK t \in 1..born : t = consumed[b][i]
      BY <2>1
    <3>2. Rank(consumed[b][i])' = Rank(t)'
      BY <1>1, <3>1 DEF Rank
    <3> QED BY <2>2, <3>1, <3>2
  <2> QED BY <1>1, <2>3 DEF GivenOf
<1>6. ASSUME NEW b \in Addresses
      PROVE  ReceivedOf(b)' = IF b = a THEN ReceivedOf(b) + 1 ELSE ReceivedOf(b)
  <2> DEFINE R == {t \in 1..born : addr[t] = b}
  <2>1. IsFiniteSet(R) /\ m \notin R
    <3>1. IsFiniteSet(1..born) /\ R \in SUBSET (1..born)
      BY <1>1, FS_Interval
    <3> QED BY <1>1, <3>1, FS_Subset
  <2>2. {t \in 1..born' : addr'[t] = b} = IF b = a THEN R \cup {m} ELSE R
    BY <1>1, <1>3
  <2>3. Cardinality(R \cup {m}) = Cardinality(R) + 1
    BY <2>1, FS_AddElement
  <2> QED BY <2>2, <2>3 DEF ReceivedOf
<1> HIDE DEF m
<1> QED BY <1>1, <1>2, <1>4, <1>5, <1>6, SimulateArrive

\* A coroutine of a client begins when the client has no generator.
LEMMA BeginSimulated ==
  ASSUME DeliveryInv, DeliveryInv', UNCHANGED <<addr, born, cancelled>>,
         NEW t \in Tasks, NEW a \in Addresses, addr[t] = a, NEW x \in Tasks,
         consumed' = [consumed EXCEPT ![a] = Append(@, x)],
         \A u \in Tasks \ {t} : pc'[u] \in Running <=> pc[u] \in Running,
         pc'[t] \in Running
  PROVE  Delivery!Next
<1>1. GivesNext(a)
  BY GiveStep
<1>2. /\ \A b \in Addresses : ReceivedOf(b)' = ReceivedOf(b)
      /\ \A b \in Addresses \ {a} : GeneratorsOf(b)' = GeneratorsOf(b)
  BY SimulatedFrame, RunningFrame
<1>3. GeneratorsOf(a) \in {0, 1} /\ GeneratorsOf(a)' = 1
  BY GeneratorsProperties, GeneratorsNext DEF DeliveryInv, GeneratorsInv
<1> QED BY <1>1, <1>2, <1>3, SimulateStart

LEMMA NextSimulated == DeliveryInv /\ DeliveryInv' /\ [Next]_vars => [Delivery!Next]_(Delivery!vars)
<1> SUFFICES ASSUME DeliveryInv, DeliveryInv', [Next]_vars
             PROVE  Delivery!Next \/ UNCHANGED Delivery!vars
  OBVIOUS
<1>1. CASE UNCHANGED vars
  <2>1. \A b \in Addresses : ReceivedOf(b)' = ReceivedOf(b) /\ GivenOf(b)' = GivenOf(b) /\ GeneratorsOf(b)' = GeneratorsOf(b)
    BY <1>1, SimulatedFrame DEF vars, GeneratorsOf
  <2> QED BY <1>1, <2>1, SimulateStutter DEF vars
<1>2. ASSUME NEW a \in Addresses, DatagramReceived(a) PROVE Delivery!Next
  BY <1>2, ArriveSimulated
<1>3. ASSUME NEW a \in Addresses, Forget(a) PROVE UNCHANGED Delivery!vars
  <2>1. \A b \in Addresses : ReceivedOf(b)' = ReceivedOf(b) /\ GivenOf(b)' = GivenOf(b) /\ GeneratorsOf(b)' = GeneratorsOf(b)
    BY <1>3, SimulatedFrame DEF Forget, GeneratorsOf
  <2> QED BY <1>3, <2>1, SimulateStutter DEF Forget
<1>4. CASE Serve \/ ConnectionLost \/ Cancel
  <2>1. /\ UNCHANGED <<born, addr, consumed>>
        /\ \A u \in Tasks : pc'[u] \in Running <=> pc[u] \in Running
    BY <1>4 DEF Serve, ConnectionLost, Cancel, DeliveryInv, IInv, TypeOK, Running
  <2>2. \A b \in Addresses : GeneratorsOf(b)' = GeneratorsOf(b)
    <3> TAKE b \in Addresses
    <3>1. {u \in Tasks : pc'[u] \in Running /\ addr'[u] = b} = {u \in Tasks : pc[u] \in Running /\ addr[u] = b}
      BY <2>1
    <3> QED BY <3>1 DEF GeneratorsOf
  <2>3. \A b \in Addresses : ReceivedOf(b)' = ReceivedOf(b) /\ GivenOf(b)' = GivenOf(b)
    BY <2>1, SimulatedFrame
  <2>4. CASE Serve \/ ConnectionLost
    BY <2>2, <2>3, <2>4, SimulateStutter DEF Serve, ConnectionLost
  <2>5. CASE Cancel
    <3>1. Delivery!Stop
      BY <2>2, <2>3, <2>5 DEF Cancel, Delivery!Stop, ReceivedOf, GivenOf, GeneratorsOf
    <3> QED BY <3>1 DEF Delivery!Next
  <2> QED BY <1>4, <2>4, <2>5
<1>5. ASSUME NEW t \in Tasks, TaskStep(t) \/ GeneratorStep(t) \/ InterruptPop(t) \/ TaskCancelled(t)
      PROVE  Delivery!Next \/ UNCHANGED Delivery!vars
  <2>1. /\ UNCHANGED <<addr, born, cancelled>> /\ pc[t] # "unborn" /\ addr[t] \in Addresses
        /\ \A u \in Tasks \ {t} : pc'[u] \in Running <=> pc[u] \in Running
    <3>1. /\ UNCHANGED <<addr, born, cancelled>> /\ pc[t] # "unborn"
      BY <1>5 DEF TaskStep, GeneratorStep, HandlerStart, HandlerNotify, PendingStart, FirstYield, NextYield,
                  PopDatagram, WakeUp, InterruptPop, CoroutineEnd, TaskCancelled
    <3>2. addr[t] \in Addresses
      BY <3>1 DEF DeliveryInv, IInv, BornInv
    <3>3. CASE HandlerNotify(t)
      BY <3>1, <3>2, <3>3 DEF HandlerNotify, Notified, DeliveryInv, IInv, TypeOK, Running
    <3>4. CASE ~HandlerNotify(t)
      <4>1. \A u \in Tasks \ {t} : pc'[u] = pc[u]
        BY <1>5, <3>4 DEF TaskStep, GeneratorStep, HandlerStart, PendingStart, FirstYield, NextYield,
                  PopDatagram, WakeUp, InterruptPop, CoroutineEnd, TaskCancelled, DeliveryInv, IInv, TypeOK
      <4> QED BY <3>1, <3>2, <4>1
    <3> QED BY <3>3, <3>4
  <2>. PICK a \in Addresses : addr[t] = a
    BY <2>1
  <2>2. \A b \in Addresses : ReceivedOf(b)' = ReceivedOf(b)
    BY <2>1, SimulatedFrame
  <2>3. ASSUME UNCHANGED consumed, pc'[t] \in Running <=> pc[t] \in Running PROVE UNCHANGED Delivery!vars
    <3>1. \A b \in Addresses : GivenOf(b)' = GivenOf(b) /\ GeneratorsOf(b)' = GeneratorsOf(b)
      BY <2>1, <2>3, SimulatedFrame, RunningFrame
    <3> QED BY <2>1, <2>2, <3>1, SimulateStutter
  <2>4. ASSUME UNCHANGED consumed, pc[t] \in Running, pc'[t] \notin Running PROVE Delivery!Next
    <3>1. \A b \in Addresses : GivenOf(b)' = GivenOf(b)
      BY <2>1, <2>4, SimulatedFrame
    <3>2. \A b \in Addresses \ {a} : GeneratorsOf(b)' = GeneratorsOf(b)
      BY <2>1, RunningFrame
    <3>3. GeneratorsOf(a) = 1
      BY <2>4, GeneratorsProperties DEF DeliveryInv, GeneratorsInv
    <3>4. \A u \in Tasks : ~(pc'[u] \in Running /\ addr'[u] = a)
      BY <2>1, <2>4 DEF DeliveryInv, IInv, HoldInv, CoroutineInv, Coroutine
    <3>5. GeneratorsOf(a)' = 0
      BY <3>4, GeneratorsNext DEF DeliveryInv, GeneratorsInv
    <3> QED BY <2>1, <2>2, <3>1, <3>2, <3>3, <3>5, SimulateFinish
  <2>5. ASSUME pc'[t] \in Running, NEW q \in Seq(Tasks), q # <<>>,
               consumed' = [consumed EXCEPT ![a] = Append(@, Head(q))]
        PROVE  Delivery!Next
    <3>1. PICK x \in Tasks : x = Head(q)
      BY <2>5, HeadTailProperties
    <3>2. consumed' = [consumed EXCEPT ![a] = Append(@, x)]
      BY <2>5, <3>1
    <3> QED BY <2>1, <2>5, <3>2, BeginSimulated
  <2>6. CASE HandlerStart(t)
    <3> DEFINE q == Push(queue[ClientDataOf(t)], t)
    <3>1. q \in Seq(Tasks) /\ q # <<>>
      <4>1. ClientDataOf(t) \in Tasks
        BY DEF ClientDataOf, DeliveryInv, IInv, TypeOK
      <4> QED BY <4>1, QueueTypes DEF DeliveryInv, IInv, TypeOK
    <3>2. \/ consumed' = [consumed EXCEPT ![a] = Append(@, Head(q))] /\ pc'[t] \in Running
          \/ UNCHANGED consumed /\ pc[t] \notin Running /\ pc'[t] \notin Running
      BY <2>6 DEF HandlerStart, BeginCoroutine, DeliveryInv, IInv, TypeOK, Running
    <3> HIDE DEF q
    <3> QED BY <2>3, <2>5, <3>1, <3>2
  <2>7. CASE HandlerNotify(t) \/ PendingStart(t) \/ PopDatagram(t)
    <3> DEFINE q == queue[hold[t]]
    <3>1. q \in Seq(Tasks)
      BY <2>7 DEF HandlerNotify, PendingStart, PopDatagram, DeliveryInv, IInv, TypeOK, HoldInv, Coroutine, Running
    <3>2. \/ q # <<>> /\ consumed' = [consumed EXCEPT ![a] = Append(@, Head(q))] /\ pc'[t] \in Running
          \/ UNCHANGED consumed /\ (pc'[t] \in Running <=> pc[t] \in Running)
      <4>1. CASE HandlerNotify(t)
        BY <4>1 DEF HandlerNotify, MayStart, Notified, BeginCoroutine, DeliveryInv, IInv, TypeOK, Running
      <4>2. CASE PendingStart(t)
        BY <4>2 DEF PendingStart, BeginCoroutine, DeliveryInv, IInv, TypeOK, CoroutineInv, Running
      <4>3. CASE PopDatagram(t)
        BY <4>3 DEF PopDatagram, DeliveryInv, IInv, TypeOK, Running
      <4> QED BY <2>7, <4>1, <4>2, <4>3
    <3> HIDE DEF q
    <3> QED BY <2>3, <2>5, <3>1, <3>2
  <2>8. CASE WakeUp(t) \/ FirstYield(t) \/ NextYield(t) \/ InterruptPop(t)
    <3>1. UNCHANGED consumed /\ pc[t] \in Running /\ pc'[t] \in Running
      BY <2>8 DEF WakeUp, FirstYield, NextYield, InterruptPop, DeliveryInv, IInv, TypeOK, Running
    <3> QED BY <2>3, <3>1
  <2>9. CASE CoroutineEnd(t) \/ TaskCancelled(t)
    <3>1. UNCHANGED consumed /\ pc'[t] \notin Running
      BY <2>9 DEF CoroutineEnd, TaskCancelled, DeliveryInv, IInv, TypeOK, Running
    <3> QED BY <2>3, <2>4, <3>1
  <2> QED BY <1>5, <2>6, <2>7, <2>8, <2>9 DEF TaskStep, GeneratorStep
<1> QED BY <1>1, <1>2, <1>3, <1>4, <1>5 DEF Next

\* serve() keeps its promise to the request handler: one generator per client at a
\* time, fed with the client's datagrams in order, none twice, and none left out as
\* long as the server runs.
THEOREM OrderedDeliveryImplemented == Spec => ImplementsOrderedDelivery
<1>1. Init => Delivery!Init
  <2> SUFFICES ASSUME Init PROVE Delivery!Init
    OBVIOUS
  <2>1. \A a \in Addresses : ReceivedOf(a) = 0
    <3>1. \A a \in Addresses : {t \in 1..born : addr[t] = a} = {}
      BY DEF Init
    <3> QED BY <3>1, FS_EmptySet DEF ReceivedOf
  <2>2. \A a \in Addresses : GivenOf(a) = <<>>
    BY DEF Init, GivenOf
  <2>3. \A a \in Addresses : GeneratorsOf(a) = 0
    BY GeneratorsProperties, InitIInv DEF Init, GeneratorsInv, Running
  <2> QED BY <2>1, <2>2, <2>3 DEF Init, Delivery!Init, ReceivedOf, GivenOf, GeneratorsOf
<1> QED BY <1>1, Delivered, NextSimulated, PTL DEF Spec, ImplementsOrderedDelivery, Delivery!Spec
=============================================================================
