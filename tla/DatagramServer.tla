--------------------------- MODULE DatagramServer ---------------------------
(***************************************************************************)
(* The datagram server: the listener that starts one handler task per      *)
(* datagram, and the per-client request loop those tasks share.            *)
(*   src/easynetwork/lowlevel/api_async/servers/datagram.py                *)
(*   .../backend/_asyncio/datagram/listener.py (reception side)            *)
(*                                                                         *)
(* Datagrams are numbered in arrival order and the task started for        *)
(* datagram t is called t too; t also names the _ClientData object that    *)
(* task creates when its client has none.  A task that ends its client     *)
(* coroutine with start_soon(__client_coroutine) hands its name to the     *)
(* new task, which is the only thing left of it.                           *)
(*                                                                         *)
(* Tasks interleave only where the code awaits: one action is everything a *)
(* task does between two awaits.  Acquiring the condition's lock is such a *)
(* point (trio yields in it; under asyncio the two steps happen to be      *)
(* consecutive).  User code is the request handler generator: at each      *)
(* resumption it yields, returns or raises.                                *)
(***************************************************************************)
EXTENDS Naturals, Sequences, FiniteSets, SequencesExt

CONSTANTS Addresses,      \* the client addresses
          MaxDatagrams,   \* bound: datagrams that arrive in a behaviour
          None            \* Python's None

ASSUME DatagramsAssumption ==
  /\ MaxDatagrams \in Nat
  /\ None \notin Nat /\ None \notin Addresses /\ None \notin {"TASK_PENDING", "TASK_RUNNING"}

Tasks == 1..MaxDatagrams

VARIABLES
  listener,   \* "setup" | "serving" | "closed"
  cancelled,  \* the task group was cancelled
  born,       \* number of datagrams received
  addr,       \* sender of each datagram
  pc,         \* where each task is suspended
  hold,       \* the _ClientData object a live task references
  cache,      \* client_data_cache: a WeakValueDictionary
  state,      \* _ClientData.__state
  queue,      \* _ClientData._datagram_queue
  lockq,      \* FIFO lock of _queue_condition: its head owns the lock
  consumed    \* history: datagrams given to a generator, per client

vars == <<listener, cancelled, born, addr, pc, hold, cache, state, queue, lockq, consumed>>

\* What a coroutine awaits while _ClientState is TASK_RUNNING.
Running == {"first", "handling", "popLock", "waiting", "notified", "expired"}
Coroutine == Running \cup {"pending"}
PCs == Coroutine \cup {"unborn", "delayed", "new", "pushLock", "done", "dropped"}
ClientStates == {"TASK_PENDING", "TASK_RUNNING", None}

(***************************************************************************)
(* Each operator named Fault... is the operator after it as a plausible    *)
(* mistake would have it.  No action uses one: they are substituted to see *)
(* that a property notices the mistake.                                    *)
(***************************************************************************)

Owner(t) == lockq[hold[t]] # <<>> /\ Head(lockq[hold[t]]) = t
Release(c) == [lockq EXCEPT ![c] = Tail(@)]

-----------------------------------------------------------------------------
(* DatagramListenerProtocol *)

Init ==
  /\ listener = "setup"
  /\ cancelled = FALSE
  /\ born = 0
  /\ addr = [t \in Tasks |-> None]
  /\ pc = [t \in Tasks |-> "unborn"]
  /\ hold = [t \in Tasks |-> None]
  /\ cache = [a \in Addresses |-> None]
  /\ state = [c \in Tasks |-> None]
  /\ queue = [c \in Tasks |-> <<>>]
  /\ lockq = [c \in Tasks |-> <<>>]
  /\ consumed = [a \in Addresses |-> <<>>]

\* datagram_received(): before serve() the datagram is put aside.
DatagramReceived(a) ==
  /\ listener # "closed"
  /\ born < MaxDatagrams
  /\ born' = born + 1
  /\ addr' = [addr EXCEPT ![born + 1] = a]
  /\ pc' = [pc EXCEPT ![born + 1] = IF listener = "serving" THEN "new" ELSE "delayed"]
  /\ UNCHANGED <<listener, cancelled, hold, cache, state, queue, lockq, consumed>>

\* serve(): the datagrams received during setup get their handler first.
Serve ==
  /\ listener = "setup"
  /\ listener' = "serving"
  /\ pc' = [t \in Tasks |-> IF pc[t] = "delayed" THEN "new" ELSE pc[t]]
  /\ UNCHANGED <<cancelled, born, addr, hold, cache, state, queue, lockq, consumed>>

\* connection_lost(): started handlers go on, the delayed datagrams are cleared.
ConnectionLost ==
  /\ listener # "closed"
  /\ listener' = "closed"
  /\ pc' = [t \in Tasks |-> IF pc[t] = "delayed" THEN "dropped" ELSE pc[t]]
  /\ UNCHANGED <<cancelled, born, addr, hold, cache, state, queue, lockq, consumed>>

-----------------------------------------------------------------------------
(* The weak cache *)

FaultUnreferenced(a) == \A t \in Tasks : pc[t] \in Running => hold[t] # cache[a]
Unreferenced(a) == \A t \in Tasks : hold[t] # cache[a]

\* The entry of a client vanishes once no task references its _ClientData.
Forget(a) ==
  /\ cache[a] # None
  /\ Unreferenced(a)
  /\ cache' = [cache EXCEPT ![a] = None]
  /\ UNCHANGED <<listener, cancelled, born, addr, pc, hold, state, queue, lockq, consumed>>

ClientDataOf(t) == IF cache[addr[t]] = None THEN t ELSE cache[addr[t]]

-----------------------------------------------------------------------------
(* Handler tasks *)

\* mark_done()
FaultMarkDone(c) == [state EXCEPT ![c] = "TASK_DONE"]
MarkDone(c) == [state EXCEPT ![c] = None]

\* _datagram_queue.append()
FaultPush(q, t) == <<t>> \o q
Push(q, t) == Append(q, t)

\* The listener's part: tasks start in the order they were created.
FaultInTurn(t) == TRUE
InTurn(t) == \A u \in Tasks : u < t => pc[u] # "new"

\* The test of handler() after push_datagram().
FaultMayStart(c) == queue[c] # <<>>
MayStart(c) == state[c] = None /\ queue[c] # <<>>

\* mark_running() and pop_datagram_no_wait(): t runs the coroutine of client
\* data c, whose queue is now q, up to the first await of the generator.
BeginCoroutine(t, c, q) ==
  /\ state' = [state EXCEPT ![c] = "TASK_RUNNING"]
  /\ queue' = [queue EXCEPT ![c] = Tail(q)]
  /\ consumed' = [consumed EXCEPT ![addr[t]] = Append(@, Head(q))]

\* The first step of handler(), up to the lock of push_datagram().
HandlerStart(t) ==
  LET c == ClientDataOf(t)
      q == Push(queue[c], t)
  IN
  /\ pc[t] = "new"
  /\ InTurn(t)
  /\ cache' = [cache EXCEPT ![addr[t]] = c]
  /\ hold' = [hold EXCEPT ![t] = c]
  /\ \/ /\ state[c] = None
        /\ BeginCoroutine(t, c, q)
        /\ pc' = [pc EXCEPT ![t] = "first"]
        /\ UNCHANGED lockq
     \/ /\ state[c] # None
        /\ queue' = [queue EXCEPT ![c] = q]
        /\ lockq' = [lockq EXCEPT ![c] = Append(@, t)]
        /\ pc' = [pc EXCEPT ![t] = "pushLock"]
        /\ UNCHANGED <<state, consumed>>
  /\ UNCHANGED <<listener, cancelled, born, addr>>

\* Condition.notify(): wakes the coroutine that waits for a datagram of c.
Notified(c) == [u \in Tasks |-> IF pc[u] = "waiting" /\ hold[u] = c THEN "notified" ELSE pc[u]]

\* push_datagram() once it owns the lock, then the test that follows it.
HandlerNotify(t) ==
  LET c == hold[t] IN
  /\ pc[t] = "pushLock"
  /\ Owner(t)
  /\ lockq' = Release(c)
  /\ \/ /\ MayStart(c)
        /\ BeginCoroutine(t, c, queue[c])
        /\ pc' = [Notified(c) EXCEPT ![t] = "first"]
        /\ UNCHANGED hold
     \/ /\ ~MayStart(c)
        /\ pc' = [Notified(c) EXCEPT ![t] = "done"]
        /\ hold' = [hold EXCEPT ![t] = None]
        /\ UNCHANGED <<state, queue, consumed>>
  /\ UNCHANGED <<listener, cancelled, born, addr, cache>>

-----------------------------------------------------------------------------
(* The client coroutine *)

\* The task made by start_soon(__client_coroutine) runs for the first time.
PendingStart(t) ==
  /\ pc[t] = "pending"
  /\ BeginCoroutine(t, hold[t], queue[hold[t]])
  /\ pc' = [pc EXCEPT ![t] = "first"]
  /\ UNCHANGED <<listener, cancelled, born, addr, hold, cache, lockq>>

\* anext() returned: the datagram is parsed and sent (or the error thrown).
FirstYield(t) ==
  /\ pc[t] = "first"
  /\ pc' = [pc EXCEPT ![t] = "handling"]
  /\ UNCHANGED <<listener, cancelled, born, addr, hold, cache, state, queue, lockq, consumed>>

\* asend()/athrow() returned: the generator wants the next datagram.
NextYield(t) ==
  /\ pc[t] = "handling"
  /\ pc' = [pc EXCEPT ![t] = "popLock"]
  /\ lockq' = [lockq EXCEPT ![hold[t]] = Append(@, t)]
  /\ UNCHANGED <<listener, cancelled, born, addr, hold, cache, state, queue, consumed>>

\* pop_datagram() with the lock: take a datagram, or wait for one.
PopDatagram(t) ==
  LET c == hold[t] IN
  /\ pc[t] = "popLock"
  /\ Owner(t)
  /\ lockq' = Release(c)
  /\ \/ /\ queue[c] = <<>>
        /\ pc' = [pc EXCEPT ![t] = "waiting"]
        /\ UNCHANGED <<queue, consumed>>
     \/ /\ queue[c] # <<>>
        /\ pc' = [pc EXCEPT ![t] = "handling"]
        /\ queue' = [queue EXCEPT ![c] = Tail(@)]
        /\ consumed' = [consumed EXCEPT ![addr[t]] = Append(@, Head(queue[c]))]
  /\ UNCHANGED <<listener, cancelled, born, addr, hold, cache, state>>

\* Condition.wait() was notified: it takes the lock again.
WakeUp(t) ==
  /\ pc[t] = "notified"
  /\ pc' = [pc EXCEPT ![t] = "popLock"]
  /\ lockq' = [lockq EXCEPT ![hold[t]] = Append(@, t)]
  /\ UNCHANGED <<listener, cancelled, born, addr, hold, cache, state, queue, consumed>>

\* The timeout scope, or the cancelled task group, interrupts pop_datagram():
\* the exception is thrown into the generator, after the condition took its
\* lock again if it was waiting.
InterruptPop(t) ==
  /\ \/ /\ pc[t] = "popLock"
        /\ pc' = [pc EXCEPT ![t] = "handling"]
        /\ lockq' = [lockq EXCEPT ![hold[t]] = RemoveFirst(@, t)]
     \/ /\ pc[t] \in {"waiting", "notified"}
        /\ pc' = [pc EXCEPT ![t] = "expired"]
        /\ lockq' = [lockq EXCEPT ![hold[t]] = Append(@, t)]
     \/ /\ pc[t] = "expired"
        /\ Owner(t)
        /\ pc' = [pc EXCEPT ![t] = "handling"]
        /\ lockq' = Release(hold[t])
  /\ UNCHANGED <<listener, cancelled, born, addr, hold, cache, state, queue, consumed>>

\* The test of __on_client_coroutine_task_done().
FaultHasSuccessor(c) == FALSE
HasSuccessor(c) == queue[c] # <<>>

\* The generator returned or raised: mark_done(), then
\* __on_client_coroutine_task_done() starts a new task if datagrams are queued.
CoroutineEnd(t) ==
  LET c == hold[t] IN
  /\ pc[t] \in {"first", "handling"}
  /\ \/ /\ ~HasSuccessor(c)
        /\ state' = MarkDone(c)
        /\ pc' = [pc EXCEPT ![t] = "done"]
        /\ hold' = [hold EXCEPT ![t] = None]
     \/ /\ HasSuccessor(c)
        /\ state' = [state EXCEPT ![c] = "TASK_PENDING"]
        /\ pc' = [pc EXCEPT ![t] = "pending"]
        /\ UNCHANGED hold
  /\ UNCHANGED <<listener, cancelled, born, addr, cache, queue, lockq, consumed>>

-----------------------------------------------------------------------------
(* Cancellation of the task group (the server stops) *)

Cancel ==
  /\ ~cancelled
  /\ cancelled' = TRUE
  /\ listener' = "closed"
  /\ pc' = [t \in Tasks |-> IF pc[t] = "delayed" THEN "dropped" ELSE pc[t]]
  /\ UNCHANGED <<born, addr, hold, cache, state, queue, lockq, consumed>>

\* A cancelled handler never pushes or notifies; a pending coroutine never
\* runs; a running one marks itself done and starts no successor.
TaskCancelled(t) ==
  /\ cancelled
  /\ pc[t] \in {"new", "pushLock", "pending", "first", "handling"}
  /\ pc' = [pc EXCEPT ![t] = "done"]
  /\ hold' = [hold EXCEPT ![t] = None]
  /\ state' = IF pc[t] \in Running THEN MarkDone(hold[t]) ELSE state
  /\ lockq' = IF pc[t] = "pushLock" THEN [lockq EXCEPT ![hold[t]] = RemoveFirst(@, t)] ELSE lockq
  /\ UNCHANGED <<listener, cancelled, born, addr, cache, queue, consumed>>

-----------------------------------------------------------------------------
\* The steps the event loop takes on its own.
TaskStep(t) ==
  \/ HandlerStart(t) \/ HandlerNotify(t) \/ PendingStart(t)
  \/ PopDatagram(t) \/ WakeUp(t)

\* The steps of the request handler generator.
GeneratorStep(t) == FirstYield(t) \/ NextYield(t) \/ CoroutineEnd(t)

Next ==
  \/ \E a \in Addresses : DatagramReceived(a) \/ Forget(a)
  \/ Serve \/ ConnectionLost \/ Cancel
  \/ \E t \in Tasks : TaskStep(t) \/ GeneratorStep(t) \/ InterruptPop(t) \/ TaskCancelled(t)

Spec == Init /\ [][Next]_vars

\* The loop runs every ready task, and a generator does not block for ever in
\* its own code.  PopDatagram is strongly fair: the timeouts a generator asks
\* for are not all so short that a datagram that is there can never be taken.
Fairness ==
  \A t \in Tasks :
    /\ WF_vars(TaskStep(t))
    /\ WF_vars(GeneratorStep(t))
    /\ WF_vars(pc[t] = "expired" /\ InterruptPop(t))
    /\ SF_vars(PopDatagram(t))

FairSpec == Spec /\ Fairness

-----------------------------------------------------------------------------
(* Properties *)

Queued(a) == IF cache[a] = None THEN <<>> ELSE queue[cache[a]]

\* The datagrams of a client that left the listener, the first one first.
Passed(a) == consumed[a] \o Queued(a)

TypeOK ==
  /\ listener \in {"setup", "serving", "closed"}
  /\ cancelled \in BOOLEAN
  /\ born \in 0..MaxDatagrams
  /\ addr \in [Tasks -> Addresses \cup {None}]
  /\ pc \in [Tasks -> PCs]
  /\ hold \in [Tasks -> Tasks \cup {None}]
  /\ cache \in [Addresses -> Tasks \cup {None}]
  /\ state \in [Tasks -> ClientStates]
  /\ queue \in [Tasks -> Seq(Tasks)]
  /\ lockq \in [Tasks -> Seq(Tasks)]
  /\ consumed \in [Addresses -> Seq(Tasks)]

\* "There will always be only one active generator per client" (the docstring
\* of serve(), servers/datagram.py:174): two client coroutines of one address
\* never coexist, even though the _ClientData object of an address comes and
\* goes with the weak cache and three code paths start a coroutine.
AtMostOneCoroutine ==
  \A t, u \in Tasks :
    pc[t] \in Coroutine /\ pc[u] \in Coroutine /\ addr[t] = addr[u] => t = u

\* The state of a client says what its coroutine is, so that mark_pending(),
\* mark_running() and mark_done() never raise the inconsistent-state error.
StateMatchesTask ==
  \A t \in Tasks :
    /\ pc[t] = "pending" => state[hold[t]] = "TASK_PENDING"
    /\ pc[t] \in Running => state[hold[t]] = "TASK_RUNNING"

\* The weak cache never lets two live tasks of one address see two different
\* _ClientData objects, hence two queues and two locks.
SingleClientData ==
  \A t, u \in Tasks :
    hold[t] # None /\ hold[u] # None /\ addr[t] = addr[u] => hold[t] = hold[u]

\* Every datagram of a client is exactly once in one of three places, in the
\* order of arrival: given to a generator, queued, or with a handler that has
\* not started ("ordering datagram reception is shifted to the listener").
NothingLostOrReordered ==
  ~cancelled =>
    \A a \in Addresses :
      /\ \A i, j \in DOMAIN Passed(a) : i < j => Passed(a)[i] < Passed(a)[j]
      /\ ToSet(Passed(a)) = {t \in 1..born : addr[t] = a /\ pc[t] \notin {"delayed", "new", "dropped"}}
      /\ \A t \in ToSet(Passed(a)), u \in 1..born :
           addr[u] = a /\ pc[u] \in {"delayed", "new"} => t < u

\* A coroutine that sleeps on the condition while its queue has a datagram has
\* a handler about to notify it.
NoLostWakeup ==
  ~cancelled => \A t \in Tasks :
    pc[t] = "waiting" /\ queue[hold[t]] # <<>> =>
      \E u \in Tasks : pc[u] = "pushLock" /\ hold[u] = hold[t]

\* push_datagram() and pop_datagram(): both of the above.
DatagramsInPlace == NothingLostOrReordered /\ NoLostWakeup

\* A datagram whose handler was created reaches a generator, unless the server
\* stops.
EveryDatagramServed ==
  \A t \in Tasks :
    pc[t] = "new" ~> cancelled \/ \E a \in Addresses : Contains(consumed[a], t)

\* What the server promises its request handler, whatever its tasks do.
Rank(t) == Cardinality({u \in 1..t : addr[u] = addr[t]})
Delivery == INSTANCE OrderedDelivery WITH
  Clients <- Addresses,
  received <- [a \in Addresses |-> Cardinality({t \in 1..born : addr[t] = a})],
  given <- [a \in Addresses |-> [i \in DOMAIN consumed[a] |-> Rank(consumed[a][i])]],
  generators <- [a \in Addresses |-> Cardinality({t \in Tasks : pc[t] \in Running /\ addr[t] = a})],
  stopped <- cancelled

\* The server implements one generator per client fed in order of arrival.
ImplementsOrderedDelivery == Delivery!Spec

=============================================================================
