------------------------------ MODULE AsyncServer ------------------------------
(***************************************************************************)
(* The life of an asynchronous server:                                     *)
(*   src/easynetwork/servers/_base.py, class BaseAsyncNetworkServerImpl    *)
(* (the base of the TCP, UDP and Unix servers).                            *)
(*                                                                         *)
(* The tasks of one event loop: the one in serve_forever(), those that     *)
(* call server_close() and shutdown(), one per listener and one per        *)
(* client.  A step is what a task does between two awaits.  The attribute  *)
(* __is_shutdown is an event of its own for each call of serve_forever():  *)
(* here, the number of that call.                                          *)
(***************************************************************************)
EXTENDS Naturals, FiniteSets

CONSTANTS
  Listeners,   \* the listeners that the factory opens
  Clients, Closers, Stoppers,
  Backends,    \* those to check, among "asyncio" and "trio"
  MaxRuns      \* bound: the calls of serve_forever()

ASSUME Parameters ==
  /\ IsFiniteSet(Listeners) /\ Listeners # {} /\ IsFiniteSet(Clients)
  /\ Backends \subseteq {"asyncio", "trio"} /\ Backends # {} /\ MaxRuns \in Nat

VARIABLES
  backend,       \* the backend of the server; it never changes
  pc,            \* of serve_forever()
  run,           \* number of the calls of serve_forever() so far
  runScope,      \* __server_run_scope: "none", "open" or "cancelled"
  factoryScope,  \* __servers_factory_scope, the same
  factorySet,    \* __servers_factory_cb is not None
  servers,       \* __servers
  guard,         \* __server_close_guard is held
  task,          \* __server_tasks: of each listener
  activeTasks,   \* __active_tasks
  clients,       \* the client tasks that run
  listening,     \* the listeners whose socket is open
  closer,        \* of each closer: "idle", "called", "waiting", "closing"
  captured,      \* the copy of __servers a closer took
  stopper,       \* of each stopper: the run it waits for, or 0
  closed         \* history: a server_close() returned without an error

serving == <<pc, run, runScope, factoryScope>>
closing == <<closer, captured, closed>>
state == <<serving, factorySet, servers, guard, task, activeTasks, clients, listening, closing, stopper>>
vars == <<backend, state>>

\* A cancellation misses a task that is about to run, on trio.  On asyncio it
\* replaces what the task was woken up with.
LateCancel == backend = "trio"

Init ==
  /\ backend \in Backends
  /\ pc = "idle" /\ run = 0 /\ runScope = "none" /\ factoryScope = "none"
  /\ factorySet = TRUE /\ servers = {} /\ guard = FALSE
  /\ task = [l \in Listeners |-> "none"] /\ activeTasks = 0 /\ clients = {}
  /\ listening = {}
  /\ closer = [c \in Closers |-> "idle"] /\ captured = [c \in Closers |-> {}]
  /\ stopper = [s \in Stoppers |-> 0]
  /\ closed = FALSE

Cancelled(scope) == IF scope = "none" THEN "none" ELSE "cancelled"

-----------------------------------------------------------------------------
(* serve_forever() *)

\* The exit stack is unwound: the scope is reset and the event is set.
EndRun == pc' = "idle" /\ runScope' = "none"

\* From the end of server_activate(): the guard, then initialize_service().
EnterSetup(scope) ==
  \/ ~guard /\ guard' = TRUE /\ pc' = "initializing" /\ runScope' = scope
  \/ guard /\ EndRun /\ UNCHANGED guard

\* server_activate() opens the listeners again only if the server is open.
FaultMayActivate == TRUE
MayActivate == factorySet

\* serve_forever() up to its first await.
Serve ==
  /\ pc = "idle" /\ run < MaxRuns
  /\ run' = run + 1
  /\ \/ /\ ~MayActivate
        /\ UNCHANGED <<pc, runScope, factoryScope, guard>>
     \/ /\ MayActivate /\ servers # {}
        /\ EnterSetup("open")
        /\ UNCHANGED factoryScope
     \/ /\ MayActivate /\ servers = {}
        /\ pc' = "activating" /\ runScope' = "open" /\ factoryScope' = "open"
        /\ UNCHANGED guard
  /\ UNCHANGED <<factorySet, servers, task, activeTasks, clients, listening, closing, stopper>>

\* The last await of the factory is over: its task is about to run.
FactoryReady ==
  /\ pc = "activating" /\ factoryScope = "open" /\ runScope = "open"
  /\ pc' = "activated"
  /\ UNCHANGED <<run, runScope, factoryScope, factorySet, servers, guard, task, activeTasks, clients,
                 listening, closing, stopper>>

CancelNoticed == ~LateCancel /\ "cancelled" \in {factoryScope, runScope}

Activated ==
  /\ pc = "activated" /\ ~CancelNoticed
  /\ factoryScope' = "none"
  /\ servers' = Listeners
  /\ listening' = Listeners
  /\ EnterSetup(runScope)
  /\ UNCHANGED <<run, factorySet, task, activeTasks, clients, closing, stopper>>

\* ServerClosedError, a cancellation, or an error of the factory.
ActivationFails ==
  /\ pc = "activating" \/ (pc = "activated" /\ CancelNoticed)
  /\ factoryScope' = "none"
  /\ EndRun
  /\ UNCHANGED <<run, factorySet, servers, guard, task, activeTasks, clients, listening, closing, stopper>>

Initialized ==
  /\ pc = "initializing" /\ runScope = "open"
  /\ pc' = "starting"
  /\ activeTasks' = 0
  /\ UNCHANGED <<run, runScope, factoryScope, factorySet, servers, guard, task, clients, listening, closing,
                 stopper>>

StartListener(l) ==
  /\ pc = "starting" /\ runScope = "open"
  /\ l \in servers /\ task[l] = "none"
  /\ task' = [task EXCEPT ![l] = "running"]
  /\ activeTasks' = activeTasks + 1
  /\ UNCHANGED <<serving, factorySet, servers, guard, clients, listening, closing, stopper>>

\* The server is up: the guard is released and the task sleeps for ever.
FaultGuardAfterSetup == guard
GuardAfterSetup == FALSE
Up ==
  /\ pc = "starting" /\ \A l \in servers : task[l] # "none"
  /\ pc' = "serving"
  /\ guard' = GuardAfterSetup
  /\ UNCHANGED <<run, runScope, factoryScope, factorySet, servers, task, activeTasks, clients, listening,
                 closing, stopper>>

\* The exit stack cancels the tasks of the listeners first.
StoppedListeners == [l \in Listeners |-> IF task[l] = "running" THEN "cancelled" ELSE task[l]]

\* The cancellation of the run, or an error in the setup.
Break ==
  /\ \/ pc = "initializing" /\ guard' = FALSE
     \/ pc = "starting" /\ runScope = "cancelled" /\ guard' = FALSE
     \/ pc = "serving" /\ runScope = "cancelled" /\ UNCHANGED guard
  /\ runScope' = IF pc = "serving" THEN "none" ELSE runScope
  /\ pc' = "breaking"
  /\ task' = StoppedListeners
  /\ UNCHANGED <<run, factoryScope, factorySet, servers, activeTasks, clients, listening, closing, stopper>>

\* The listeners are done: the exit stack now cancels the tasks of the clients.
Drain ==
  /\ pc = "breaking" /\ \A l \in Listeners : task[l] \in {"none", "done"}
  /\ pc' = "draining"
  /\ UNCHANGED <<run, runScope, factoryScope, factorySet, servers, guard, task, activeTasks, clients,
                 listening, closing, stopper>>

FaultDrained == TRUE
Drained == clients = {}
Stopped ==
  /\ pc = "draining" /\ Drained
  /\ task' = [l \in Listeners |-> "none"]
  /\ EndRun
  /\ UNCHANGED <<run, factoryScope, factorySet, servers, guard, activeTasks, clients, listening, closing, stopper>>

-----------------------------------------------------------------------------
(* The tasks of the listeners and of the clients. *)

\* __detach_server()
LastOne == activeTasks = 1
Detach ==
  /\ activeTasks' = activeTasks - 1
  /\ runScope' = IF LastOne THEN Cancelled(runScope) ELSE runScope

ListenerEnds(l) ==
  /\ task[l] = "cancelled"
  /\ task' = [task EXCEPT ![l] = "done"]
  /\ Detach
  /\ UNCHANGED <<pc, run, factoryScope, factorySet, servers, guard, clients, listening, closing, stopper>>

Connect(c) ==
  /\ c \notin clients /\ \E l \in Listeners : task[l] = "running"
  /\ clients' = clients \cup {c}
  /\ activeTasks' = activeTasks + 1
  /\ UNCHANGED <<serving, factorySet, servers, guard, task, listening, closing, stopper>>

Disconnect(c) ==
  /\ c \in clients
  /\ clients' = clients \ {c}
  /\ Detach
  /\ UNCHANGED <<pc, run, factoryScope, factorySet, servers, guard, task, listening, closing, stopper>>

-----------------------------------------------------------------------------
(* server_close() and shutdown() *)

CallClose(c) ==
  /\ closer[c] = "idle"
  /\ closer' = [closer EXCEPT ![c] = "called"]
  /\ UNCHANGED <<serving, factorySet, servers, guard, task, activeTasks, clients, listening, captured, closed, stopper>>

CloseLockFree == \A c \in Closers : closer[c] \in {"idle", "called"}

\* The lock is taken: BusyResourceError, or everything up to the wait.
BeginClose(c) ==
  /\ closer[c] = "called" /\ CloseLockFree
  /\ \/ /\ guard
        /\ closer' = [closer EXCEPT ![c] = "idle"]
        /\ UNCHANGED <<factoryScope, factorySet, guard, task, captured>>
     \/ /\ ~guard
        /\ guard' = TRUE
        /\ factoryScope' = Cancelled(factoryScope)
        /\ factorySet' = FALSE
        /\ captured' = [captured EXCEPT ![c] = servers]
        /\ task' = StoppedListeners
        /\ closer' = [closer EXCEPT ![c] = "waiting"]
  /\ UNCHANGED <<pc, run, runScope, servers, activeTasks, clients, listening, closed, stopper>>

\* A closer awaits something on trio even when it has nothing to wait for, so a
\* task that is about to run comes first.
HasYielded == ~(LateCancel /\ pc = "activated")

\* The exit stack closes the listeners, when the tasks are done or because
\* server_close() is cancelled while it waits for them.
CloseSockets(c) ==
  /\ closer[c] = "waiting" /\ HasYielded
  /\ listening' = listening \ captured[c]
  /\ closer' = [closer EXCEPT ![c] = "closing"]
  /\ UNCHANGED <<serving, factorySet, servers, guard, task, activeTasks, clients, captured, closed, stopper>>

CloseListeners(c) == CloseSockets(c) /\ \A l \in Listeners : task[l] \in {"none", "done"}
CancelClose(c) == CloseSockets(c) /\ \E l \in Listeners : task[l] \notin {"none", "done"}

EndClose(c) ==
  /\ closer[c] = "closing"
  /\ servers' = {}
  /\ guard' = FALSE
  /\ closer' = [closer EXCEPT ![c] = "idle"]
  /\ captured' = [captured EXCEPT ![c] = {}]
  /\ closed' = TRUE
  /\ UNCHANGED <<serving, factorySet, task, activeTasks, clients, listening, stopper>>

\* shutdown() up to its wait for the event of the run.
FaultScopeToStop == IF pc = "serving" THEN "cancelled" ELSE runScope
ScopeToStop == Cancelled(runScope)
Shutdown(s) ==
  /\ stopper[s] = 0 /\ pc # "idle"
  /\ runScope' = ScopeToStop
  /\ stopper' = [stopper EXCEPT ![s] = run]
  /\ UNCHANGED <<pc, run, factoryScope, factorySet, servers, guard, task, activeTasks, clients, listening, closing>>

RunIsOver(n) == n < run \/ pc = "idle"
ShutdownReturns(s) ==
  /\ stopper[s] > 0 /\ RunIsOver(stopper[s])
  /\ stopper' = [stopper EXCEPT ![s] = 0]
  /\ UNCHANGED <<serving, factorySet, servers, guard, task, activeTasks, clients, listening, closing>>

ServeStep ==
  \/ Serve \/ FactoryReady \/ Activated \/ ActivationFails \/ Initialized
  \/ \E l \in Listeners : StartListener(l)
  \/ Up \/ Break \/ Drain \/ Stopped

Next ==
  /\ UNCHANGED backend
  /\ \/ ServeStep
     \/ \E l \in Listeners : ListenerEnds(l)
     \/ \E c \in Clients : Connect(c) \/ Disconnect(c)
     \/ \E c \in Closers : CallClose(c) \/ BeginClose(c) \/ CloseListeners(c) \/ CancelClose(c)
                             \/ EndClose(c)
     \/ \E s \in Stoppers : Shutdown(s) \/ ShutdownReturns(s)

Spec == Init /\ [][Next]_vars

\* Every task of the event loop runs when it can, the locks are first come
\* first served, and a cancelled task ends.  Nothing makes a client leave by
\* itself, a factory return, or a setup end without an error.
Fairness ==
  /\ WF_state(Activated) /\ WF_state((runScope = "cancelled" \/ factoryScope = "cancelled") /\ ActivationFails)
  /\ WF_state(runScope = "cancelled" /\ Break) /\ WF_state(Drain) /\ WF_state(Stopped)
  /\ \A l \in Listeners : WF_state(ListenerEnds(l))
  /\ \A c \in Clients : WF_state(pc = "draining" /\ Disconnect(c))
  /\ \A c \in Closers : SF_state(BeginClose(c)) /\ WF_state(CloseListeners(c)) /\ WF_state(EndClose(c))
  /\ \A s \in Stoppers : WF_state(ShutdownReturns(s))
FairSpec == Spec /\ Fairness

-----------------------------------------------------------------------------
(* Properties. *)

Setup == pc \in {"initializing", "starting"}
Closing == {c \in Closers : closer[c] \in {"waiting", "closing"}}

\* Types; the guard is held by the setup or by the one server_close() that has
\* the lock; __active_tasks counts the listeners and the clients that run.
TypeOK ==
  /\ pc \in {"idle", "activating", "activated", "initializing", "starting", "serving", "breaking", "draining"}
  /\ run \in 0..MaxRuns
  /\ runScope \in {"none", "open", "cancelled"} /\ factoryScope \in {"none", "open", "cancelled"}
  /\ {factorySet, guard, closed} \subseteq BOOLEAN
  /\ servers \in {{}, Listeners} /\ listening \subseteq Listeners /\ clients \subseteq Clients
  /\ task \in [Listeners -> {"none", "running", "cancelled", "done"}]
  /\ closer \in [Closers -> {"idle", "called", "waiting", "closing"}]
  /\ captured \in [Closers -> {{}, Listeners}]
  /\ stopper \in [Stoppers -> 0..MaxRuns]
  /\ Cardinality(Closing) <= 1
  /\ guard = (Setup \/ Closing # {}) /\ ~(Setup /\ Closing # {})
  /\ activeTasks = Cardinality({l \in Listeners : task[l] \in {"running", "cancelled"}}) + Cardinality(clients)

\* On asyncio nothing listens any more after a server_close(), and nothing ever
\* will: not even a server that was opening its listeners at that moment.
ClosedStaysClosed == backend = "asyncio" /\ closed => servers = {} /\ listening = {} /\ ~Setup

\* server_activate() does not open the listeners when a server_close() has
\* cancelled it: it raises ServerClosedError.
ActivationAfterCloseFails == [][factoryScope = "cancelled" => servers' \subseteq servers]_vars

\* A run leaves nothing behind it: when shutdown() returns, the tasks of the
\* listeners and of the clients are over.
NothingOutlivesRun ==
  pc = "idle" => clients = {} /\ runScope = "none" /\ factoryScope = "none" /\ \A l \in Listeners : task[l] = "none"

\* shutdown() returns, whenever it is called: in the setup, while a
\* server_close() waits, in the teardown, or when the server starts again.
ShutdownEnds == \A s \in Stoppers : stopper[s] > 0 ~> stopper[s] = 0

\* server_close() returns or is refused: it never waits for a task that waits
\* for it.
CloseEnds == \A c \in Closers : closer[c] # "idle" ~> closer[c] = "idle"

\* A closed server whose clients all leave comes to its end without shutdown()
\* ("the server loop should stop by itself").
ClosedServerStops == (backend = "asyncio" /\ closed /\ clients = {}) ~> (pc = "idle" \/ clients # {})
=============================================================================
