-------------------------- MODULE LifeCycles_proofs --------------------------
(***************************************************************************)
(* Proofs about the life of the servers, of a listener and of a pair of    *)
(* transports, for any number of tasks, threads, listeners, connections    *)
(* and runs.  Each part has its inductive invariant; a step of the whole   *)
(* is a step of one part, which leaves the variables of the others alone.  *)
(***************************************************************************)
EXTENDS MCLifeCycles, SequenceLemmas, FiniteSetTheorems, TLAPS

-----------------------------------------------------------------------------
(* The asynchronous server *)

ServerTypes ==
  /\ pc \in {"idle", "activating", "activated", "initializing", "starting", "serving", "breaking", "draining"}
  /\ run \in 0..MaxRuns
  /\ runScope \in {"none", "open", "cancelled"} /\ factoryScope \in {"none", "open", "cancelled"}
  /\ factorySet \in BOOLEAN /\ guard \in BOOLEAN /\ closed \in BOOLEAN
  /\ servers \in {{}, Listeners} /\ listening \subseteq Listeners /\ clients \subseteq Clients
  /\ task \in [Listeners -> {"none", "running", "cancelled", "done"}]
  /\ closer \in [Closers -> {"idle", "called", "waiting", "closing"}]
  /\ captured \in [Closers -> {{}, Listeners}]
  /\ stopper \in [Stoppers -> 0..MaxRuns]

\* The guard has one holder, the setup or the one server_close() that has the lock.
GuardInv ==
  /\ \A c, d \in Closing : c = d
  /\ guard = (Setup \/ Closing # {}) /\ ~(Setup /\ Closing # {})

\* What there is of a run in each of its phases.
PhaseInv ==
  /\ pc \in {"idle", "activating", "activated", "initializing"} =>
       clients = {} /\ \A l \in Listeners : task[l] = "none"
  /\ pc = "draining" => \A l \in Listeners : task[l] \in {"none", "done"}
  /\ (factoryScope # "none") = (pc \in {"activating", "activated"})
  /\ pc = "idle" => runScope = "none"

\* On asyncio, a server_close() leaves no activation that would open the listeners after
\* it, and has the listeners that are open.
CloseInv ==
  /\ closed \/ Closing # {} => ~factorySet
  /\ backend = "asyncio" =>
       /\ pc \in {"activating", "activated"} /\ ~factorySet => factoryScope = "cancelled"
       /\ listening \subseteq servers
       /\ \A c \in Closing : captured[c] = servers
       /\ \A c \in Closers : closer[c] = "closing" => listening = {}

\* The listeners and the clients that __active_tasks counts.
Alive == {l \in Listeners : task[l] \in {"running", "cancelled"}}
CountInv == activeTasks = Cardinality(Alive) + Cardinality(clients)

ServerInv == ServerTypes /\ GuardInv /\ PhaseInv /\ CloseInv /\ ClosedStaysClosed

-----------------------------------------------------------------------------
(* The server that threads drive *)

Places ==
  {"idle", "want_close_lock", "want_boot_lock", "calling", "waiting_down", "wait_shutdown"} \cup Standalone!Running

ThreadTypes ==
  /\ call \in [Threads -> Calls \cup {"none"}] /\ at \in [Threads -> Places]
  /\ closeLock \in Threads \cup {None} /\ bootLock \in Threads \cup {None}
  /\ isClosed \in BOOLEAN /\ isShutdown \in BOOLEAN /\ stop \in BOOLEAN
  /\ threadListening \in BOOLEAN /\ shut \in BOOLEAN /\ returned \in BOOLEAN
  /\ portal \in {"none", "open", "closed"}

\* The methods that lead to a place, and the locks that are held there.
PlaceInv ==
  \A t \in Threads :
    /\ call[t] = "none" <=> at[t] = "idle"
    /\ at[t] \in Standalone!Running => call[t] = "serve_forever"
    /\ at[t] = "want_close_lock" => call[t] \in {"serve_forever", "server_close"}
    /\ at[t] = "calling" => call[t] # "serve_forever"
    /\ at[t] \in {"waiting_down", "wait_shutdown"} => call[t] \in {"shutdown", "shutdown_timeout"}
LockInv ==
  \A t \in Threads :
    /\ bootLock = t <=> at[t] \in {"booting", "calling", "waiting_down"}
    /\ closeLock = t <=> /\ call[t] \in {"serve_forever", "server_close"}
                         /\ at[t] \in {"want_boot_lock", "booting", "calling"}

\* One thread runs the loop, and the portal is open as long as its calls are answered.
OneRunner == \A t, u \in Threads : at[t] \in Standalone!Running /\ at[u] \in Standalone!Running => t = u
RunnerInv == isShutdown <=> \A t \in Threads : at[t] \notin Standalone!Running
PortalInv ==
  /\ \A t \in Threads :
       /\ at[t] \in {"activating", "initializing", "serving", "ending"} => portal = "open"
       /\ at[t] \in {"draining", "unlocking"} => portal = "closed"
  /\ portal = "open" => \E t \in Threads : at[t] \in {"activating", "initializing", "serving", "ending"}
  /\ portal = "closed" => \E t \in Threads : at[t] \in {"draining", "unlocking"}
CallsAnswered ==
  \A t \in Threads :
    at[t] \in {"calling", "waiting_down"} =>
      \E u \in Threads : at[u] \in {"activating", "initializing", "serving", "ending", "draining"}
RunInv == OneRunner /\ RunnerInv /\ PortalInv /\ CallsAnswered

\* A server_close() that has closed the listeners leaves no run that would open them.
ShutInv ==
  shut =>
    /\ isClosed /\ ~threadListening
    /\ \A t \in Threads :
         /\ call[t] = "serve_forever" => at[t] \notin {"want_boot_lock", "booting"}
         /\ at[t] = "activating" => stop

\* The bound on the runs counts those to come.
RunsInv ==
  /\ runs \in Nat /\ IsFiniteSet(Standalone!NotYetRunning)
  /\ runs + Cardinality(Standalone!NotYetRunning) <= MaxRuns

ThreadInv == ThreadTypes /\ PlaceInv /\ LockInv /\ RunInv /\ ShutInv

-----------------------------------------------------------------------------
(* The listener *)

Accept == Listener!Cb("accept")
Retry == Listener!Cb("retry")
Done == Listener!Cb("done")
Ends == Listener!Cb("serve")
Yielded == Listener!Cb("aclose")
Skipped == Listener!Cb("cancelled")

ListenerTypes ==
  /\ ready \in Seq(Listener!Callbacks) /\ todo \in 0..Len(ready)
  /\ reader \in BOOLEAN /\ timer \in {"no", "armed", "due"}
  /\ serveTask \in {"idle", "waiting", "woken"} /\ future \in {"none", "pending", "cancelled", "failed"}
  /\ acloseTask \in {"no", "yielding", "done"} /\ socketClosed \in BOOLEAN /\ freeDescriptors \in BOOLEAN
  /\ conn \in [Peers -> {"absent", "queued", "scheduled", "connecting", "handled", "closed", "dropped"}]
  /\ reader => timer = "no"

\* The connections that wait for accept() are in the queue of the system, once each.
QueueInv == queue \in Seq(Peers) /\ IsInjective(queue) /\ ToSet(queue) = {k \in Peers : conn[k] = "queued"}

\* Nothing in the event loop is about the socket.
Unwatched == ~reader /\ timer = "no" /\ \A i \in 1..Len(ready) : ready[i] \notin {Accept, Retry}

\* The end of the future unwatches the socket, before what the end of serve() and
\* aclose() do, and while serve() does not run.
WatchInv ==
  /\ (serveTask = "idle" <=> future = "none") /\ (serveTask = "waiting" <=> future = "pending")
  /\ \A i \in 1..Len(ready) :
       /\ ready[i] = Ends => serveTask = "woken"
       /\ ready[i] = Yielded => acloseTask # "no"
       /\ ready[i] \in {Ends, Yielded} =>
            Unwatched \/ \E j \in 1..(i - 1) : ready[j] = Done
  /\ \A i, j \in 1..Len(ready) : ready[i] = Ends /\ ready[j] = Ends => i = j
  /\ serveTask = "woken" => Unwatched \/ \E i \in 1..Len(ready) : ready[i] = Done
  /\ serveTask = "idle" => Unwatched
  /\ socketClosed => Unwatched /\ acloseTask = "done"
  /\ acloseTask = "done" => socketClosed

-----------------------------------------------------------------------------
(* The pair of transports *)

\* A task that waits for the close of a half is past the halves before it.
PairInv ==
  /\ half \in [Pair!Halves -> {"open", "closing", "closed"}]
  /\ awaited \in [Owners -> {"idle", "eof", "sending", "receiving", "forced"}]
  /\ \A t \in Owners : awaited[t] \in {"receiving", "forced"} => half["sending"] = "closed"
  /\ Pair!BothAreClosed

-----------------------------------------------------------------------------
(* Steps of the asynchronous server *)

LEMMA RunsAreBounded == MaxRuns \in Nat
  BY Parameters DEF Parameters

LEMMA ServerInit == Init => ServerInv /\ CountInv
<1> SUFFICES ASSUME Init PROVE ServerInv /\ CountInv
  OBVIOUS
<1> USE DEF Init
<1>1. ServerTypes
  <2>1. run \in 0..MaxRuns
    BY RunsAreBounded
  <2>2. captured \in [Closers -> {{}, Listeners}]
    OBVIOUS
  <2>3. stopper \in [Stoppers -> 0..MaxRuns]
    BY RunsAreBounded
  <2>4. task \in [Listeners -> {"none", "running", "cancelled", "done"}] /\ closer \in [Closers -> {"idle", "called", "waiting", "closing"}]
    OBVIOUS
  <2> QED BY <2>1, <2>2, <2>3, <2>4 DEF ServerTypes
<1>2. GuardInv /\ CloseInv /\ ClosedStaysClosed
  BY DEF GuardInv, CloseInv, ClosedStaysClosed, Setup, Closing
<1>3. PhaseInv
  BY DEF PhaseInv
<1>4. Alive = {} /\ clients = {}
  BY DEF Alive
<1>5. CountInv
  BY <1>4, FS_EmptySet DEF CountInv
<1> QED BY <1>1, <1>2, <1>3, <1>5 DEF ServerInv

\* What no step of the tasks disturbs.
LEMMA ServeStepInv == ServerInv /\ ServeStep /\ UNCHANGED backend => ServerInv'
<1> SUFFICES ASSUME ServerInv, ServeStep, UNCHANGED backend PROVE ServerInv'
  OBVIOUS
<1> USE DEF ServerInv, serving, closing
<1>1. CASE Serve
  <2> USE <1>1 DEF Serve, MayActivate, EnterSetup, EndRun
  <2>1. ServerTypes'
    <3>1. run' \in 0..MaxRuns
      BY RunsAreBounded DEF ServerTypes
    <3>2. /\ pc' \in {pc, "initializing", "idle", "activating"} /\ runScope' \in {runScope, "open", "none"}
          /\ factoryScope' \in {factoryScope, "open"} /\ guard' \in BOOLEAN
      BY DEF ServerTypes
    <3> QED BY <3>1, <3>2 DEF ServerTypes
  <2>2. GuardInv'
    <3>1. Closing' = Closing
      BY DEF Closing
    <3>2. \/ pc' = "initializing" /\ guard' = TRUE /\ guard = FALSE
          \/ pc' \in {"idle", "activating"} /\ guard' = guard
      BY DEF ServerTypes
    <3>3. ~Setup
      BY DEF Setup
    <3> QED BY <3>1, <3>2, <3>3 DEF ServerTypes, GuardInv, Setup
  <2>3. PhaseInv'
    BY DEF ServerTypes, PhaseInv
  <2>4. CloseInv'
    BY DEF ServerTypes, PhaseInv, GuardInv, CloseInv, Setup, Closing
  <2>5. ClosedStaysClosed'
    BY DEF ServerTypes, GuardInv, PhaseInv, CloseInv, ClosedStaysClosed, Setup, Closing
  <2> QED BY <2>1, <2>2, <2>3, <2>4, <2>5
<1>2. CASE FactoryReady
  <2> USE <1>2 DEF FactoryReady
  <2>1. ServerTypes'
    BY DEF ServerTypes
  <2>2. GuardInv'
    BY DEF ServerTypes, GuardInv, Setup, Closing
  <2>3. PhaseInv'
    BY DEF ServerTypes, PhaseInv
  <2>4. CloseInv'
    BY DEF ServerTypes, PhaseInv, GuardInv, CloseInv, Setup, Closing
  <2>5. ClosedStaysClosed'
    BY DEF ServerTypes, GuardInv, PhaseInv, CloseInv, ClosedStaysClosed, Setup, Closing
  <2> QED BY <2>1, <2>2, <2>3, <2>4, <2>5
<1>3. CASE Activated
  <2> USE <1>3 DEF Activated, CancelNoticed, LateCancel, EnterSetup, EndRun
  <2>1. ServerTypes'
    BY DEF ServerTypes
  <2>2. GuardInv'
    BY DEF ServerTypes, GuardInv, Setup, Closing
  <2>3. PhaseInv'
    BY DEF ServerTypes, PhaseInv
  <2>4. CloseInv'
    BY DEF ServerTypes, PhaseInv, GuardInv, CloseInv, Setup, Closing
  <2>5. ClosedStaysClosed'
    BY DEF ServerTypes, GuardInv, PhaseInv, CloseInv, ClosedStaysClosed, Setup, Closing
  <2> QED BY <2>1, <2>2, <2>3, <2>4, <2>5
<1>4. CASE ActivationFails
  <2> USE <1>4 DEF ActivationFails, EndRun
  <2>1. ServerTypes'
    BY DEF ServerTypes
  <2>2. GuardInv'
    BY DEF ServerTypes, GuardInv, Setup, Closing
  <2>3. PhaseInv'
    BY DEF ServerTypes, PhaseInv
  <2>4. CloseInv'
    BY DEF ServerTypes, PhaseInv, GuardInv, CloseInv, Setup, Closing
  <2>5. ClosedStaysClosed'
    BY DEF ServerTypes, GuardInv, PhaseInv, CloseInv, ClosedStaysClosed, Setup, Closing
  <2> QED BY <2>1, <2>2, <2>3, <2>4, <2>5
<1>5. CASE Initialized
  <2> USE <1>5 DEF Initialized
  <2>1. ServerTypes'
    BY DEF ServerTypes
  <2>2. GuardInv'
    BY DEF ServerTypes, GuardInv, Setup, Closing
  <2>3. PhaseInv'
    BY DEF ServerTypes, PhaseInv
  <2>4. CloseInv'
    BY DEF ServerTypes, PhaseInv, GuardInv, CloseInv, Setup, Closing
  <2>5. ClosedStaysClosed'
    BY DEF ServerTypes, GuardInv, PhaseInv, CloseInv, ClosedStaysClosed, Setup, Closing
  <2> QED BY <2>1, <2>2, <2>3, <2>4, <2>5
<1>6. ASSUME NEW l \in Listeners, StartListener(l) PROVE ServerInv'
  <2> USE <1>6 DEF StartListener
  <2>1. ServerTypes'
    BY DEF ServerTypes
  <2>2. GuardInv'
    BY DEF ServerTypes, GuardInv, Setup, Closing
  <2>3. PhaseInv'
    BY DEF ServerTypes, PhaseInv
  <2>4. CloseInv'
    BY DEF ServerTypes, PhaseInv, GuardInv, CloseInv, Setup, Closing
  <2>5. ClosedStaysClosed'
    BY DEF ServerTypes, GuardInv, PhaseInv, CloseInv, ClosedStaysClosed, Setup, Closing
  <2> QED BY <2>1, <2>2, <2>3, <2>4, <2>5
<1>7. CASE Up
  <2> USE <1>7 DEF Up, GuardAfterSetup
  <2>1. ServerTypes'
    BY DEF ServerTypes
  <2>2. GuardInv'
    BY DEF ServerTypes, GuardInv, Setup, Closing
  <2>3. PhaseInv'
    BY DEF ServerTypes, PhaseInv
  <2>4. CloseInv'
    BY DEF ServerTypes, PhaseInv, GuardInv, CloseInv, Setup, Closing
  <2>5. ClosedStaysClosed'
    BY DEF ServerTypes, GuardInv, PhaseInv, CloseInv, ClosedStaysClosed, Setup, Closing
  <2> QED BY <2>1, <2>2, <2>3, <2>4, <2>5
<1>8. CASE Break
  <2> USE <1>8 DEF Break, StoppedListeners
  <2>1. ServerTypes'
    BY DEF ServerTypes
  <2>2. GuardInv'
    BY DEF ServerTypes, GuardInv, Setup, Closing
  <2>3. PhaseInv'
    BY DEF ServerTypes, PhaseInv
  <2>4. CloseInv'
    BY DEF ServerTypes, PhaseInv, GuardInv, CloseInv, Setup, Closing
  <2>5. ClosedStaysClosed'
    BY DEF ServerTypes, GuardInv, PhaseInv, CloseInv, ClosedStaysClosed, Setup, Closing
  <2> QED BY <2>1, <2>2, <2>3, <2>4, <2>5
<1>9. CASE Drain
  <2> USE <1>9 DEF Drain
  <2>1. ServerTypes'
    BY DEF ServerTypes
  <2>2. GuardInv'
    BY DEF ServerTypes, GuardInv, Setup, Closing
  <2>3. PhaseInv'
    BY DEF ServerTypes, PhaseInv
  <2>4. CloseInv'
    BY DEF ServerTypes, PhaseInv, GuardInv, CloseInv, Setup, Closing
  <2>5. ClosedStaysClosed'
    BY DEF ServerTypes, GuardInv, PhaseInv, CloseInv, ClosedStaysClosed, Setup, Closing
  <2> QED BY <2>1, <2>2, <2>3, <2>4, <2>5
<1>10. CASE Stopped
  <2> USE <1>10 DEF Stopped, Drained, EndRun
  <2>1. ServerTypes'
    BY DEF ServerTypes
  <2>2. GuardInv'
    BY DEF ServerTypes, GuardInv, Setup, Closing
  <2>3. PhaseInv'
    BY DEF ServerTypes, PhaseInv
  <2>4. CloseInv'
    BY DEF ServerTypes, PhaseInv, GuardInv, CloseInv, Setup, Closing
  <2>5. ClosedStaysClosed'
    BY DEF ServerTypes, GuardInv, PhaseInv, CloseInv, ClosedStaysClosed, Setup, Closing
  <2> QED BY <2>1, <2>2, <2>3, <2>4, <2>5
<1> QED BY <1>1, <1>2, <1>3, <1>4, <1>5, <1>6, <1>7, <1>8, <1>9, <1>10 DEF ServeStep

\* The listeners and clients that begin and end, the closers and the stoppers.
LEMMA OtherStepInv ==
  ASSUME ServerInv, UNCHANGED backend,
         \/ \E l \in Listeners : ListenerEnds(l)
         \/ \E c \in Clients : Connect(c) \/ Disconnect(c)
         \/ \E c \in Closers : CallClose(c) \/ BeginClose(c) \/ CloseListeners(c) \/ CancelClose(c) \/ EndClose(c)
         \/ \E s \in Stoppers : Shutdown(s) \/ ShutdownReturns(s)
  PROVE  ServerInv'
<1> USE DEF ServerInv, serving, closing
<1>1. ASSUME NEW l \in Listeners, ListenerEnds(l) PROVE ServerInv'
  <2> USE <1>1 DEF ListenerEnds, Detach, LastOne, Cancelled
  <2>1. ServerTypes'
    BY DEF ServerTypes
  <2>2. GuardInv'
    BY DEF ServerTypes, GuardInv, Setup, Closing
  <2>3. PhaseInv'
    BY DEF ServerTypes, PhaseInv
  <2>4. CloseInv'
    BY DEF ServerTypes, PhaseInv, GuardInv, CloseInv, Setup, Closing
  <2>5. ClosedStaysClosed'
    BY DEF ServerTypes, GuardInv, PhaseInv, CloseInv, ClosedStaysClosed, Setup, Closing
  <2> QED BY <2>1, <2>2, <2>3, <2>4, <2>5
<1>2. ASSUME NEW c \in Clients, Connect(c) PROVE ServerInv'
  <2> USE <1>2 DEF Connect
  <2>1. ServerTypes'
    BY DEF ServerTypes
  <2>2. GuardInv'
    BY DEF ServerTypes, GuardInv, Setup, Closing
  <2>3. PhaseInv'
    BY DEF ServerTypes, PhaseInv
  <2>4. CloseInv'
    BY DEF ServerTypes, PhaseInv, GuardInv, CloseInv, Setup, Closing
  <2>5. ClosedStaysClosed'
    BY DEF ServerTypes, GuardInv, PhaseInv, CloseInv, ClosedStaysClosed, Setup, Closing
  <2> QED BY <2>1, <2>2, <2>3, <2>4, <2>5
<1>3. ASSUME NEW c \in Clients, Disconnect(c) PROVE ServerInv'
  <2> USE <1>3 DEF Disconnect, Detach, LastOne, Cancelled
  <2>1. ServerTypes'
    BY DEF ServerTypes
  <2>2. GuardInv'
    BY DEF ServerTypes, GuardInv, Setup, Closing
  <2>3. PhaseInv'
    BY DEF ServerTypes, PhaseInv
  <2>4. CloseInv'
    BY DEF ServerTypes, PhaseInv, GuardInv, CloseInv, Setup, Closing
  <2>5. ClosedStaysClosed'
    BY DEF ServerTypes, GuardInv, PhaseInv, CloseInv, ClosedStaysClosed, Setup, Closing
  <2> QED BY <2>1, <2>2, <2>3, <2>4, <2>5
<1>4. ASSUME NEW c \in Closers, CallClose(c) PROVE ServerInv'
  <2> USE <1>4 DEF CallClose
  <2>1. ServerTypes'
    BY DEF ServerTypes
  <2>2. GuardInv'
    BY DEF ServerTypes, GuardInv, Setup, Closing
  <2>3. PhaseInv'
    BY DEF ServerTypes, PhaseInv
  <2>4. CloseInv'
    BY DEF ServerTypes, PhaseInv, GuardInv, CloseInv, Setup, Closing
  <2>5. ClosedStaysClosed'
    BY DEF ServerTypes, GuardInv, PhaseInv, CloseInv, ClosedStaysClosed, Setup, Closing
  <2> QED BY <2>1, <2>2, <2>3, <2>4, <2>5
<1>5. ASSUME NEW c \in Closers, BeginClose(c) PROVE ServerInv'
  <2> USE <1>5 DEF BeginClose
  <2>1. ServerTypes'
    BY DEF ServerTypes, StoppedListeners, Cancelled
  <2>2. Closing = {} /\ Setup' = Setup
    BY DEF CloseLockFree, Closing, Setup
  <2>3. PhaseInv'
    BY DEF ServerTypes, PhaseInv, StoppedListeners, Cancelled
  <2>4. CASE guard
    <3>1. Closing' = {} /\ captured' = captured /\ factoryScope' = factoryScope /\ factorySet' = factorySet /\ guard' = guard
          /\ closer' = [closer EXCEPT ![c] = "idle"]
      BY <2>2, <2>4 DEF Closing, ServerTypes
    <3>2. GuardInv'
      BY <2>2, <3>1 DEF GuardInv
    <3>3. CloseInv'
      BY <2>2, <3>1 DEF CloseInv, ServerTypes
    <3> QED BY <2>1, <2>2, <2>3, <3>1, <3>2, <3>3 DEF ClosedStaysClosed
  <2>5. CASE ~guard
    <3>1. /\ guard' = TRUE /\ factoryScope' = Cancelled(factoryScope) /\ factorySet' = FALSE
          /\ captured' = [captured EXCEPT ![c] = servers] /\ closer' = [closer EXCEPT ![c] = "waiting"]
      BY <2>5
    <3>2. Closing' = {c}
      BY <2>2, <3>1 DEF Closing, ServerTypes
    <3>3. GuardInv'
      BY <2>2, <2>5, <3>1, <3>2 DEF GuardInv
    <3>4. \A d \in Closers : closer'[d] # "closing"
      BY <2>2, <3>1 DEF Closing, ServerTypes
    <3>5. captured'[c] = servers /\ servers' = servers /\ listening' = listening /\ pc' = pc
      BY <3>1 DEF ServerTypes
    <3>6. pc \in {"activating", "activated"} /\ backend = "asyncio" => factoryScope' = "cancelled"
      BY <3>1 DEF CloseInv, ServerTypes, PhaseInv, Cancelled
    <3>7. CloseInv'
      BY <3>1, <3>2, <3>4, <3>5, <3>6 DEF CloseInv
    <3> QED BY <2>1, <2>2, <2>3, <3>1, <3>3, <3>7 DEF ClosedStaysClosed
  <2> QED BY <2>4, <2>5
<1>6. ASSUME NEW c \in Closers, CloseSockets(c) PROVE ServerInv'
  <2> USE <1>6 DEF CloseSockets, HasYielded, LateCancel
  <2>1. ServerTypes'
    BY DEF ServerTypes
  <2>2. GuardInv'
    BY DEF ServerTypes, GuardInv, Setup, Closing
  <2>3. PhaseInv'
    BY DEF ServerTypes, PhaseInv
  <2>4. CloseInv'
    BY DEF ServerTypes, PhaseInv, GuardInv, CloseInv, Setup, Closing
  <2>5. ClosedStaysClosed'
    BY DEF ServerTypes, GuardInv, PhaseInv, CloseInv, ClosedStaysClosed, Setup, Closing
  <2> QED BY <2>1, <2>2, <2>3, <2>4, <2>5
<1>7. ASSUME NEW c \in Closers, EndClose(c) PROVE ServerInv'
  <2> USE <1>7 DEF EndClose
  <2>1. ServerTypes'
    BY DEF ServerTypes
  <2>2. GuardInv'
    <3>1. c \in Closing /\ \A d \in Closing : d = c
      BY DEF GuardInv, Closing
    <3>2. Closing' = {}
      BY <3>1 DEF ServerTypes, Closing
    <3>3. ~Setup' /\ guard' = FALSE
      BY <3>1 DEF GuardInv, Setup
    <3> QED BY <3>2, <3>3 DEF GuardInv
  <2>3. PhaseInv'
    BY DEF ServerTypes, PhaseInv
  <2>4. CloseInv'
    BY DEF ServerTypes, PhaseInv, GuardInv, CloseInv, Setup, Closing
  <2>5. ClosedStaysClosed'
    BY DEF ServerTypes, GuardInv, PhaseInv, CloseInv, ClosedStaysClosed, Setup, Closing
  <2> QED BY <2>1, <2>2, <2>3, <2>4, <2>5
<1>8. ASSUME NEW s \in Stoppers, Shutdown(s) PROVE ServerInv'
  <2> USE <1>8 DEF Shutdown, ScopeToStop, Cancelled
  <2>1. ServerTypes'
    BY DEF ServerTypes
  <2>2. GuardInv'
    BY DEF ServerTypes, GuardInv, Setup, Closing
  <2>3. PhaseInv'
    BY DEF ServerTypes, PhaseInv
  <2>4. CloseInv'
    BY DEF ServerTypes, PhaseInv, GuardInv, CloseInv, Setup, Closing
  <2>5. ClosedStaysClosed'
    BY DEF ServerTypes, GuardInv, PhaseInv, CloseInv, ClosedStaysClosed, Setup, Closing
  <2> QED BY <2>1, <2>2, <2>3, <2>4, <2>5
<1>9. ASSUME NEW s \in Stoppers, ShutdownReturns(s) PROVE ServerInv'
  <2> USE <1>9 DEF ShutdownReturns, RunIsOver
  <2>1. ServerTypes'
    BY RunsAreBounded DEF ServerTypes
  <2>2. GuardInv'
    BY DEF ServerTypes, GuardInv, Setup, Closing
  <2>3. PhaseInv'
    BY DEF ServerTypes, PhaseInv
  <2>4. CloseInv'
    BY DEF ServerTypes, PhaseInv, GuardInv, CloseInv, Setup, Closing
  <2>5. ClosedStaysClosed'
    BY DEF ServerTypes, GuardInv, PhaseInv, CloseInv, ClosedStaysClosed, Setup, Closing
  <2> QED BY <2>1, <2>2, <2>3, <2>4, <2>5
<1> QED BY <1>1, <1>2, <1>3, <1>4, <1>5, <1>6, <1>7, <1>8, <1>9 DEF CloseListeners, CancelClose


\* What __active_tasks counts is finite.
Countable ==
  IsFiniteSet(Alive) /\ IsFiniteSet(clients) /\ Cardinality(Alive) \in Nat /\ Cardinality(clients) \in Nat

LEMMA CountedIsFinite == ServerTypes => Countable
<1> SUFFICES ASSUME ServerTypes PROVE Countable
  OBVIOUS
<1>1. Alive \subseteq Listeners /\ clients \subseteq Clients /\ IsFiniteSet(Listeners) /\ IsFiniteSet(Clients)
  BY Parameters DEF Parameters, Alive, ServerTypes
<1> QED BY <1>1, FS_Subset, FS_CardinalityType DEF Countable

\* The exit stack cancels the listeners that run: they still count.
LEMMA StoppedAreAlive == ServerTypes /\ task' = StoppedListeners => Alive' = Alive
  BY DEF ServerTypes, StoppedListeners, Alive

\* A member more or less.
LEMMA CardinalityMoves ==
  ASSUME NEW S, NEW T, IsFiniteSet(S), NEW x, x \notin S, T = S \cup {x}
  PROVE  Cardinality(T) = Cardinality(S) + 1
  BY FS_AddElement

LEMMA CountStep == ServerInv /\ CountInv /\ Next => CountInv'
<1> SUFFICES ASSUME ServerInv, CountInv, Next PROVE CountInv'
  OBVIOUS
<1>0. ServerTypes /\ ServerTypes' /\ Countable /\ Countable'
  <2>1. ServerTypes /\ ServerInv'
    BY ServeStepInv, OtherStepInv DEF Next, ServerInv
  <2>2. ServerTypes' => Countable'
    BY CountedIsFinite, PTL
  <2> QED BY <2>1, <2>2, CountedIsFinite DEF ServerInv
<1>1. CASE Alive' = Alive /\ clients' = clients /\ activeTasks' = activeTasks
  BY <1>1 DEF CountInv
<1>2. CASE Initialized
  <2>1. Alive' = {} /\ clients' = {} /\ activeTasks' = 0
    BY <1>2 DEF Initialized, ServerInv, PhaseInv, Alive
  <2> QED BY <2>1, FS_EmptySet DEF CountInv
<1>3. ASSUME NEW l \in Listeners, StartListener(l) PROVE CountInv'
  <2>1. l \notin Alive /\ Alive' = Alive \cup {l} /\ clients' = clients /\ activeTasks' = activeTasks + 1
    BY <1>0, <1>3 DEF StartListener, Alive, ServerTypes
  <2>2. Cardinality(Alive') = Cardinality(Alive) + 1
    BY <1>0, <2>1, CardinalityMoves DEF Countable
  <2> QED BY <1>0, <2>1, <2>2 DEF CountInv, Countable
<1>4. ASSUME NEW l \in Listeners, ListenerEnds(l) PROVE CountInv'
  <2>1. l \notin Alive' /\ Alive = Alive' \cup {l} /\ clients' = clients /\ activeTasks' = activeTasks - 1
    BY <1>0, <1>4 DEF ListenerEnds, Detach, Alive, ServerTypes
  <2>2. Cardinality(Alive) = Cardinality(Alive') + 1
    BY <1>0, <2>1, CardinalityMoves DEF Countable
  <2>3. clients' = clients /\ activeTasks' = activeTasks - 1
    BY <2>1
  <2> QED BY <1>0, <2>2, <2>3 DEF CountInv, Countable
<1>5. ASSUME NEW c \in Clients, Connect(c) PROVE CountInv'
  <2>1. c \notin clients /\ clients' = clients \cup {c} /\ Alive' = Alive /\ activeTasks' = activeTasks + 1
    BY <1>0, <1>5 DEF Connect, Alive, ServerTypes
  <2>2. Cardinality(clients') = Cardinality(clients) + 1
    BY <1>0, <2>1, CardinalityMoves DEF Countable
  <2> QED BY <1>0, <2>1, <2>2 DEF CountInv, Countable
<1>6. ASSUME NEW c \in Clients, Disconnect(c) PROVE CountInv'
  <2>1. c \notin clients' /\ clients = clients' \cup {c} /\ Alive' = Alive /\ activeTasks' = activeTasks - 1
    BY <1>0, <1>6 DEF Disconnect, Detach, Alive, ServerTypes
  <2>2. Cardinality(clients) = Cardinality(clients') + 1
    BY <1>0, <2>1, CardinalityMoves DEF Countable
  <2>3. Alive' = Alive /\ activeTasks' = activeTasks - 1
    BY <2>1
  <2> QED BY <1>0, <2>2, <2>3 DEF CountInv, Countable
<1>7. CASE Stopped
  <2>1. Alive' = {} /\ Alive = {} /\ clients' = clients /\ activeTasks' = activeTasks
    BY <1>7 DEF Stopped, ServerInv, PhaseInv, Alive
  <2> QED BY <1>1, <2>1
<1>8. CASE Break
  <2>1. Alive' = Alive /\ clients' = clients /\ activeTasks' = activeTasks
    BY <1>0, <1>8, StoppedAreAlive DEF Break
  <2> QED BY <1>1, <2>1
<1>9. ASSUME NEW c \in Closers, BeginClose(c) PROVE CountInv'
  <2>1. Alive' = Alive /\ clients' = clients /\ activeTasks' = activeTasks
    <3>1. Alive' = Alive
      BY <1>0, <1>9, StoppedAreAlive DEF BeginClose, Alive
    <3> QED BY <1>9, <3>1 DEF BeginClose
  <2> QED BY <1>1, <2>1
<1>10. ASSUME UNCHANGED <<task, activeTasks, clients>> PROVE CountInv'
  BY <1>1, <1>10 DEF Alive
<1>11. ASSUME NEW c \in Closers, CallClose(c) \/ CloseListeners(c) \/ CancelClose(c) \/ EndClose(c) PROVE CountInv'
  BY <1>10, <1>11 DEF CallClose, CloseListeners, CancelClose, CloseSockets, EndClose
<1>12. ASSUME NEW s \in Stoppers, Shutdown(s) \/ ShutdownReturns(s) PROVE CountInv'
  BY <1>10, <1>12 DEF Shutdown, ShutdownReturns
<1>13. CASE Serve \/ FactoryReady \/ Activated \/ ActivationFails \/ Up \/ Drain
  BY <1>10, <1>13 DEF Serve, FactoryReady, Activated, ActivationFails, Up, Drain
<1> QED BY <1>2, <1>3, <1>4, <1>5, <1>6, <1>7, <1>8, <1>9, <1>11, <1>12, <1>13 DEF Next, ServeStep

\* One server_close() at most has the lock.
LEMMA ServerTypeOK == ServerInv /\ CountInv => TypeOK
<1> SUFFICES ASSUME ServerInv, CountInv PROVE TypeOK
  OBVIOUS
<1>1. Cardinality(Closing) <= 1
  <2>1. CASE Closing = {}
    BY <2>1, FS_EmptySet
  <2>2. ASSUME NEW c \in Closing PROVE Cardinality(Closing) <= 1
    <3>1. Closing = {c}
      BY <2>2 DEF ServerInv, GuardInv
    <3> QED BY <3>1, FS_Singleton
  <2> QED BY <2>1, <2>2
<1>2. GuardInv /\ ServerTypes /\ activeTasks = Cardinality(Alive) + Cardinality(clients)
  BY DEF ServerInv, CountInv
<1> QED BY <1>1, <1>2 DEF TypeOK, GuardInv, ServerTypes, Alive


-----------------------------------------------------------------------------
(* Steps of the threads *)

\* The modules of the threads count as this one does.
LEMMA SameCardinality == \A S : Standalone!Cardinality(S) = Cardinality(S)
  BY DEF Standalone!Cardinality, Cardinality

LEMMA NoneIsNoThread == None \notin Threads /\ Calls \subseteq Standalone!AllCalls
  BY StandaloneAssumption DEF StandaloneAssumption, Standalone!ThreadParameters

LEMMA ThreadInit == Standalone!Init => ThreadInv /\ RunsInv
<1> SUFFICES ASSUME Standalone!Init PROVE ThreadInv /\ RunsInv
  OBVIOUS
<1> USE DEF Standalone!Init
<1>1. ThreadTypes
  BY DEF ThreadTypes, Places
<1>2. PlaceInv /\ LockInv /\ ShutInv
  BY NoneIsNoThread DEF PlaceInv, LockInv, ShutInv, Standalone!Running
<1>3. RunInv
  BY DEF RunInv, OneRunner, RunnerInv, PortalInv, CallsAnswered, Standalone!Running
<1>4. Standalone!NotYetRunning = {}
  BY DEF Standalone!NotYetRunning
<1>5. RunsInv
  BY <1>4, FS_EmptySet, RunsAreBounded DEF RunsInv
<1> QED BY <1>1, <1>2, <1>3, <1>5 DEF ThreadInv

LEMMA ThreadStepInv ==
  ASSUME ThreadInv, NEW t \in Threads, Standalone!RunStep(t) \/ Standalone!ControlStep(t)
  PROVE  ThreadInv'
<1> USE DEF ThreadInv, Standalone!Goes, Standalone!Returns, Standalone!LoopIs, Standalone!locks, Standalone!flags,
            Standalone!loop
<1>0. None \notin Threads /\ Calls \subseteq Standalone!AllCalls
  BY NoneIsNoThread
<1>1. CASE Standalone!TakeBootLock(t)
  <2> USE <1>0, <1>1 DEF Standalone!IsRunning, Standalone!TakeBootLock
  <2>1. ThreadTypes'
    BY DEF ThreadTypes, Places, Standalone!Running
  <2>2. PlaceInv'
    BY DEF ThreadTypes, PlaceInv, Standalone!Running, Standalone!AllCalls
  <2>3. LockInv'
    BY DEF ThreadTypes, PlaceInv, LockInv, Standalone!Running, Standalone!AllCalls
  <2>4. OneRunner' /\ RunnerInv'
    BY DEF ThreadTypes, PlaceInv, RunInv, OneRunner, RunnerInv, Standalone!Running
  <2>5. PortalInv'
    BY DEF ThreadTypes, PlaceInv, RunInv, OneRunner, PortalInv, Standalone!Running
  <2>6. CallsAnswered'
    BY DEF ThreadTypes, PlaceInv, LockInv, RunInv, PortalInv, CallsAnswered, Standalone!Running
  <2>7. ShutInv'
    BY DEF ThreadTypes, PlaceInv, LockInv, RunInv, OneRunner, ShutInv, Standalone!Running
  <2> QED BY <2>1, <2>2, <2>3, <2>4, <2>5, <2>6, <2>7 DEF RunInv
<1>2. CASE Standalone!Booted(t)
  <2> USE <1>0, <1>2 DEF Standalone!Booted
  <2>1. ThreadTypes'
    BY DEF ThreadTypes, Places, Standalone!Running
  <2>2. PlaceInv'
    BY DEF ThreadTypes, PlaceInv, Standalone!Running, Standalone!AllCalls
  <2>3. LockInv'
    BY DEF ThreadTypes, PlaceInv, LockInv, Standalone!Running, Standalone!AllCalls
  <2>4. OneRunner' /\ RunnerInv'
    BY DEF ThreadTypes, PlaceInv, RunInv, OneRunner, RunnerInv, Standalone!Running
  <2>5. PortalInv'
    BY DEF ThreadTypes, PlaceInv, RunInv, OneRunner, PortalInv, Standalone!Running
  <2>6. CallsAnswered'
    BY DEF ThreadTypes, PlaceInv, LockInv, RunInv, PortalInv, CallsAnswered, Standalone!Running
  <2>7. ShutInv'
    BY DEF ThreadTypes, PlaceInv, LockInv, RunInv, OneRunner, ShutInv, Standalone!Running
  <2> QED BY <2>1, <2>2, <2>3, <2>4, <2>5, <2>6, <2>7 DEF RunInv
<1>3. CASE Standalone!BootFails(t)
  <2> USE <1>0, <1>3 DEF Standalone!BootFails
  <2>1. ThreadTypes'
    BY DEF ThreadTypes, Places, Standalone!Running
  <2>2. PlaceInv'
    BY DEF ThreadTypes, PlaceInv, Standalone!Running, Standalone!AllCalls
  <2>3. LockInv'
    BY DEF ThreadTypes, PlaceInv, LockInv, Standalone!Running, Standalone!AllCalls
  <2>4. OneRunner' /\ RunnerInv'
    BY DEF ThreadTypes, PlaceInv, RunInv, OneRunner, RunnerInv, Standalone!Running
  <2>5. PortalInv'
    BY DEF ThreadTypes, PlaceInv, RunInv, OneRunner, PortalInv, Standalone!Running
  <2>6. CallsAnswered'
    BY DEF ThreadTypes, PlaceInv, LockInv, RunInv, PortalInv, CallsAnswered, Standalone!Running
  <2>7. ShutInv'
    BY DEF ThreadTypes, PlaceInv, LockInv, RunInv, OneRunner, ShutInv, Standalone!Running
  <2> QED BY <2>1, <2>2, <2>3, <2>4, <2>5, <2>6, <2>7 DEF RunInv
<1>4. CASE Standalone!Activated(t)
  <2> USE <1>0, <1>4 DEF Standalone!Activated
  <2>1. ThreadTypes'
    BY DEF ThreadTypes, Places, Standalone!Running
  <2>2. PlaceInv'
    BY DEF ThreadTypes, PlaceInv, Standalone!Running, Standalone!AllCalls
  <2>3. LockInv'
    BY DEF ThreadTypes, PlaceInv, LockInv, Standalone!Running, Standalone!AllCalls
  <2>4. OneRunner' /\ RunnerInv'
    BY DEF ThreadTypes, PlaceInv, RunInv, OneRunner, RunnerInv, Standalone!Running
  <2>5. PortalInv'
    BY DEF ThreadTypes, PlaceInv, RunInv, OneRunner, PortalInv, Standalone!Running
  <2>6. CallsAnswered'
    BY DEF ThreadTypes, PlaceInv, LockInv, RunInv, PortalInv, CallsAnswered, Standalone!Running
  <2>7. ShutInv'
    BY DEF ThreadTypes, PlaceInv, LockInv, RunInv, OneRunner, ShutInv, Standalone!Running
  <2> QED BY <2>1, <2>2, <2>3, <2>4, <2>5, <2>6, <2>7 DEF RunInv
<1>5. CASE Standalone!Initialized(t)
  <2> USE <1>0, <1>5 DEF Standalone!Initialized
  <2>1. ThreadTypes'
    BY DEF ThreadTypes, Places, Standalone!Running
  <2>2. PlaceInv'
    BY DEF ThreadTypes, PlaceInv, Standalone!Running, Standalone!AllCalls
  <2>3. LockInv'
    BY DEF ThreadTypes, PlaceInv, LockInv, Standalone!Running, Standalone!AllCalls
  <2>4. OneRunner' /\ RunnerInv'
    BY DEF ThreadTypes, PlaceInv, RunInv, OneRunner, RunnerInv, Standalone!Running
  <2>5. PortalInv'
    BY DEF ThreadTypes, PlaceInv, RunInv, OneRunner, PortalInv, Standalone!Running
  <2>6. CallsAnswered'
    BY DEF ThreadTypes, PlaceInv, LockInv, RunInv, PortalInv, CallsAnswered, Standalone!Running
  <2>7. ShutInv'
    BY DEF ThreadTypes, PlaceInv, LockInv, RunInv, OneRunner, ShutInv, Standalone!Running
  <2> QED BY <2>1, <2>2, <2>3, <2>4, <2>5, <2>6, <2>7 DEF RunInv
<1>6. CASE Standalone!LoopBreaks(t)
  <2> USE <1>0, <1>6 DEF Standalone!LoopBreaks
  <2>1. ThreadTypes'
    BY DEF ThreadTypes, Places, Standalone!Running
  <2>2. PlaceInv'
    BY DEF ThreadTypes, PlaceInv, Standalone!Running, Standalone!AllCalls
  <2>3. LockInv'
    BY DEF ThreadTypes, PlaceInv, LockInv, Standalone!Running, Standalone!AllCalls
  <2>4. OneRunner' /\ RunnerInv'
    BY DEF ThreadTypes, PlaceInv, RunInv, OneRunner, RunnerInv, Standalone!Running
  <2>5. PortalInv'
    BY DEF ThreadTypes, PlaceInv, RunInv, OneRunner, PortalInv, Standalone!Running
  <2>6. CallsAnswered'
    BY DEF ThreadTypes, PlaceInv, LockInv, RunInv, PortalInv, CallsAnswered, Standalone!Running
  <2>7. ShutInv'
    BY DEF ThreadTypes, PlaceInv, LockInv, RunInv, OneRunner, ShutInv, Standalone!Running
  <2> QED BY <2>1, <2>2, <2>3, <2>4, <2>5, <2>6, <2>7 DEF RunInv
<1>7. CASE Standalone!ClosePortal(t)
  <2> USE <1>0, <1>7 DEF Standalone!ClosePortal
  <2>1. ThreadTypes'
    BY DEF ThreadTypes, Places, Standalone!Running
  <2>2. PlaceInv'
    BY DEF ThreadTypes, PlaceInv, Standalone!Running, Standalone!AllCalls
  <2>3. LockInv'
    BY DEF ThreadTypes, PlaceInv, LockInv, Standalone!Running, Standalone!AllCalls
  <2>4. OneRunner' /\ RunnerInv'
    BY DEF ThreadTypes, PlaceInv, RunInv, OneRunner, RunnerInv, Standalone!Running
  <2>5. PortalInv'
    BY DEF ThreadTypes, PlaceInv, RunInv, OneRunner, PortalInv, Standalone!Running
  <2>6. CallsAnswered'
    BY DEF ThreadTypes, PlaceInv, LockInv, RunInv, PortalInv, CallsAnswered, Standalone!Running
  <2>7. ShutInv'
    BY DEF ThreadTypes, PlaceInv, LockInv, RunInv, OneRunner, ShutInv, Standalone!Running
  <2> QED BY <2>1, <2>2, <2>3, <2>4, <2>5, <2>6, <2>7 DEF RunInv
<1>8. CASE Standalone!LoopEnds(t)
  <2> USE <1>0, <1>8 DEF Standalone!LoopEnds, Standalone!PortalDrained
  <2>1. ThreadTypes'
    BY DEF ThreadTypes, Places, Standalone!Running
  <2>2. PlaceInv'
    BY DEF ThreadTypes, PlaceInv, Standalone!Running, Standalone!AllCalls
  <2>3. LockInv'
    BY DEF ThreadTypes, PlaceInv, LockInv, Standalone!Running, Standalone!AllCalls
  <2>4. OneRunner' /\ RunnerInv'
    BY DEF ThreadTypes, PlaceInv, RunInv, OneRunner, RunnerInv, Standalone!Running
  <2>5. PortalInv'
    BY DEF ThreadTypes, PlaceInv, RunInv, OneRunner, PortalInv, Standalone!Running
  <2>6. CallsAnswered'
    BY DEF ThreadTypes, PlaceInv, LockInv, RunInv, PortalInv, CallsAnswered, Standalone!Running
  <2>7. ShutInv'
    BY DEF ThreadTypes, PlaceInv, LockInv, RunInv, OneRunner, ShutInv, Standalone!Running
  <2> QED BY <2>1, <2>2, <2>3, <2>4, <2>5, <2>6, <2>7 DEF RunInv
<1>9. CASE Standalone!RunEnds(t)
  <2> USE <1>0, <1>9 DEF Standalone!RunEnds
  <2>1. ThreadTypes'
    BY DEF ThreadTypes, Places, Standalone!Running
  <2>2. PlaceInv'
    BY DEF ThreadTypes, PlaceInv, Standalone!Running, Standalone!AllCalls
  <2>3. LockInv'
    BY DEF ThreadTypes, PlaceInv, LockInv, Standalone!Running, Standalone!AllCalls
  <2>4. OneRunner' /\ RunnerInv'
    BY DEF ThreadTypes, PlaceInv, RunInv, OneRunner, RunnerInv, Standalone!Running
  <2>5. PortalInv'
    BY DEF ThreadTypes, PlaceInv, RunInv, OneRunner, PortalInv, Standalone!Running
  <2>6. CallsAnswered'
    BY DEF ThreadTypes, PlaceInv, LockInv, RunInv, PortalInv, CallsAnswered, Standalone!Running
  <2>7. ShutInv'
    BY DEF ThreadTypes, PlaceInv, LockInv, RunInv, OneRunner, ShutInv, Standalone!Running
  <2> QED BY <2>1, <2>2, <2>3, <2>4, <2>5, <2>6, <2>7 DEF RunInv
<1>10. CASE Standalone!TakeCloseLock(t)
  <2> USE <1>0, <1>10 DEF Standalone!TakeCloseLock, Standalone!IsRefused
  <2>1. ThreadTypes'
    BY DEF ThreadTypes, Places, Standalone!Running
  <2>2. PlaceInv'
    BY DEF ThreadTypes, PlaceInv, Standalone!Running, Standalone!AllCalls
  <2>3. LockInv'
    BY DEF ThreadTypes, PlaceInv, LockInv, Standalone!Running, Standalone!AllCalls
  <2>4. OneRunner' /\ RunnerInv'
    BY DEF ThreadTypes, PlaceInv, RunInv, OneRunner, RunnerInv, Standalone!Running
  <2>5. PortalInv'
    BY DEF ThreadTypes, PlaceInv, RunInv, OneRunner, PortalInv, Standalone!Running
  <2>6. CallsAnswered'
    BY DEF ThreadTypes, PlaceInv, LockInv, RunInv, PortalInv, CallsAnswered, Standalone!Running
  <2>7. ShutInv'
    BY DEF ThreadTypes, PlaceInv, LockInv, RunInv, OneRunner, ShutInv, Standalone!Running
  <2> QED BY <2>1, <2>2, <2>3, <2>4, <2>5, <2>6, <2>7 DEF RunInv
<1>11. CASE Standalone!ReadPortal(t)
  <2> USE <1>0, <1>11 DEF Standalone!ReadPortal, Standalone!AfterCall
  <2>1. ThreadTypes'
    BY DEF ThreadTypes, Places, Standalone!Running
  <2>2. PlaceInv'
    BY DEF ThreadTypes, PlaceInv, Standalone!Running, Standalone!AllCalls
  <2>3. LockInv'
    BY DEF ThreadTypes, PlaceInv, LockInv, Standalone!Running, Standalone!AllCalls
  <2>4. OneRunner' /\ RunnerInv'
    BY DEF ThreadTypes, PlaceInv, RunInv, OneRunner, RunnerInv, Standalone!Running
  <2>5. PortalInv'
    BY DEF ThreadTypes, PlaceInv, RunInv, OneRunner, PortalInv, Standalone!Running
  <2>6. CallsAnswered'
    BY DEF ThreadTypes, PlaceInv, LockInv, RunInv, PortalInv, CallsAnswered, Standalone!Running
  <2>7. ShutInv'
    <3>1. \A u \in Threads :
            /\ call'[u] = "serve_forever" => call[u] = "serve_forever" /\ at'[u] = at[u]
            /\ at'[u] = "activating" => at[u] = "activating"
      BY DEF ThreadTypes, PlaceInv, Standalone!Running
    <3>2. isClosed => isClosed'
      BY DEF ThreadTypes
    <3> QED BY <3>1, <3>2 DEF ShutInv
  <2> QED BY <2>1, <2>2, <2>3, <2>4, <2>5, <2>6, <2>7 DEF RunInv
<1>12. CASE Standalone!RunShutdown(t)
  <2> USE <1>0, <1>12 DEF Standalone!RunShutdown, Standalone!CallEnds, Standalone!AfterCall
  <2>1. ThreadTypes'
    BY DEF ThreadTypes, Places, Standalone!Running
  <2>2. PlaceInv'
    BY DEF ThreadTypes, PlaceInv, Standalone!Running, Standalone!AllCalls
  <2>3. LockInv'
    BY DEF ThreadTypes, PlaceInv, LockInv, Standalone!Running, Standalone!AllCalls
  <2>4. OneRunner' /\ RunnerInv'
    BY DEF ThreadTypes, PlaceInv, RunInv, OneRunner, RunnerInv, Standalone!Running
  <2>5. PortalInv'
    BY DEF ThreadTypes, PlaceInv, RunInv, OneRunner, PortalInv, Standalone!Running
  <2>6. CallsAnswered'
    BY DEF ThreadTypes, PlaceInv, LockInv, RunInv, PortalInv, CallsAnswered, Standalone!Running
  <2>7. ShutInv'
    <3>1. \A u \in Threads :
            /\ call'[u] = "serve_forever" => call[u] = "serve_forever" /\ at'[u] = at[u]
            /\ at'[u] = "activating" => at[u] = "activating"
      BY DEF ThreadTypes, PlaceInv, Standalone!Running
    <3>2. isClosed => isClosed'
      BY DEF ThreadTypes
    <3> QED BY <3>1, <3>2 DEF ShutInv
  <2> QED BY <2>1, <2>2, <2>3, <2>4, <2>5, <2>6, <2>7 DEF RunInv
<1>13. CASE Standalone!RunClose(t)
  <2> USE <1>0, <1>13 DEF Standalone!RunClose, Standalone!CallEnds, Standalone!AfterCall, Standalone!RefusesClose
  <2>1. ThreadTypes'
    BY DEF ThreadTypes, Places, Standalone!Running
  <2>2. PlaceInv'
    BY DEF ThreadTypes, PlaceInv, Standalone!Running, Standalone!AllCalls
  <2>3. LockInv'
    BY DEF ThreadTypes, PlaceInv, LockInv, Standalone!Running, Standalone!AllCalls
  <2>4. OneRunner' /\ RunnerInv'
    BY DEF ThreadTypes, PlaceInv, RunInv, OneRunner, RunnerInv, Standalone!Running
  <2>5. PortalInv'
    BY DEF ThreadTypes, PlaceInv, RunInv, OneRunner, PortalInv, Standalone!Running
  <2>6. CallsAnswered'
    BY DEF ThreadTypes, PlaceInv, LockInv, RunInv, PortalInv, CallsAnswered, Standalone!Running
  <2>7. ShutInv'
    <3>1. \A u \in Threads :
            /\ call'[u] = "serve_forever" => call[u] = "serve_forever" /\ at'[u] = at[u]
            /\ at'[u] = "activating" => at[u] = "activating"
      BY DEF ThreadTypes, PlaceInv, Standalone!Running
    <3>2. isClosed => isClosed'
      BY DEF ThreadTypes
    <3>3. isClosed'
      OBVIOUS
    <3>4. closeLock = t
      BY DEF LockInv
    <3>5. CASE Standalone!RefusesClose
      <4>1. UNCHANGED <<stop, threadListening, shut>>
        BY <3>5
      <4> QED BY <3>1, <3>2, <4>1 DEF ShutInv
    <3>6. CASE ~Standalone!RefusesClose
      <4>1. ~threadListening' /\ (stop' \/ ~\E u \in Threads : at[u] = "activating")
        BY <3>6
      <4>2. \A u \in Threads : call[u] = "serve_forever" => at[u] \notin {"want_boot_lock", "booting"}
        BY <3>4 DEF LockInv
      <4> QED BY <3>1, <3>3, <4>1, <4>2 DEF ShutInv
    <3> QED BY <3>5, <3>6
  <2> QED BY <2>1, <2>2, <2>3, <2>4, <2>5, <2>6, <2>7 DEF RunInv
<1>14. CASE Standalone!RunIsServing(t)
  <2> USE <1>0, <1>14 DEF Standalone!RunIsServing, Standalone!CallEnds, Standalone!AfterCall
  <2>1. ThreadTypes'
    BY DEF ThreadTypes, Places, Standalone!Running
  <2>2. PlaceInv'
    BY DEF ThreadTypes, PlaceInv, Standalone!Running, Standalone!AllCalls
  <2>3. LockInv'
    BY DEF ThreadTypes, PlaceInv, LockInv, Standalone!Running, Standalone!AllCalls
  <2>4. OneRunner' /\ RunnerInv'
    BY DEF ThreadTypes, PlaceInv, RunInv, OneRunner, RunnerInv, Standalone!Running
  <2>5. PortalInv'
    BY DEF ThreadTypes, PlaceInv, RunInv, OneRunner, PortalInv, Standalone!Running
  <2>6. CallsAnswered'
    BY DEF ThreadTypes, PlaceInv, LockInv, RunInv, PortalInv, CallsAnswered, Standalone!Running
  <2>7. ShutInv'
    BY DEF ThreadTypes, PlaceInv, LockInv, RunInv, OneRunner, ShutInv, Standalone!Running
  <2> QED BY <2>1, <2>2, <2>3, <2>4, <2>5, <2>6, <2>7 DEF RunInv
<1>15. CASE Standalone!IsDown(t)
  <2> USE <1>0, <1>15 DEF Standalone!IsDown, Standalone!CallEnds, Standalone!AfterCall
  <2>1. ThreadTypes'
    BY DEF ThreadTypes, Places, Standalone!Running
  <2>2. PlaceInv'
    BY DEF ThreadTypes, PlaceInv, Standalone!Running, Standalone!AllCalls
  <2>3. LockInv'
    BY DEF ThreadTypes, PlaceInv, LockInv, Standalone!Running, Standalone!AllCalls
  <2>4. OneRunner' /\ RunnerInv'
    BY DEF ThreadTypes, PlaceInv, RunInv, OneRunner, RunnerInv, Standalone!Running
  <2>5. PortalInv'
    BY DEF ThreadTypes, PlaceInv, RunInv, OneRunner, PortalInv, Standalone!Running
  <2>6. CallsAnswered'
    BY DEF ThreadTypes, PlaceInv, LockInv, RunInv, PortalInv, CallsAnswered, Standalone!Running
  <2>7. ShutInv'
    <3>1. \A u \in Threads :
            /\ call'[u] = "serve_forever" => call[u] = "serve_forever" /\ at'[u] = at[u]
            /\ at'[u] = "activating" => at[u] = "activating"
      BY DEF ThreadTypes, PlaceInv, Standalone!Running
    <3>2. isClosed => isClosed'
      BY DEF ThreadTypes
    <3> QED BY <3>1, <3>2 DEF ShutInv
  <2> QED BY <2>1, <2>2, <2>3, <2>4, <2>5, <2>6, <2>7 DEF RunInv
<1>16. CASE Standalone!WaitReturns(t)
  <2> USE <1>0, <1>16 DEF Standalone!WaitReturns
  <2>1. ThreadTypes'
    BY DEF ThreadTypes, Places, Standalone!Running
  <2>2. PlaceInv'
    BY DEF ThreadTypes, PlaceInv, Standalone!Running, Standalone!AllCalls
  <2>3. LockInv'
    BY DEF ThreadTypes, PlaceInv, LockInv, Standalone!Running, Standalone!AllCalls
  <2>4. OneRunner' /\ RunnerInv'
    BY DEF ThreadTypes, PlaceInv, RunInv, OneRunner, RunnerInv, Standalone!Running
  <2>5. PortalInv'
    BY DEF ThreadTypes, PlaceInv, RunInv, OneRunner, PortalInv, Standalone!Running
  <2>6. CallsAnswered'
    BY DEF ThreadTypes, PlaceInv, LockInv, RunInv, PortalInv, CallsAnswered, Standalone!Running
  <2>7. ShutInv'
    BY DEF ThreadTypes, PlaceInv, LockInv, RunInv, OneRunner, ShutInv, Standalone!Running
  <2> QED BY <2>1, <2>2, <2>3, <2>4, <2>5, <2>6, <2>7 DEF RunInv
<1>17. CASE Standalone!TimedOut(t)
  <2> USE <1>0, <1>17 DEF Standalone!TimedOut, Standalone!CallEnds, Standalone!AfterCall
  <2>1. ThreadTypes'
    BY DEF ThreadTypes, Places, Standalone!Running
  <2>2. PlaceInv'
    BY DEF ThreadTypes, PlaceInv, Standalone!Running, Standalone!AllCalls
  <2>3. LockInv'
    BY DEF ThreadTypes, PlaceInv, LockInv, Standalone!Running, Standalone!AllCalls
  <2>4. OneRunner' /\ RunnerInv'
    BY DEF ThreadTypes, PlaceInv, RunInv, OneRunner, RunnerInv, Standalone!Running
  <2>5. PortalInv'
    BY DEF ThreadTypes, PlaceInv, RunInv, OneRunner, PortalInv, Standalone!Running
  <2>6. CallsAnswered'
    BY DEF ThreadTypes, PlaceInv, LockInv, RunInv, PortalInv, CallsAnswered, Standalone!Running
  <2>7. ShutInv'
    BY DEF ThreadTypes, PlaceInv, LockInv, RunInv, OneRunner, ShutInv, Standalone!Running
  <2> QED BY <2>1, <2>2, <2>3, <2>4, <2>5, <2>6, <2>7 DEF RunInv
<1> QED BY <1>1, <1>2, <1>3, <1>4, <1>5, <1>6, <1>7, <1>8, <1>9, <1>10, <1>11, <1>12, <1>13, <1>14, <1>15, <1>16, <1>17 DEF Standalone!RunStep, Standalone!ControlStep

LEMMA ThreadCallInv ==
  ASSUME ThreadInv, NEW t \in Threads, NEW c \in Calls, Standalone!Call(t, c)
  PROVE  ThreadInv'
<1> USE DEF ThreadInv, Standalone!Call, Standalone!Goes, Standalone!LoopIs, Standalone!locks, Standalone!flags,
            Standalone!loop
<1>0. None \notin Threads /\ Calls \subseteq Standalone!AllCalls
  BY NoneIsNoThread
<1>1. ThreadTypes'
  BY DEF ThreadTypes, Places, Standalone!Running
<1>2. PlaceInv'
  BY <1>0 DEF ThreadTypes, PlaceInv, Standalone!Running, Standalone!AllCalls
<1>3. LockInv'
  BY <1>0 DEF ThreadTypes, PlaceInv, LockInv, Standalone!Running, Standalone!AllCalls
<1>4. RunInv'
  BY DEF ThreadTypes, PlaceInv, RunInv, OneRunner, RunnerInv, PortalInv, CallsAnswered, Standalone!Running
<1>5. ShutInv'
  BY DEF ThreadTypes, PlaceInv, LockInv, ShutInv, Standalone!Running
<1> QED BY <1>1, <1>2, <1>3, <1>4, <1>5

\* The calls of serve_forever() that are to come are as many as the bound allows.
ToCome == Standalone!NotYetRunning

LEMMA RunsStepInv ==
  ASSUME ThreadInv, RunsInv, NEW t \in Threads,
         \/ Standalone!RunStep(t) \/ Standalone!ControlStep(t)
         \/ \E c \in Calls : Standalone!Call(t, c)
  PROVE  RunsInv'
<1> USE DEF ThreadInv, Standalone!Goes, Standalone!Returns, Standalone!locks, Standalone!flags, Standalone!loop
<1>0. /\ runs \in Nat /\ IsFiniteSet(ToCome) /\ Cardinality(ToCome) \in Nat /\ runs + Cardinality(ToCome) <= MaxRuns
      /\ MaxRuns \in Nat
  BY RunsAreBounded, FS_CardinalityType DEF RunsInv, ToCome
<1>1. CASE ToCome' = ToCome /\ runs' = runs
  BY <1>0, <1>1 DEF RunsInv, ToCome
<1>2. ASSUME ToCome = ToCome' \cup {t}, t \notin ToCome', runs' \in {runs, runs + 1} PROVE RunsInv'
  <2>1. ToCome' = ToCome \ {t}
    BY <1>2
  <2>2. IsFiniteSet(ToCome')
    BY <1>0, <2>1, FS_Subset
  <2>3. Cardinality(ToCome) = Cardinality(ToCome') + 1 /\ Cardinality(ToCome') \in Nat
    BY <1>2, <2>2, CardinalityMoves, FS_CardinalityType
  <2> HIDE DEF ToCome
  <2>4. runs' \in Nat /\ runs' + Cardinality(ToCome') <= MaxRuns
    BY <1>0, <1>2, <2>3
  <2> QED BY <2>2, <2>4 DEF RunsInv, ToCome
<1>3. ASSUME NEW c \in Calls, Standalone!Call(t, c) PROVE RunsInv'
  <2>1. CASE c = "serve_forever"
    <3>1. t \notin ToCome /\ ToCome' = ToCome \cup {t}
      BY <1>3, <2>1 DEF Standalone!Call, ToCome, Standalone!NotYetRunning, ThreadTypes, PlaceInv, Standalone!Running
    <3>2. runs' = runs /\ runs + Cardinality(ToCome) < MaxRuns
      <4>1. runs + Cardinality(Standalone!NotYetRunning) < MaxRuns /\ runs' = runs
        BY <1>3, <2>1, SameCardinality DEF Standalone!Call
      <4> QED BY <4>1 DEF ToCome
    <3>3. IsFiniteSet(ToCome') /\ Cardinality(ToCome') = Cardinality(ToCome) + 1
      BY <1>0, <3>1, FS_AddElement
    <3>4. runs' + Cardinality(ToCome') <= MaxRuns /\ runs' \in Nat
      BY <1>0, <3>2, <3>3
    <3> QED BY <3>3, <3>4 DEF RunsInv, ToCome
  <2>2. CASE c # "serve_forever"
    <3>1. ToCome' = ToCome /\ runs' = runs
      BY <1>3, <2>2 DEF Standalone!Call, ToCome, Standalone!NotYetRunning, ThreadTypes, PlaceInv
    <3> QED BY <1>1, <3>1
  <2> QED BY <2>1, <2>2
<1>4. CASE Standalone!TakeCloseLock(t)
  <2>1. CASE Standalone!IsRefused(t)
    <3>1. t \in ToCome /\ ToCome' = ToCome \ {t} /\ runs' = runs
      BY <1>4, <2>1 DEF Standalone!TakeCloseLock, Standalone!IsRefused, ToCome, Standalone!NotYetRunning, ThreadTypes,
                       Standalone!Running
    <3> QED BY <1>2, <3>1
  <2>2. CASE ~Standalone!IsRefused(t)
    <3>1. ToCome' = ToCome /\ runs' = runs
      BY <1>4, <2>2 DEF Standalone!TakeCloseLock, ToCome, Standalone!NotYetRunning, ThreadTypes, Standalone!Running
    <3> QED BY <1>1, <3>1
  <2> QED BY <2>1, <2>2
<1>5. CASE Standalone!TakeBootLock(t)
  <2>1. t \in ToCome /\ ToCome' = ToCome \ {t} /\ runs' \in {runs, runs + 1}
    BY <1>5 DEF Standalone!TakeBootLock, ToCome, Standalone!NotYetRunning, ThreadTypes, Standalone!Running
  <2> QED BY <1>2, <2>1
<1>6. CASE Standalone!Booted(t)
  <2>1. ToCome' = ToCome /\ runs' = runs
    BY <1>6 DEF Standalone!Booted, Standalone!CallEnds, Standalone!AfterCall, ToCome, Standalone!NotYetRunning,
         ThreadTypes, PlaceInv, Standalone!Running
  <2> QED BY <1>1, <2>1
<1>7. CASE Standalone!BootFails(t)
  <2>1. ToCome' = ToCome /\ runs' = runs
    BY <1>7 DEF Standalone!BootFails, Standalone!CallEnds, Standalone!AfterCall, ToCome, Standalone!NotYetRunning,
         ThreadTypes, PlaceInv, Standalone!Running
  <2> QED BY <1>1, <2>1
<1>8. CASE Standalone!Activated(t)
  <2>1. ToCome' = ToCome /\ runs' = runs
    BY <1>8 DEF Standalone!Activated, Standalone!CallEnds, Standalone!AfterCall, ToCome, Standalone!NotYetRunning,
         ThreadTypes, PlaceInv, Standalone!Running
  <2> QED BY <1>1, <2>1
<1>9. CASE Standalone!Initialized(t)
  <2>1. ToCome' = ToCome /\ runs' = runs
    BY <1>9 DEF Standalone!Initialized, Standalone!CallEnds, Standalone!AfterCall, ToCome, Standalone!NotYetRunning,
         ThreadTypes, PlaceInv, Standalone!Running
  <2> QED BY <1>1, <2>1
<1>10. CASE Standalone!LoopBreaks(t)
  <2>1. ToCome' = ToCome /\ runs' = runs
    BY <1>10 DEF Standalone!LoopBreaks, Standalone!CallEnds, Standalone!AfterCall, ToCome, Standalone!NotYetRunning,
         ThreadTypes, PlaceInv, Standalone!Running
  <2> QED BY <1>1, <2>1
<1>11. CASE Standalone!ClosePortal(t)
  <2>1. ToCome' = ToCome /\ runs' = runs
    BY <1>11 DEF Standalone!ClosePortal, Standalone!CallEnds, Standalone!AfterCall, ToCome, Standalone!NotYetRunning,
         ThreadTypes, PlaceInv, Standalone!Running
  <2> QED BY <1>1, <2>1
<1>12. CASE Standalone!LoopEnds(t)
  <2>1. ToCome' = ToCome /\ runs' = runs
    BY <1>12 DEF Standalone!LoopEnds, Standalone!CallEnds, Standalone!AfterCall, ToCome, Standalone!NotYetRunning,
         ThreadTypes, PlaceInv, Standalone!Running
  <2> QED BY <1>1, <2>1
<1>13. CASE Standalone!RunEnds(t)
  <2>1. ToCome' = ToCome /\ runs' = runs
    BY <1>13 DEF Standalone!RunEnds, Standalone!CallEnds, Standalone!AfterCall, ToCome, Standalone!NotYetRunning,
         ThreadTypes, PlaceInv, Standalone!Running
  <2> QED BY <1>1, <2>1
<1>14. CASE Standalone!ReadPortal(t)
  <2>1. ToCome' = ToCome /\ runs' = runs
    BY <1>14 DEF Standalone!ReadPortal, Standalone!CallEnds, Standalone!AfterCall, ToCome, Standalone!NotYetRunning,
         ThreadTypes, PlaceInv, Standalone!Running
  <2> QED BY <1>1, <2>1
<1>15. CASE Standalone!RunShutdown(t)
  <2>1. ToCome' = ToCome /\ runs' = runs
    BY <1>15 DEF Standalone!RunShutdown, Standalone!CallEnds, Standalone!AfterCall, ToCome, Standalone!NotYetRunning,
         ThreadTypes, PlaceInv, Standalone!Running
  <2> QED BY <1>1, <2>1
<1>16. CASE Standalone!RunClose(t)
  <2>1. ToCome' = ToCome /\ runs' = runs
    BY <1>16 DEF Standalone!RunClose, Standalone!CallEnds, Standalone!AfterCall, ToCome, Standalone!NotYetRunning,
         ThreadTypes, PlaceInv, Standalone!Running
  <2> QED BY <1>1, <2>1
<1>17. CASE Standalone!RunIsServing(t)
  <2>1. ToCome' = ToCome /\ runs' = runs
    BY <1>17 DEF Standalone!RunIsServing, Standalone!CallEnds, Standalone!AfterCall, ToCome, Standalone!NotYetRunning,
         ThreadTypes, PlaceInv, Standalone!Running
  <2> QED BY <1>1, <2>1
<1>18. CASE Standalone!IsDown(t)
  <2>1. ToCome' = ToCome /\ runs' = runs
    BY <1>18 DEF Standalone!IsDown, Standalone!CallEnds, Standalone!AfterCall, ToCome, Standalone!NotYetRunning,
         ThreadTypes, PlaceInv, Standalone!Running
  <2> QED BY <1>1, <2>1
<1>19. CASE Standalone!WaitReturns(t)
  <2>1. ToCome' = ToCome /\ runs' = runs
    BY <1>19 DEF Standalone!WaitReturns, Standalone!CallEnds, Standalone!AfterCall, ToCome, Standalone!NotYetRunning,
         ThreadTypes, PlaceInv, Standalone!Running
  <2> QED BY <1>1, <2>1
<1>20. CASE Standalone!TimedOut(t)
  <2>1. ToCome' = ToCome /\ runs' = runs
    BY <1>20 DEF Standalone!TimedOut, Standalone!CallEnds, Standalone!AfterCall, ToCome, Standalone!NotYetRunning,
         ThreadTypes, PlaceInv, Standalone!Running
  <2> QED BY <1>1, <2>1
<1> QED BY <1>3, <1>4, <1>5, <1>6, <1>7, <1>8, <1>9, <1>10, <1>11, <1>12, <1>13, <1>14, <1>15, <1>16, <1>17, <1>18, <1>19, <1>20
     DEF Standalone!RunStep, Standalone!ControlStep

\* What the properties say of the threads.
LEMMA ThreadProperties ==
  ThreadInv /\ RunsInv =>
    Standalone!TypeOK /\ Standalone!OneRun /\ Standalone!NobodyCallsADeadLoop /\ Standalone!ClosedForGood
<1> SUFFICES ASSUME ThreadInv, RunsInv
             PROVE  Standalone!TypeOK /\ Standalone!OneRun /\ Standalone!NobodyCallsADeadLoop /\ Standalone!ClosedForGood
  OBVIOUS
<1> USE DEF ThreadInv, RunInv
<1>1. Standalone!TypeOK
  <2>1. runs \in 0..MaxRuns
    <3>1. Cardinality(ToCome) \in Nat
      BY FS_CardinalityType DEF RunsInv, ToCome
    <3> QED BY <3>1, RunsAreBounded DEF RunsInv, ToCome
  <2> QED BY <2>1 DEF Standalone!TypeOK, ThreadTypes, PlaceInv, LockInv
<1>2. Standalone!OneRun
  <2> DEFINE R == {t \in Threads : at[t] \in Standalone!Running}
  <2>1. CASE isShutdown
    <3>1. R = {}
      BY <2>1 DEF RunnerInv
    <3>2. Cardinality(R) = (IF isShutdown THEN 0 ELSE 1)
      BY <2>1, <3>1, FS_EmptySet
    <3>3. portal = "none" /\ ~Standalone!LoopIs(Standalone!Running \ {"booting"})
      BY <2>1 DEF RunnerInv, PortalInv, ThreadTypes, Standalone!LoopIs, Standalone!Running
    <3> QED BY <3>2, <3>3, SameCardinality DEF Standalone!OneRun
  <2>2. CASE ~isShutdown
    <3>1. PICK t \in Threads : at[t] \in Standalone!Running
      BY <2>2 DEF RunnerInv
    <3>2. R = {t}
      BY <3>1 DEF OneRunner
    <3>3. Cardinality(R) = (IF isShutdown THEN 0 ELSE 1)
      BY <2>2, <3>2, FS_Singleton
    <3>4. portal = "none" <=> ~Standalone!LoopIs(Standalone!Running \ {"booting"})
      <4>1. portal = "none" <=> at[t] = "booting"
        BY <3>1 DEF PortalInv, ThreadTypes, OneRunner, Standalone!Running
      <4>2. Standalone!LoopIs(Standalone!Running \ {"booting"}) <=> at[t] # "booting"
        BY <3>1 DEF OneRunner, Standalone!LoopIs
      <4> QED BY <4>1, <4>2
    <3> QED BY <3>3, <3>4, SameCardinality DEF Standalone!OneRun
  <2> QED BY <2>1, <2>2
<1>3. Standalone!NobodyCallsADeadLoop
  BY DEF CallsAnswered, Standalone!NobodyCallsADeadLoop, Standalone!LoopIs
<1> QED BY <1>1, <1>2, <1>3 DEF ShutInv, Standalone!ClosedForGood


-----------------------------------------------------------------------------
(* Steps of the pair *)

LEMMA PairInit == Pair!Init => PairInv
  BY DEF Pair!Init, PairInv, Pair!Halves, Pair!BothAreClosed

LEMMA PairStepInv == PairInv /\ Pair!Next => PairInv'
<1> SUFFICES ASSUME PairInv, Pair!Next PROVE PairInv'
  OBVIOUS
<1>1. ASSUME NEW t \in Owners, Pair!SendEof(t) PROVE PairInv'
  BY <1>1 DEF PairInv, Pair!SendEof, Pair!Begins, Pair!Halves, Pair!BothAreClosed
<1>2. ASSUME NEW t \in Owners, Pair!Aclose(t) PROVE PairInv'
  BY <1>2 DEF PairInv, Pair!Aclose, Pair!Begins, Pair!Halves, Pair!BothAreClosed
<1>3. ASSUME NEW t \in Owners, NEW error \in BOOLEAN, Pair!HalfCloses(t, error) PROVE PairInv'
  BY <1>3 DEF PairInv, Pair!HalfCloses, Pair!AfterSending, Pair!Awaited, Pair!Begins, Pair!Halves, Pair!BothAreClosed
<1> QED BY <1>1, <1>2, <1>3 DEF Pair!Next


-----------------------------------------------------------------------------
(* Steps of the listener *)

\* A callback is one of those of the loop and of the listener, or a step of a client.
LEMMA DistinctCallbacks ==
  /\ {Accept, Retry, Done, Ends, Yielded, Skipped} \subseteq Listener!Callbacks
  /\ \A k \in Peers : <<"client", k>> \in Listener!Callbacks
                      /\ <<"client", k>> \notin {Accept, Retry, Done, Ends, Yielded, Skipped}
  /\ Accept \notin {Retry, Done, Ends, Yielded, Skipped} /\ Retry \notin {Done, Ends, Yielded, Skipped}
  /\ Done \notin {Ends, Yielded, Skipped} /\ Ends \notin {Yielded, Skipped} /\ Yielded # Skipped
  BY DEF Accept, Retry, Done, Ends, Yielded, Skipped, Listener!Cb, Listener!Callbacks

\* Where the callbacks are after the first one has run.
LEMMA RunsShift ==
  ASSUME ListenerTypes, NEW cb, NEW others \in Seq(Listener!Callbacks), Listener!Runs(cb, others)
  PROVE  /\ Len(ready) \in Nat \ {0} /\ ready[1] = cb /\ Len(others) \in Nat
         /\ ready' \in Seq(Listener!Callbacks) /\ todo' \in 0..Len(ready')
         /\ Len(ready') = Len(ready) - 1 + Len(others)
         /\ \A i \in 1..Len(ready') :
              ready'[i] = IF i < Len(ready) THEN ready[i + 1] ELSE others[i + 1 - Len(ready)]
<1>1. /\ todo > 0 /\ Head(ready) = cb /\ ready' = Tail(ready) \o others /\ todo' = todo - 1
      /\ ready \in Seq(Listener!Callbacks) /\ todo \in 0..Len(ready)
  BY DEF Listener!Runs, ListenerTypes
<1>2. Len(ready) \in Nat \ {0} /\ ready # <<>>
  BY <1>1, LenProperties, EmptySeq
<1> QED BY <1>1, <1>2, TailConcat

\* The callbacks of the connections that are accepted.
LEMMA StartsType ==
  ASSUME NEW ks \in Seq(Peers)
  PROVE  /\ Listener!Starts(ks) \in Seq(Listener!Callbacks) /\ Len(Listener!Starts(ks)) = Len(ks)
         /\ \A i \in 1..Len(ks) : Listener!Starts(ks)[i] \notin {Accept, Retry, Done, Ends, Yielded}
<1>1. Len(ks) \in Nat /\ DOMAIN ks = 1..Len(ks) /\ \A i \in 1..Len(ks) : ks[i] \in Peers
  BY LenProperties, ElementOfSeq
<1>2. Listener!Starts(ks) \in [1..Len(ks) -> Listener!Callbacks]
  BY <1>1, DistinctCallbacks DEF Listener!Starts
<1>3. Listener!Starts(ks) \in Seq(Listener!Callbacks)
  BY <1>1, <1>2, SeqDef
<1>4. Len(Listener!Starts(ks)) = Len(ks)
  BY <1>1, <1>2, <1>3, LenProperties
<1>5. \A i \in 1..Len(ks) : Listener!Starts(ks)[i] = <<"client", ks[i]>>
  BY <1>1 DEF Listener!Starts
<1> QED BY <1>1, <1>3, <1>4, <1>5, DistinctCallbacks

\* A step that keeps the callbacks in their order, but for a first one that is not the
\* end of the future, and adds none about the socket when it is unwatched.
LEMMA WatchKept ==
  ASSUME WatchInv, NEW d \in {0, 1},
         Len(ready) \in Nat, d <= Len(ready), d = 1 => ready[1] # Done,
         Len(ready') \in Nat, Len(ready') >= Len(ready) - d,
         \A i \in 1..(Len(ready) - d) : ready'[i] = ready[i + d],
         \A i \in (Len(ready) - d + 1)..Len(ready') :
           ready'[i] \notin {Ends, Yielded} /\ (Unwatched => ready'[i] \notin {Accept, Retry}),
         Unwatched => ~reader' /\ timer' = "no",
         UNCHANGED <<serveTask, future, acloseTask, socketClosed>>
  PROVE  WatchInv'
<1>1. Unwatched => Unwatched'
  BY DEF Unwatched
<1>2. \A i \in 1..Len(ready') :
        ready'[i] \in {Ends, Yielded} => i + d \in 1..Len(ready) /\ ready'[i] = ready[i + d]
  OBVIOUS
<1>3. ASSUME NEW j \in 1..Len(ready), ready[j] = Done PROVE j - d \in 1..Len(ready') /\ ready'[j - d] = Done
  <2>1. j - d \in 1..(Len(ready) - d)
    BY <1>3
  <2> QED BY <1>3, <2>1
<1>4. ASSUME NEW i \in 1..Len(ready'), ready'[i] \in {Ends, Yielded}
      PROVE  Unwatched' \/ \E j \in 1..(i - 1) : ready'[j] = Done
  <2>1. i + d \in 1..Len(ready) /\ ready[i + d] \in {Ends, Yielded}
    BY <1>2, <1>4
  <2>2. CASE Unwatched
    BY <1>1, <2>2
  <2>3. ASSUME NEW j \in 1..(i + d - 1), ready[j] = Done PROVE \E h \in 1..(i - 1) : ready'[h] = Done
    <3>1. j \in 1..Len(ready) /\ j - d \in 1..Len(ready') /\ ready'[j - d] = Done
      BY <1>3, <2>1, <2>3
    <3>2. j - d \in 1..(i - 1)
      BY <2>3, <3>1
    <3> QED BY <3>1, <3>2
  <2>4. Unwatched \/ \E j \in 1..(i + d - 1) : ready[j] = Done
    BY <2>1 DEF WatchInv
  <2> QED BY <2>2, <2>3, <2>4
<1>5. \A i, j \in 1..Len(ready') : ready'[i] = Ends /\ ready'[j] = Ends => i = j
  <2>1. ASSUME NEW i \in 1..Len(ready'), NEW j \in 1..Len(ready'), ready'[i] = Ends, ready'[j] = Ends PROVE i = j
    <3>1. i + d = j + d
      BY <1>2, <2>1 DEF WatchInv
    <3> QED BY <3>1
  <2> QED BY <2>1
<1>6. serveTask' = "woken" => Unwatched' \/ \E i \in 1..Len(ready') : ready'[i] = Done
  BY <1>1, <1>3 DEF WatchInv
<1>7. \A i \in 1..Len(ready') :
        /\ ready'[i] = Ends => serveTask' = "woken"
        /\ ready'[i] = Yielded => acloseTask' # "no"
  BY <1>2 DEF WatchInv
<1> QED BY <1>1, <1>4, <1>5, <1>6, <1>7 DEF WatchInv

\* The same of a callback that runs.
LEMMA RunsWatch ==
  ASSUME ListenerTypes, WatchInv, NEW cb, NEW others \in Seq(Listener!Callbacks), Listener!Runs(cb, others),
         cb # Done, \A i \in 1..Len(others) : others[i] \notin {Accept, Retry, Ends, Yielded},
         Unwatched => ~reader' /\ timer' = "no",
         UNCHANGED <<serveTask, future, acloseTask, socketClosed>>
  PROVE  WatchInv'
<1>1. /\ Len(ready) \in Nat \ {0} /\ ready[1] = cb /\ Len(others) \in Nat
      /\ Len(ready') = Len(ready) - 1 + Len(others)
      /\ \A i \in 1..Len(ready') :
           ready'[i] = IF i < Len(ready) THEN ready[i + 1] ELSE others[i + 1 - Len(ready)]
  BY RunsShift
<1>2. ASSUME NEW i \in (Len(ready) - 1 + 1)..Len(ready') PROVE ready'[i] \notin {Accept, Retry, Ends, Yielded}
  <2>1. i + 1 - Len(ready) \in 1..Len(others) /\ ready'[i] = others[i + 1 - Len(ready)]
    BY <1>1, <1>2
  <2> QED BY <2>1
<1>3. \A i \in 1..(Len(ready) - 1) : ready'[i] = ready[i + 1]
  BY <1>1
<1>4. 1 \in {0, 1} /\ Len(ready) \in Nat /\ 1 <= Len(ready) /\ Len(ready') \in Nat /\ Len(ready') >= Len(ready) - 1
  BY <1>1
<1> QED BY <1>1, <1>2, <1>3, <1>4, WatchKept

\* Callbacks that are scheduled go to the end.
LEMMA ScheduleProperties ==
  ASSUME ListenerTypes, NEW more \in Seq(Listener!Callbacks), ready' = ready \o more
  PROVE  /\ Len(ready) \in Nat /\ Len(more) \in Nat /\ Len(ready') = Len(ready) + Len(more)
         /\ ready' \in Seq(Listener!Callbacks)
         /\ \A i \in 1..Len(ready') : ready'[i] = IF i <= Len(ready) THEN ready[i] ELSE more[i - Len(ready)]
  BY ConcatProperties, LenProperties DEF ListenerTypes

\* What an iteration of the loop appends.
LEMMA PolledType ==
  /\ Listener!Polled \in Seq(Listener!Callbacks)
  /\ \A i \in 1..Len(Listener!Polled) :
       /\ Listener!Polled[i] \in {Accept, Retry}
       /\ reader \/ timer = "due"
<1> DEFINE a == IF reader /\ queue # <<>> THEN <<Accept>> ELSE <<>>
           b == IF timer = "due" THEN <<Retry>> ELSE <<>>
<1>1. Listener!Polled = a \o b
  BY DEF Listener!Polled, Accept, Retry
<1>2. /\ a \in Seq(Listener!Callbacks) /\ Len(a) \in {0, 1} /\ (Len(a) = 1 => reader /\ a[1] = Accept)
  BY DistinctCallbacks
<1>3. /\ b \in Seq(Listener!Callbacks) /\ Len(b) \in {0, 1} /\ (Len(b) = 1 => timer = "due" /\ b[1] = Retry)
  BY DistinctCallbacks
<1> HIDE DEF a, b
<1>4. /\ a \o b \in Seq(Listener!Callbacks) /\ Len(a \o b) = Len(a) + Len(b)
      /\ \A i \in 1..Len(a \o b) : (a \o b)[i] = IF i <= Len(a) THEN a[i] ELSE b[i - Len(a)]
  BY <1>2, <1>3, ConcatProperties
<1> QED BY <1>1, <1>2, <1>3, <1>4

LEMMA PollInv == ListenerTypes /\ WatchInv /\ Listener!Poll => ListenerTypes' /\ WatchInv'
<1> SUFFICES ASSUME ListenerTypes, WatchInv, Listener!Poll PROVE ListenerTypes' /\ WatchInv'
  OBVIOUS
<1>1. /\ ready' = ready \o Listener!Polled /\ todo' = Len(ready') /\ timer' = IF timer = "due" THEN "armed" ELSE timer
      /\ UNCHANGED <<reader, serveTask, future, acloseTask, socketClosed, freeDescriptors, queue, conn>>
  BY DEF Listener!Poll
<1>2. /\ Len(ready) \in Nat /\ Len(Listener!Polled) \in Nat /\ Len(ready') = Len(ready) + Len(Listener!Polled)
      /\ ready' \in Seq(Listener!Callbacks)
      /\ \A i \in 1..Len(ready') : ready'[i] = IF i <= Len(ready) THEN ready[i] ELSE Listener!Polled[i - Len(ready)]
  BY <1>1, PolledType, ScheduleProperties
<1>3. ListenerTypes'
  BY <1>1, <1>2 DEF ListenerTypes
<1>0. PICK d \in {0, 1} : d = 0
  OBVIOUS
<1>4. ASSUME NEW i \in (Len(ready) - d + 1)..Len(ready')
      PROVE  ready'[i] \notin {Ends, Yielded} /\ (Unwatched => ready'[i] \notin {Accept, Retry})
  <2>1. i - Len(ready) \in 1..Len(Listener!Polled) /\ ready'[i] = Listener!Polled[i - Len(ready)]
    BY <1>0, <1>2, <1>4
  <2>2. ready'[i] \in {Accept, Retry} /\ (reader \/ timer = "due")
    BY <2>1, PolledType
  <2> QED BY <2>2, DistinctCallbacks DEF Unwatched
<1>5. \A i \in 1..(Len(ready) - d) : ready'[i] = ready[i + d]
  BY <1>0, <1>2
<1>6. d <= Len(ready) /\ Len(ready') \in Nat /\ Len(ready') >= Len(ready) - d
  BY <1>0, <1>2
<1>7. Unwatched => ~reader' /\ timer' = "no"
  BY <1>1 DEF Unwatched
<1>8. d = 1 => ready[1] # Done
  BY <1>0
<1>9. WatchInv'
  BY <1>1, <1>2, <1>4, <1>5, <1>6, <1>7, <1>8, WatchKept
<1> QED BY <1>3, <1>9

\* Steps that leave the callbacks and the tasks alone.
LEMMA QuietInv ==
  ASSUME ListenerTypes, WatchInv, UNCHANGED <<ready, todo, serveTask, future, acloseTask, socketClosed>>,
         reader' = reader, timer' = timer \/ (timer = "armed" /\ timer' = "due"),
         freeDescriptors' \in BOOLEAN,
         conn' \in [Peers -> {"absent", "queued", "scheduled", "connecting", "handled", "closed", "dropped"}]
  PROVE  ListenerTypes' /\ WatchInv'
<1>1. ListenerTypes'
  BY DEF ListenerTypes
<1>2. Unwatched => Unwatched'
  BY DEF Unwatched
<1>3. WatchInv'
  BY <1>2 DEF WatchInv
<1> QED BY <1>1, <1>3

\* serve() starts on an unwatched socket.
LEMMA ServeInv == ListenerTypes /\ WatchInv /\ Listener!Serve => ListenerTypes' /\ WatchInv'
<1> SUFFICES ASSUME ListenerTypes, WatchInv, Listener!Serve PROVE ListenerTypes' /\ WatchInv'
  OBVIOUS
<1>1. /\ serveTask = "idle" /\ acloseTask = "no" /\ serveTask' = "waiting" /\ future' = "pending" /\ reader' = TRUE
      /\ UNCHANGED <<ready, todo, timer, acloseTask, socketClosed, freeDescriptors, queue, conn>>
  BY DEF Listener!Serve
<1>2. ListenerTypes'
  BY <1>1 DEF ListenerTypes, WatchInv, Unwatched
<1>3. \A i \in 1..Len(ready) : ready[i] \notin {Ends, Yielded}
  BY <1>1 DEF WatchInv
<1>4. WatchInv'
  BY <1>1, <1>3 DEF WatchInv
<1> QED BY <1>2, <1>4

\* The end of the future unwatches the socket.
LEMMA FutureDoneInv == ListenerTypes /\ WatchInv /\ Listener!OnFutureDone => ListenerTypes' /\ WatchInv'
<1> SUFFICES ASSUME ListenerTypes, WatchInv, Listener!OnFutureDone PROVE ListenerTypes' /\ WatchInv'
  OBVIOUS
<1> DEFINE tail == Tail(ready)
<1>1. /\ todo > 0 /\ Head(ready) = Done /\ reader' = FALSE /\ timer' = "no" /\ todo' = todo - 1
      /\ ready' = Listener!Cancelled(Listener!Cancelled(tail, {Accept}), {Retry})
      /\ UNCHANGED <<serveTask, future, acloseTask, socketClosed, freeDescriptors, queue, conn>>
  BY DEF Listener!OnFutureDone, Listener!StopsTimers, Accept, Retry, Done
<1>2. ready \in Seq(Listener!Callbacks) /\ ready # <<>> /\ todo \in 0..Len(ready)
  BY <1>1, EmptySeq DEF ListenerTypes
<1>3. /\ Len(ready) \in Nat \ {0} /\ ready[1] = Done /\ tail \in Seq(Listener!Callbacks)
      /\ Len(tail) = Len(ready) - 1 /\ \A i \in 1..Len(tail) : tail[i] = ready[i + 1]
  BY <1>1, <1>2, HeadTailProperties, LenProperties, EmptySeq
<1>4. DOMAIN tail = 1..Len(tail) /\ \A i \in 1..Len(tail) : tail[i] \in Listener!Callbacks
  BY <1>3, LenProperties, ElementOfSeq
<1> HIDE DEF tail
<1>5. ready' = [i \in 1..Len(tail) |-> IF tail[i] \in {Accept, Retry} THEN Skipped ELSE tail[i]]
  <2>1. Listener!Cancelled(tail, {Accept}) = [i \in 1..Len(tail) |-> IF tail[i] = Accept THEN Skipped ELSE tail[i]]
    BY <1>4 DEF Listener!Cancelled, Skipped
  <2>2. Listener!Cancelled(Listener!Cancelled(tail, {Accept}), {Retry})
          = [i \in 1..Len(tail) |-> IF tail[i] \in {Accept, Retry} THEN Skipped ELSE tail[i]]
    BY <2>1, DistinctCallbacks DEF Listener!Cancelled, Skipped
  <2> QED BY <1>1, <2>2
<1>6. ready' \in [1..Len(tail) -> Listener!Callbacks] /\ Len(tail) \in Nat
  BY <1>3, <1>4, <1>5, DistinctCallbacks
<1>7. ready' \in Seq(Listener!Callbacks) /\ Len(ready') = Len(ready) - 1
  <2>1. ready' \in Seq(Listener!Callbacks)
    BY <1>6, SeqDef
  <2> QED BY <1>3, <1>6, <2>1, LenProperties
<1>8. \A i \in 1..Len(ready') : ready'[i] = IF ready[i + 1] \in {Accept, Retry} THEN Skipped ELSE ready[i + 1]
  BY <1>3, <1>5, <1>7
<1>9. ListenerTypes'
  <2>1. todo' \in 0..Len(ready') /\ reader' = FALSE /\ timer' = "no"
    BY <1>1, <1>2, <1>3, <1>7
  <2>2. UNCHANGED <<serveTask, future, acloseTask, socketClosed, freeDescriptors, conn>>
    BY <1>1
  <2> QED BY <1>7, <2>1, <2>2 DEF ListenerTypes
<1>10. Unwatched'
  BY <1>1, <1>8, DistinctCallbacks DEF Unwatched
<1>11. \A i \in 1..Len(ready') :
         ready'[i] \in {Ends, Yielded} => i + 1 \in 1..Len(ready) /\ ready'[i] = ready[i + 1]
  BY <1>3, <1>7, <1>8, DistinctCallbacks
<1>12. \A i, j \in 1..Len(ready') : ready'[i] = Ends /\ ready'[j] = Ends => i = j
  <2>1. ASSUME NEW i \in 1..Len(ready'), NEW j \in 1..Len(ready'), ready'[i] = Ends, ready'[j] = Ends PROVE i = j
    <3>1. i + 1 = j + 1
      BY <1>11, <2>1 DEF WatchInv
    <3> QED BY <1>3, <1>7, <3>1
  <2> QED BY <2>1
<1>13. WatchInv'
  BY <1>1, <1>10, <1>11, <1>12 DEF WatchInv
<1> QED BY <1>9, <1>13

\* Most callbacks schedule nothing.
LEMMA NothingAdded == \E none \in Seq(Listener!Callbacks) : none = <<>> /\ Len(none) = 0 /\ 1..Len(none) = {}
<1> DEFINE none == <<>>
<1>1. none \in Seq(Listener!Callbacks) /\ Len(none) = 0 /\ 1..0 = {}
  OBVIOUS
<1> WITNESS none \in Seq(Listener!Callbacks)
<1> QED BY <1>1

\* A callback that is neither the end of the future nor of a task runs alone.
LEMMA PlainCallbackInv ==
  ASSUME ListenerTypes, WatchInv,
         Listener!SkipCancelled \/ Listener!AddReaderAgain \/ \E k \in Peers : Listener!ClientTask(k)
  PROVE  ListenerTypes' /\ WatchInv'
<1>1. PICK none \in Seq(Listener!Callbacks) : none = <<>> /\ Len(none) = 0 /\ 1..Len(none) = {}
  BY NothingAdded
<1>2. CASE Listener!SkipCancelled
  <2>1. /\ Listener!Runs(Skipped, none)
        /\ UNCHANGED <<reader, timer, serveTask, future, acloseTask, socketClosed, freeDescriptors, queue, conn>>
    BY <1>1, <1>2 DEF Listener!SkipCancelled, Skipped
  <2>2. WatchInv'
    BY <1>1, <2>1, RunsWatch, DistinctCallbacks DEF Unwatched
  <2>3. ready' \in Seq(Listener!Callbacks) /\ todo' \in 0..Len(ready')
    BY <1>1, <2>1, RunsShift
  <2> QED BY <2>1, <2>2, <2>3 DEF ListenerTypes
<1>3. CASE Listener!AddReaderAgain
  <2>1. /\ Listener!Runs(Retry, none) /\ reader' = TRUE /\ timer' = "no"
        /\ UNCHANGED <<serveTask, future, acloseTask, socketClosed, freeDescriptors, queue, conn>>
    BY <1>1, <1>3 DEF Listener!AddReaderAgain, Retry
  <2>2. ready' \in Seq(Listener!Callbacks) /\ todo' \in 0..Len(ready') /\ Len(ready) \in Nat \ {0} /\ ready[1] = Retry
    BY <1>1, <2>1, RunsShift
  <2>3. ~Unwatched
    BY <2>2 DEF Unwatched
  <2>4. WatchInv'
    BY <1>1, <2>1, <2>3, RunsWatch, DistinctCallbacks
  <2> QED BY <2>1, <2>2, <2>4 DEF ListenerTypes
<1>4. ASSUME NEW k \in Peers, Listener!ClientTask(k) PROVE ListenerTypes' /\ WatchInv'
  <2> DEFINE cb == <<"client", k>>
  <2>1. /\ Listener!Runs(cb, none)
        /\ conn' = IF conn[k] = "scheduled" THEN [conn EXCEPT ![k] = "connecting"] ELSE conn
        /\ UNCHANGED <<reader, timer, serveTask, future, acloseTask, socketClosed, freeDescriptors, queue>>
    BY <1>1, <1>4 DEF Listener!ClientTask
  <2>2. cb # Done
    BY DistinctCallbacks
  <2> HIDE DEF cb
  <2>3. WatchInv'
    BY <1>1, <2>1, <2>2, RunsWatch DEF Unwatched
  <2>4. ready' \in Seq(Listener!Callbacks) /\ todo' \in 0..Len(ready')
    BY <1>1, <2>1, RunsShift
  <2> QED BY <2>1, <2>3, <2>4 DEF ListenerTypes
<1> QED BY <1>2, <1>3, <1>4

\* The callbacks that end the future and wake serve().
LEMMA FinishedType ==
  /\ Listener!Finished \in Seq(Listener!Callbacks) /\ Len(Listener!Finished) = 2
  /\ Listener!Finished[1] = Done /\ Listener!Finished[2] = Ends
  BY DistinctCallbacks DEF Listener!Finished, Done, Ends

\* serve() and aclose() go on when the socket is unwatched.
LEMMA TaskGoesOnInv ==
  ASSUME ListenerTypes, WatchInv, Listener!ServeEnds \/ Listener!CloseGoesOn
  PROVE  ListenerTypes' /\ WatchInv'
<1>1. PICK none \in Seq(Listener!Callbacks) : none = <<>> /\ Len(none) = 0 /\ 1..Len(none) = {}
  BY NothingAdded
<1>2. PICK cb \in {Ends, Yielded} : Listener!Runs(cb, none)
  BY <1>1 DEF Listener!ServeEnds, Listener!CloseGoesOn, Ends, Yielded
<1>3. /\ Len(ready) \in Nat \ {0} /\ ready[1] = cb
      /\ ready' \in Seq(Listener!Callbacks) /\ todo' \in 0..Len(ready') /\ Len(ready') = Len(ready) - 1
      /\ \A i \in 1..Len(ready') : ready'[i] = ready[i + 1]
  <2>1. /\ Len(ready) \in Nat \ {0} /\ ready[1] = cb
        /\ ready' \in Seq(Listener!Callbacks) /\ todo' \in 0..Len(ready') /\ Len(ready') = Len(ready) - 1 + Len(none)
        /\ \A i \in 1..Len(ready') :
             ready'[i] = IF i < Len(ready) THEN ready[i + 1] ELSE none[i + 1 - Len(ready)]
    BY <1>2, RunsShift
  <2>2. Len(ready') = Len(ready) - 1
    BY <1>1, <2>1
  <2>3. \A i \in 1..Len(ready') : ready'[i] = ready[i + 1]
    BY <2>1, <2>2
  <2> QED BY <2>1, <2>2, <2>3
<1>4. Unwatched
  <2>1. 1 \in 1..Len(ready) /\ ready[1] \in {Ends, Yielded} /\ 1..(1 - 1) = {}
    BY <1>2, <1>3
  <2> QED BY <2>1 DEF WatchInv
<1>5. UNCHANGED <<reader, timer>> /\ freeDescriptors' = freeDescriptors
  BY DEF Listener!ServeEnds, Listener!CloseGoesOn
<1>6. Unwatched'
  BY <1>3, <1>4, <1>5 DEF Unwatched
<1>7. \A i \in 1..Len(ready') : i + 1 \in 1..Len(ready) /\ ready'[i] = ready[i + 1]
  BY <1>3
<1>8. \A i, j \in 1..Len(ready') : ready'[i] = Ends /\ ready'[j] = Ends => i = j
  <2>1. ASSUME NEW i \in 1..Len(ready'), NEW j \in 1..Len(ready'), ready'[i] = Ends, ready'[j] = Ends PROVE i = j
    <3>1. i + 1 = j + 1
      BY <1>7, <2>1 DEF WatchInv
    <3> QED BY <3>1
  <2> QED BY <2>1
<1>9. \A i \in 1..Len(ready') : ready'[i] = Yielded => acloseTask # "no"
  BY <1>7 DEF WatchInv
<1>10. CASE Listener!ServeEnds
  <2>1. /\ serveTask' = "idle" /\ future' = "none" /\ UNCHANGED <<acloseTask, socketClosed>>
        /\ conn' = [k \in Peers |-> CASE conn[k] = "scheduled" -> "dropped"
                                      [] conn[k] = "connecting" -> "closed"
                                      [] OTHER -> conn[k]]
    BY <1>10 DEF Listener!ServeEnds
  <2>2. Head(ready) = Ends
    BY <1>10 DEF Listener!ServeEnds, Listener!Runs, Ends
  <2>3. cb = Ends
    BY <1>2, <2>2 DEF Listener!Runs
  <2>4. \A i \in 1..Len(ready') : ready'[i] # Ends
    <3>1. ASSUME NEW i \in 1..Len(ready'), ready'[i] = Ends PROVE FALSE
      <4>1. i + 1 = 1
        BY <1>3, <1>7, <2>3, <3>1 DEF WatchInv
      <4> QED BY <1>3, <3>1, <4>1
    <3> QED BY <3>1
  <2>5. conn' \in [Peers -> {"absent", "queued", "scheduled", "connecting", "handled", "closed", "dropped"}]
    <3>1. \A k \in Peers : conn[k] \in {"absent", "queued", "scheduled", "connecting", "handled", "closed", "dropped"}
      BY DEF ListenerTypes
    <3> QED BY <2>1, <3>1, Zenon
  <2>6. ListenerTypes'
    BY <1>3, <1>5, <2>1, <2>5 DEF ListenerTypes
  <2>7. WatchInv'
    BY <1>6, <1>8, <1>9, <2>1, <2>4 DEF WatchInv
  <2> QED BY <2>6, <2>7
<1>11. CASE Listener!CloseGoesOn
  <2>1. acloseTask' = "done" /\ socketClosed' = TRUE /\ UNCHANGED <<serveTask, future, conn>>
    BY <1>11 DEF Listener!CloseGoesOn
  <2>2. ListenerTypes'
    BY <1>3, <1>5, <2>1 DEF ListenerTypes
  <2>3. \A i \in 1..Len(ready') : ready'[i] = Ends => serveTask = "woken"
    BY <1>7 DEF WatchInv
  <2>4. (serveTask = "idle" <=> future = "none") /\ (serveTask = "waiting" <=> future = "pending")
    BY DEF WatchInv
  <2>5. WatchInv'
    BY <1>6, <1>8, <2>1, <2>3, <2>4 DEF WatchInv
  <2> QED BY <2>2, <2>5
<1> QED BY <1>10, <1>11

\* The place of a callback that is kept, when d were run.
LEMMA KeptPlace ==
  ASSUME NEW n \in Nat, NEW d \in {0, 1}, d <= n
  PROVE  \A i \in Nat \ {0} : i <= n - d => i \in 1..(n - d) /\ i + d \in 1..n
OBVIOUS

\* The place of a callback that is one of two, or of three.
LEMMA PlaceAmongThree == \A n \in {2, 3} : \A i \in 1..n : i \in {1, 2, 3}
OBVIOUS

\* The callbacks of a future that ends come after those that are kept, in their order.
LEMMA FutureEndsWatch ==
  ASSUME WatchInv, future = "pending", serveTask' = "woken", future' \in {"cancelled", "failed"},
         NEW d \in {0, 1}, Len(ready) \in Nat, d <= Len(ready), d = 1 => ready[1] # Done,
         Len(ready') \in Nat,
         \A i \in 1..(Len(ready) - d) : ready'[i] = ready[i + d],
         NEW e \in (Len(ready) - d + 1)..(Len(ready') - 1), ready'[e] = Done,
         \A i \in (Len(ready) - d + 1)..Len(ready') :
           /\ ready'[i] \notin {Accept, Retry}
           /\ ready'[i] = Ends => i = e + 1
           /\ ready'[i] = Yielded => i > e /\ acloseTask' # "no",
         Unwatched => ~reader' /\ timer' = "no",
         \/ acloseTask' = acloseTask /\ socketClosed' = socketClosed
         \/ acloseTask' = "yielding" /\ socketClosed' = FALSE
  PROVE  WatchInv'
<1>1. Unwatched => Unwatched'
  <2>1. ASSUME Unwatched, NEW i \in 1..Len(ready') PROVE ready'[i] \notin {Accept, Retry}
    <3>1. CASE i <= Len(ready) - d
      <4>1. \A k \in Nat \ {0} : k <= Len(ready) - d => k \in 1..(Len(ready) - d) /\ k + d \in 1..Len(ready)
        BY KeptPlace
      <4>2. i \in Nat \ {0}
        BY <2>1
      <4>3. i \in 1..(Len(ready) - d) /\ i + d \in 1..Len(ready)
        BY <3>1, <4>1, <4>2
      <4> QED BY <2>1, <4>3 DEF Unwatched
    <3>2. CASE ~(i <= Len(ready) - d)
      BY <2>1, <3>2
    <3> QED BY <3>1, <3>2
  <2> QED BY <2>1 DEF Unwatched
<1>2. \A i \in 1..Len(ready) : ready[i] # Ends
  BY DEF WatchInv
<1>3. \A i \in 1..Len(ready') : ready'[i] = Ends => i = e + 1
  BY <1>2
<1>4. e \in 1..Len(ready') /\ Len(ready) - d + 1 <= e
  OBVIOUS
<1>5. ASSUME NEW i \in 1..Len(ready'), ready'[i] \in {Ends, Yielded}
      PROVE  Unwatched' \/ \E j \in 1..(i - 1) : ready'[j] = Done
  <2>1. CASE i > e
    <3>1. e \in 1..(i - 1)
      BY <1>4, <2>1
    <3> QED BY <3>1
  <2>2. CASE ~(i > e)
    <3>1. i <= Len(ready) - d /\ ready[i + d] = Yielded /\ i + d \in 1..Len(ready)
      BY <1>2, <1>3, <1>4, <1>5, <2>2
    <3>2. CASE Unwatched
      BY <1>1, <3>2
    <3>3. ASSUME NEW j \in 1..(i + d - 1), ready[j] = Done PROVE \E h \in 1..(i - 1) : ready'[h] = Done
      <4>1. j - d \in 1..(i - 1)
        <5>1. j # d
          BY <3>3
        <5> QED BY <3>3, <5>1
      <4>2. ready'[j - d] = Done
        <5>1. j - d \in 1..(Len(ready) - d) /\ (j - d) + d = j
          BY <3>1, <3>3, <4>1
        <5>2. ready'[j - d] = ready[(j - d) + d]
          BY <5>1
        <5> QED BY <3>3, <5>1, <5>2
      <4> QED BY <4>1, <4>2
    <3>4. Unwatched \/ \E j \in 1..(i + d - 1) : ready[j] = Done
      BY <3>1 DEF WatchInv
    <3> QED BY <3>2, <3>3, <3>4
  <2> QED BY <2>1, <2>2
<1>6. \A i \in 1..Len(ready') : ready'[i] = Yielded => acloseTask' # "no"
  <2>1. \A i \in 1..(Len(ready) - d) : ready'[i] = Yielded => acloseTask # "no"
    BY DEF WatchInv
  <2>2. acloseTask # "no" => acloseTask' # "no"
    OBVIOUS
  <2> QED BY <2>1, <2>2
<1>7. \A i, j \in 1..Len(ready') : ready'[i] = Ends /\ ready'[j] = Ends => i = j
  BY <1>3
<1>8. (socketClosed' => Unwatched' /\ acloseTask' = "done") /\ (acloseTask' = "done" => socketClosed')
  BY <1>1 DEF WatchInv
<1>9. \E i \in 1..Len(ready') : ready'[i] = Done
  BY <1>4
<1> QED BY <1>5, <1>6, <1>7, <1>8, <1>9 DEF WatchInv

\* accept(): the callback is about the socket, so it was not unwatched before.
LEMMA ListenerReadyInv ==
  ListenerTypes /\ QueueInv /\ WatchInv /\ Listener!ListenerReady => ListenerTypes' /\ WatchInv'
<1> SUFFICES ASSUME ListenerTypes, QueueInv, WatchInv, Listener!ListenerReady PROVE ListenerTypes' /\ WatchInv'
  OBVIOUS
<1>1. PICK n \in 0..Len(queue) :
        /\ conn' = [k \in Peers |-> IF k \in Listener!Range(Listener!Accepted(n)) THEN "scheduled" ELSE conn[k]]
        /\ \/ /\ Listener!Runs(Accept, Listener!Starts(Listener!Accepted(n))) /\ timer' = "no"
              /\ UNCHANGED <<reader, future, serveTask, freeDescriptors>>
           \/ /\ Listener!Runs(Accept, Listener!Starts(Listener!Accepted(n))) /\ timer' = "armed"
              /\ reader' = FALSE /\ freeDescriptors' = FALSE
              /\ UNCHANGED <<future, serveTask>>
           \/ /\ future = "pending"
              /\ Listener!Runs(Accept, Listener!Starts(Listener!Accepted(n)) \o Listener!Finished)
              /\ future' = "failed" /\ serveTask' = "woken" /\ reader' = FALSE /\ timer' = "no"
              /\ UNCHANGED freeDescriptors
        /\ UNCHANGED <<acloseTask, socketClosed>>
  BY DEF Listener!ListenerReady, Listener!RetryLater, Accept
<1> DEFINE starts == Listener!Starts(Listener!Accepted(n))
<1>2. /\ starts \in Seq(Listener!Callbacks) /\ Len(starts) \in Nat
      /\ \A i \in 1..Len(starts) : starts[i] \notin {Accept, Retry, Done, Ends, Yielded}
  <2>1. Listener!Accepted(n) \in Seq(Peers)
    <3>1. IsInjective(queue) /\ queue \in Seq(Peers)
      BY DEF QueueInv
    <3> QED BY <3>1, CutProperties DEF Listener!Accepted
  <2> QED BY <2>1, StartsType, LenProperties
<1> HIDE DEF starts
<1>3. conn' \in [Peers -> {"absent", "queued", "scheduled", "connecting", "handled", "closed", "dropped"}]
  BY <1>1 DEF ListenerTypes
<1>4. ASSUME Listener!Runs(Accept, starts), reader' \in BOOLEAN, timer' \in {"no", "armed"}, reader' => timer' = "no",
             freeDescriptors' \in BOOLEAN, UNCHANGED <<future, serveTask, acloseTask, socketClosed>>
      PROVE  ListenerTypes' /\ WatchInv'
  <2>1. ready' \in Seq(Listener!Callbacks) /\ todo' \in 0..Len(ready') /\ Len(ready) \in Nat \ {0} /\ ready[1] = Accept
    BY <1>2, <1>4, RunsShift
  <2>2. ~Unwatched
    BY <2>1 DEF Unwatched
  <2>3. WatchInv'
    BY <1>2, <1>4, <2>2, RunsWatch, DistinctCallbacks
  <2> QED BY <1>3, <1>4, <2>1, <2>3 DEF ListenerTypes
<1>5. ASSUME Listener!Runs(Accept, starts \o Listener!Finished), future = "pending", future' = "failed",
             serveTask' = "woken", reader' = FALSE, timer' = "no", UNCHANGED <<freeDescriptors, acloseTask, socketClosed>>
      PROVE  ListenerTypes' /\ WatchInv'
  <2> DEFINE others == starts \o Listener!Finished
  <2>1. /\ others \in Seq(Listener!Callbacks) /\ Len(others) = Len(starts) + 2
        /\ \A i \in 1..Len(others) : others[i] = IF i <= Len(starts) THEN starts[i] ELSE Listener!Finished[i - Len(starts)]
    <3>1. \A u, v \in Seq(Listener!Callbacks) :
            /\ u \o v \in Seq(Listener!Callbacks) /\ Len(u \o v) = Len(u) + Len(v)
            /\ \A i \in 1..(Len(u) + Len(v)) : (u \o v)[i] = IF i <= Len(u) THEN u[i] ELSE v[i - Len(u)]
      BY ConcatProperties
    <3>2. starts \in Seq(Listener!Callbacks) /\ Listener!Finished \in Seq(Listener!Callbacks)
          /\ Len(Listener!Finished) = 2
      BY <1>2, FinishedType
    <3>3. /\ others \in Seq(Listener!Callbacks) /\ Len(others) = Len(starts) + Len(Listener!Finished)
          /\ \A i \in 1..(Len(starts) + Len(Listener!Finished)) :
               others[i] = IF i <= Len(starts) THEN starts[i] ELSE Listener!Finished[i - Len(starts)]
      BY <3>1, <3>2
    <3> QED BY <3>2, <3>3
  <2>2. /\ others[Len(starts) + 1] = Done /\ others[Len(starts) + 2] = Ends
        /\ \A i \in 1..Len(others) :
             /\ others[i] \notin {Accept, Retry, Yielded}
             /\ others[i] = Ends => i = Len(starts) + 2
    BY <1>2, <2>1, FinishedType, DistinctCallbacks
  <2> HIDE DEF others
  <2>3. /\ Len(ready) \in Nat \ {0} /\ ready[1] = Accept
        /\ ready' \in Seq(Listener!Callbacks) /\ todo' \in 0..Len(ready')
        /\ Len(ready') = Len(ready) - 1 + Len(others)
        /\ \A i \in 1..Len(ready') :
             ready'[i] = IF i < Len(ready) THEN ready[i + 1] ELSE others[i + 1 - Len(ready)]
    BY <1>5, <2>1, RunsShift DEF others
  <2>4. PICK d \in {0, 1} : d = 1
    OBVIOUS
  <2> DEFINE e == Len(ready) + Len(starts)
  <2>5. e \in (Len(ready) - d + 1)..(Len(ready') - 1) /\ e = Len(ready) + Len(starts)
    BY <1>2, <2>1, <2>3, <2>4
  <2> HIDE DEF e
  <2>6. ready'[e] = Done
    <3>1. e \in 1..Len(ready') /\ ~(e < Len(ready)) /\ e + 1 - Len(ready) = Len(starts) + 1
      BY <1>2, <2>1, <2>3, <2>4, <2>5
    <3> QED BY <2>2, <2>3, <3>1
  <2>7. ASSUME NEW i \in (Len(ready) - d + 1)..Len(ready')
        PROVE  /\ ready'[i] \notin {Accept, Retry}
               /\ ready'[i] = Ends => i = e + 1
               /\ ready'[i] = Yielded => i > e /\ acloseTask' # "no"
    <3> DEFINE h == i + 1 - Len(ready)
    <3>1. h \in 1..Len(others) /\ ready'[i] = others[h] /\ i = h + Len(ready) - 1
      BY <1>2, <2>1, <2>3, <2>4, <2>7
    <3> HIDE DEF h
    <3>2. others[h] \notin {Accept, Retry, Yielded} /\ (others[h] = Ends => h = Len(starts) + 2)
      BY <2>2, <3>1
    <3>3. ready'[i] = Ends => i = e + 1
      <4> SUFFICES ASSUME ready'[i] = Ends PROVE i = e + 1
        OBVIOUS
      <4>1. h = Len(starts) + 2
        BY <3>1, <3>2
      <4>2. i = Len(starts) + 2 + Len(ready) - 1
        BY <3>1, <4>1
      <4> QED BY <1>2, <2>3, <2>5, <4>2
    <3> QED BY <3>1, <3>2, <3>3
  <2>8. \A i \in 1..(Len(ready) - d) : ready'[i] = ready[i + d]
    <3>1. ASSUME NEW i \in 1..(Len(ready) - d) PROVE ready'[i] = ready[i + d]
      <4>1. i \in 1..Len(ready') /\ i < Len(ready)
        BY <1>2, <2>1, <2>3, <2>4, <3>1
      <4> QED BY <2>3, <2>4, <4>1
    <3> QED BY <3>1
  <2>9. Len(ready) \in Nat /\ d <= Len(ready) /\ Len(ready') \in Nat /\ (d = 1 => ready[1] # Done)
    BY <1>2, <2>1, <2>3, <2>4, DistinctCallbacks
  <2>10. WatchInv'
    BY <1>5, <2>5, <2>6, <2>7, <2>8, <2>9, FutureEndsWatch
  <2> QED BY <1>3, <1>5, <2>3, <2>10 DEF ListenerTypes
<1> QED BY <1>1, <1>4, <1>5 DEF starts, ListenerTypes

\* serve() is cancelled while it waits, or the listener is closed meanwhile.
LEMMA StopInv ==
  ASSUME ListenerTypes, WatchInv, Listener!Stop \/ (Listener!Close /\ future = "pending")
  PROVE  ListenerTypes' /\ WatchInv'
<1>1. /\ future = "pending" /\ future' = "cancelled" /\ serveTask' = "woken"
      /\ UNCHANGED <<todo, reader, timer, freeDescriptors, queue, conn>>
  BY DEF Listener!Stop, Listener!Close, Listener!CancelServe
<1>2. serveTask # "idle"
  BY <1>1 DEF WatchInv
<1>3. PICK more \in Seq(Listener!Callbacks) :
        /\ ready' = ready \o more /\ Len(more) \in {2, 3} /\ more[1] = Done /\ more[2] = Ends
        /\ \/ Len(more) = 2 /\ acloseTask' = acloseTask /\ socketClosed' = socketClosed
           \/ Len(more) = 3 /\ more[3] = Yielded /\ acloseTask' = "yielding" /\ socketClosed' = FALSE
  <2>1. CASE Listener!Stop
    <3>1. ready' = ready \o Listener!Finished /\ acloseTask' = acloseTask /\ socketClosed' = socketClosed
      BY <2>1 DEF Listener!Stop, Listener!Schedule
    <3> QED BY <3>1, FinishedType
  <2>2. CASE Listener!Close
    <3>1. ready' = ready \o (Listener!Finished \o <<Yielded>>) /\ acloseTask' = "yielding" /\ socketClosed' = FALSE
      BY <1>1, <1>2, <2>2 DEF Listener!Close, Listener!Schedule, Listener!YieldsFirst, Yielded
    <3>2. <<Yielded>> \in Seq(Listener!Callbacks) /\ Len(<<Yielded>>) = 1 /\ <<Yielded>>[1] = Yielded
      BY DistinctCallbacks
    <3> DEFINE more == Listener!Finished \o <<Yielded>>
    <3>3. /\ more \in Seq(Listener!Callbacks) /\ Len(more) = 2 + 1
          /\ \A i \in 1..3 : more[i] = IF i <= 2 THEN Listener!Finished[i] ELSE <<Yielded>>[i - 2]
      BY <3>2, FinishedType, ConcatProperties
    <3>4. Len(more) = 3 /\ more[1] = Done /\ more[2] = Ends /\ more[3] = Yielded
      BY <3>2, <3>3, FinishedType
    <3> QED BY <3>1, <3>3, <3>4
  <2> QED BY <2>1, <2>2
<1>4. /\ Len(ready) \in Nat /\ Len(ready') = Len(ready) + Len(more) /\ ready' \in Seq(Listener!Callbacks)
      /\ \A i \in 1..Len(ready') : ready'[i] = IF i <= Len(ready) THEN ready[i] ELSE more[i - Len(ready)]
  BY <1>3, ScheduleProperties
<1>5. PICK d \in {0, 1} : d = 0
  OBVIOUS
<1> DEFINE e == Len(ready) + 1
<1>6. e \in (Len(ready) - d + 1)..(Len(ready') - 1) /\ e = Len(ready) + 1
  BY <1>3, <1>4, <1>5
<1> HIDE DEF e
<1>7. ready'[e] = Done
  <2>1. e \in 1..Len(ready') /\ ~(e <= Len(ready)) /\ e - Len(ready) = 1
    BY <1>3, <1>4, <1>6
  <2> QED BY <1>3, <1>4, <2>1
<1>8. ASSUME NEW i \in (Len(ready) - d + 1)..Len(ready')
      PROVE  /\ ready'[i] \notin {Accept, Retry}
             /\ ready'[i] = Ends => i = e + 1
             /\ ready'[i] = Yielded => i > e /\ acloseTask' # "no"
  <2> DEFINE h == i - Len(ready)
  <2>1. h \in 1..Len(more) /\ ready'[i] = more[h] /\ i = h + Len(ready)
    BY <1>3, <1>4, <1>5, <1>8
  <2> HIDE DEF h
  <2>2. Len(more) \in {2, 3} /\ h \in 1..Len(more)
    BY <1>3, <2>1
  <2>3. CASE h = 1
    BY <1>3, <2>1, <2>3, DistinctCallbacks
  <2>4. CASE h = 2
    <3>1. i = e + 1
      BY <1>4, <1>6, <2>1, <2>4
    <3>2. ready'[i] = Ends
      BY <1>3, <2>1, <2>4
    <3> QED BY <3>1, <3>2, DistinctCallbacks
  <2>5. CASE h = 3
    <3>1. i > e
      BY <1>4, <1>6, <2>1, <2>5
    <3>2. ready'[i] = Yielded /\ acloseTask' = "yielding"
      <4>1. 3 \in 1..Len(more)
        BY <2>1, <2>5
      <4>2. Len(more) # 2
        <5>1. 3 \notin 1..2
          OBVIOUS
        <5> QED BY <4>1, <5>1, Zenon
      <4>3. more[3] = Yielded /\ acloseTask' = "yielding"
        BY <1>3, <4>2
      <4> QED BY <2>1, <2>5, <4>3
    <3> QED BY <3>1, <3>2, DistinctCallbacks
  <2>6. h \in {1, 2, 3}
    BY <2>2, PlaceAmongThree
  <2> QED BY <2>3, <2>4, <2>5, <2>6
<1>9. \A i \in 1..(Len(ready) - d) : ready'[i] = ready[i + d]
  BY <1>3, <1>4, <1>5
<1>10. d <= Len(ready) /\ Len(ready') \in Nat /\ (d = 1 => ready[1] # Done)
  BY <1>3, <1>4, <1>5
<1>11. Unwatched => ~reader' /\ timer' = "no"
  BY <1>1 DEF Unwatched
<1>12. /\ socketClosed' \in BOOLEAN /\ acloseTask' \in {"no", "yielding", "done"}
       /\ \/ acloseTask' = acloseTask /\ socketClosed' = socketClosed
          \/ acloseTask' = "yielding" /\ socketClosed' = FALSE
  BY <1>3 DEF ListenerTypes
<1>13. WatchInv'
  BY <1>1, <1>4, <1>6, <1>7, <1>8, <1>9, <1>10, <1>11, <1>12, FutureEndsWatch
<1>14. todo' \in 0..Len(ready')
  BY <1>1, <1>3, <1>4 DEF ListenerTypes
<1> QED BY <1>1, <1>4, <1>12, <1>13, <1>14 DEF ListenerTypes

\* aclose() of a listener that does not serve, or whose serve() is about to end.
LEMMA CloseInvOfListener ==
  ASSUME ListenerTypes, WatchInv, Listener!Close, future # "pending"
  PROVE  ListenerTypes' /\ WatchInv'
<1>1. UNCHANGED <<future, serveTask, todo, reader, timer, freeDescriptors, queue, conn>>
  BY DEF Listener!Close, Listener!CancelServe
<1>2. CASE serveTask = "idle"
  <2>1. acloseTask' = "done" /\ socketClosed' = TRUE /\ ready' = ready \o (<<>> \o <<>>)
    BY <1>2 DEF Listener!Close, Listener!Schedule, Listener!YieldsFirst
  <2>2. ready \o (<<>> \o <<>>) = ready
    BY ConcatEmptySeq DEF ListenerTypes
  <2>3. ready' = ready /\ Unwatched /\ Unwatched'
    BY <1>1, <1>2, <2>1, <2>2 DEF WatchInv, Unwatched
  <2>4. ListenerTypes'
    BY <1>1, <2>1, <2>3 DEF ListenerTypes
  <2>5. WatchInv'
    BY <1>1, <2>1, <2>3 DEF WatchInv
  <2> QED BY <2>4, <2>5
<1>3. CASE serveTask # "idle"
  <2>1. acloseTask' = "yielding" /\ socketClosed' = FALSE /\ ready' = ready \o (<<>> \o <<Yielded>>)
    BY <1>3 DEF Listener!Close, Listener!Schedule, Listener!YieldsFirst, Yielded
  <2>2. <<Yielded>> \in Seq(Listener!Callbacks) /\ Len(<<Yielded>>) = 1 /\ <<Yielded>>[1] = Yielded
    BY DistinctCallbacks
  <2>3. <<>> \o <<Yielded>> = <<Yielded>>
    BY <2>2, ConcatEmptySeq
  <2>4. /\ Len(ready) \in Nat /\ Len(ready') = Len(ready) + 1 /\ ready' \in Seq(Listener!Callbacks)
        /\ \A i \in 1..Len(ready') : ready'[i] = IF i <= Len(ready) THEN ready[i] ELSE <<Yielded>>[i - Len(ready)]
    BY <2>1, <2>2, <2>3, ScheduleProperties
  <2>5. \A i \in 1..Len(ready') : ready'[i] = IF i <= Len(ready) THEN ready[i] ELSE Yielded
    BY <2>2, <2>4
  <2>6. ListenerTypes'
    <3>1. todo' \in 0..Len(ready')
      BY <1>1, <2>4 DEF ListenerTypes
    <3>2. ready' \in Seq(Listener!Callbacks)
      BY <2>4
    <3> QED BY <1>1, <2>1, <3>1, <3>2 DEF ListenerTypes
  <2>7. serveTask = "woken"
    BY <1>3 DEF WatchInv, ListenerTypes
  <2>8. Unwatched => Unwatched'
    BY <1>1, <2>4, <2>5, DistinctCallbacks DEF Unwatched
  <2>9. \A i \in 1..Len(ready) : i \in 1..Len(ready') /\ ready'[i] = ready[i]
    BY <2>4, <2>5
  <2>10. ASSUME NEW i \in 1..Len(ready'), ready'[i] \in {Ends, Yielded}
         PROVE  Unwatched' \/ \E j \in 1..(i - 1) : ready'[j] = Done
    <3>1. CASE i <= Len(ready)
      BY <2>4, <2>8, <2>9, <2>10, <3>1 DEF WatchInv
    <3>2. CASE ~(i <= Len(ready))
      <4>1. Unwatched \/ \E j \in 1..Len(ready) : ready[j] = Done
        BY <2>7 DEF WatchInv
      <4>2. i - 1 = Len(ready)
        BY <2>4, <2>10, <3>2
      <4> QED BY <2>8, <2>9, <4>1, <4>2
    <3> QED BY <3>1, <3>2
  <2>11. \A i \in 1..Len(ready') : ready'[i] = Ends => i \in 1..Len(ready) /\ ready[i] = Ends
    BY <2>4, <2>5, DistinctCallbacks
  <2>12. Unwatched' \/ \E i \in 1..Len(ready') : ready'[i] = Done
    BY <2>7, <2>8, <2>9 DEF WatchInv
  <2>13. WatchInv'
    BY <1>1, <2>1, <2>7, <2>10, <2>11, <2>12 DEF WatchInv
  <2> QED BY <2>6, <2>13
<1> QED BY <1>2, <1>3

-----------------------------------------------------------------------------
(* The queue of the system *)

\* What the listener takes of the sequences is what is known of them.
LEMMA SameOperators ==
  /\ \A f : Listener!Range(f) = ToSet(f)
  /\ \A f : Listener!IsInjective(f) = IsInjective(f)
  /\ \A s, x : Listener!RemoveFirst(s, x) = RemoveFirst(s, x)
<1>1. \A f : Listener!Range(f) = ToSet(f)
  BY DEF Listener!Range, ToSet
<1>2. \A f : Listener!IsInjective(f) = IsInjective(f)
  BY DEF Listener!IsInjective, IsInjective
<1>3. \A s, x : Listener!RemoveFirst(s, x) = RemoveFirst(s, x)
  BY DEF Listener!RemoveFirst, RemoveFirst, Listener!RemoveAt, RemoveAt, Listener!SelectInSeq, SelectInSeq,
         Listener!Min, Min
<1> QED BY <1>1, <1>2, <1>3

Queued == {k \in Peers : conn[k] = "queued"}

LEMMA QueueStepInv ==
  ASSUME ListenerTypes, QueueInv, Listener!Next \/ ListenerClosed
  PROVE  QueueInv'
<1> USE DEF ListenerTypes
<1>1. ASSUME queue' = queue, Queued' = Queued PROVE QueueInv'
  BY <1>1 DEF QueueInv, Queued
<1>2. CASE Listener!ListenerReady
  <2>1. PICK n \in 0..Len(queue) :
          /\ queue' = SubSeq(queue, n + 1, Len(queue))
          /\ conn' = [k \in Peers |-> IF k \in Listener!Range(SubSeq(queue, 1, n)) THEN "scheduled" ELSE conn[k]]
    BY <1>2 DEF Listener!ListenerReady, Listener!Accepted
  <2>2. /\ queue' \in Seq(Peers) /\ IsInjective(queue') /\ ToSet(queue') = ToSet(queue) \ ToSet(SubSeq(queue, 1, n))
    BY <2>1, CutProperties DEF QueueInv
  <2>3. conn' = [k \in Peers |-> IF k \in ToSet(SubSeq(queue, 1, n)) THEN "scheduled" ELSE conn[k]]
    BY <2>1, SameOperators
  <2>4. Queued' = Queued \ ToSet(SubSeq(queue, 1, n))
    BY <2>3 DEF Queued
  <2> QED BY <2>2, <2>4 DEF QueueInv, Queued
<1>3. ASSUME NEW k \in Peers, Listener!PeerConnects(k) PROVE QueueInv'
  <2>1. conn[k] = "absent" /\ conn' = [conn EXCEPT ![k] = "queued"] /\ queue' = Append(queue, k)
    BY <1>3 DEF Listener!PeerConnects
  <2>2. k \notin ToSet(queue) /\ Queued' = Queued \cup {k}
    BY <2>1 DEF QueueInv, Queued
  <2>3. queue' \in Seq(Peers) /\ ToSet(queue') = ToSet(queue) \cup {k}
    BY <2>1, AppendProperties, ToSetProperties DEF QueueInv
  <2>4. IsInjective(queue')
    <3>1. queue \in Seq(Peers) /\ IsInjective(queue)
      BY DEF QueueInv
    <3> QED BY <2>1, <2>2, <3>1, AppendKeepsInjective
  <2> QED BY <2>2, <2>3, <2>4 DEF QueueInv, Queued
<1>4. ASSUME NEW k \in Peers, Listener!PeerLeaves(k) PROVE QueueInv'
  <2>1. conn' = [conn EXCEPT ![k] = "absent"] /\ queue' = IF conn[k] = "queued" THEN RemoveFirst(queue, k) ELSE queue
    BY <1>4, SameOperators DEF Listener!PeerLeaves
  <2>2. CASE conn[k] = "queued"
    <3>1. k \in ToSet(queue) /\ Queued' = Queued \ {k}
      BY <2>1, <2>2 DEF QueueInv, Queued
    <3>2. queue' \in Seq(Peers) /\ IsInjective(queue') /\ ToSet(queue') = ToSet(queue) \ {k}
      BY <2>1, <2>2, <3>1, RemoveFirstProperties DEF QueueInv
    <3> QED BY <3>1, <3>2 DEF QueueInv, Queued
  <2>3. CASE conn[k] # "queued"
    <3>1. queue' = queue /\ Queued' = Queued
      BY <2>1, <2>3 DEF Queued
    <3> QED BY <1>1, <3>1
  <2> QED BY <2>2, <2>3
<1>5. ASSUME NEW k \in Peers, Listener!ClientTask(k) \/ Listener!Connected(k) PROVE QueueInv'
  <2>1. queue' = queue /\ Queued' = Queued
    BY <1>5 DEF Listener!ClientTask, Listener!Connected, Queued
  <2> QED BY <1>1, <2>1
<1>6. CASE Listener!ServeEnds
  <2>1. queue' = queue /\ \A k \in Peers : conn'[k] = "queued" <=> conn[k] = "queued"
    BY <1>6, Zenon DEF Listener!ServeEnds
  <2>2. Queued' = Queued
    BY <2>1 DEF Queued
  <2> QED BY <1>1, <2>1, <2>2
<1>7. ASSUME UNCHANGED <<queue, conn>> PROVE QueueInv'
  BY <1>7 DEF QueueInv
<1>8. CASE \/ Listener!Poll \/ Listener!TimerIsDue \/ Listener!Serve \/ Listener!Stop \/ Listener!Close
           \/ Listener!Descriptors \/ ListenerClosed
  BY <1>7, <1>8 DEF Listener!Poll, Listener!TimerIsDue, Listener!Serve, Listener!Stop, Listener!Close,
                    Listener!Descriptors, ListenerClosed, listenerVars
<1>9. CASE Listener!SkipCancelled \/ Listener!AddReaderAgain \/ Listener!OnFutureDone \/ Listener!CloseGoesOn
  BY <1>7, <1>9 DEF Listener!SkipCancelled, Listener!AddReaderAgain, Listener!OnFutureDone, Listener!CloseGoesOn
<1> QED BY <1>2, <1>3, <1>4, <1>5, <1>6, <1>8, <1>9 DEF Listener!Next, Listener!RunCallback

ListenerInv == ListenerTypes /\ QueueInv /\ WatchInv

LEMMA ListenerInit == Listener!Init => ListenerInv
<1> SUFFICES ASSUME Listener!Init PROVE ListenerInv
  OBVIOUS
<1> USE DEF Listener!Init
<1>1. ready = <<>> /\ Len(ready) = 0 /\ ready \in Seq(Listener!Callbacks)
  OBVIOUS
<1>2. ListenerTypes
  <2>1. todo \in 0..Len(ready)
    BY <1>1
  <2>2. conn \in [Peers -> {"absent", "queued", "scheduled", "connecting", "handled", "closed", "dropped"}]
    OBVIOUS
  <2> QED BY <1>1, <2>1, <2>2 DEF ListenerTypes
<1>3. WatchInv
  BY <1>1 DEF WatchInv, Unwatched
<1>4. QueueInv
  <2>1. queue \in Seq(Peers) /\ DOMAIN queue = {} /\ \A k \in Peers : conn[k] # "queued"
    OBVIOUS
  <2> QED BY <2>1 DEF QueueInv, IsInjective, ToSet
<1> QED BY <1>2, <1>3, <1>4 DEF ListenerInv

LEMMA ListenerStepInv == ListenerInv /\ (Listener!Next \/ ListenerClosed) => ListenerInv'
<1> SUFFICES ASSUME ListenerInv, Listener!Next \/ ListenerClosed PROVE ListenerTypes' /\ WatchInv'
  BY QueueStepInv DEF ListenerInv
<1> USE DEF ListenerInv
<1>1. CASE Listener!Poll \/ Listener!Serve \/ Listener!OnFutureDone \/ Listener!ListenerReady
  BY <1>1, PollInv, ServeInv, FutureDoneInv, ListenerReadyInv
<1>2. CASE Listener!SkipCancelled \/ Listener!AddReaderAgain \/ \E k \in Peers : Listener!ClientTask(k)
  BY <1>2, PlainCallbackInv
<1>3. CASE Listener!ServeEnds \/ Listener!CloseGoesOn
  BY <1>3, TaskGoesOnInv
<1>4. CASE Listener!Stop \/ Listener!Close
  BY <1>4, StopInv, CloseInvOfListener
<1>5. CASE Listener!TimerIsDue
  BY <1>5, QuietInv DEF Listener!TimerIsDue, ListenerTypes
<1>6. CASE Listener!Descriptors
  BY <1>6, QuietInv DEF Listener!Descriptors, ListenerTypes
<1>7. ASSUME NEW k \in Peers, Listener!Connected(k) PROVE ListenerTypes' /\ WatchInv'
  BY <1>7, QuietInv DEF Listener!Connected, ListenerTypes
<1>8. ASSUME NEW k \in Peers, Listener!PeerConnects(k) PROVE ListenerTypes' /\ WatchInv'
  BY <1>8, QuietInv DEF Listener!PeerConnects, ListenerTypes
<1>9. ASSUME NEW k \in Peers, Listener!PeerLeaves(k) PROVE ListenerTypes' /\ WatchInv'
  BY <1>9, QuietInv DEF Listener!PeerLeaves, ListenerTypes
<1>10. CASE ListenerClosed
  BY <1>10, QuietInv DEF ListenerClosed, listenerVars, ListenerTypes
<1> QED BY <1>1, <1>2, <1>3, <1>4, <1>5, <1>6, <1>7, <1>8, <1>9, <1>10 DEF Listener!Next, Listener!RunCallback

-----------------------------------------------------------------------------
(* What the invariants of the parts say *)

LEMMA ListenerProperties == ListenerInv => Listener!TypeOK /\ Listener!NothingWatchesClosed
<1> SUFFICES ASSUME ListenerInv PROVE Listener!TypeOK /\ Listener!NothingWatchesClosed
  OBVIOUS
<1> USE DEF ListenerInv
<1>1. Listener!TypeOK
  <2>1. Listener!Range(queue) = {k \in Peers : conn[k] = "queued"} /\ Listener!IsInjective(queue)
    BY SameOperators DEF QueueInv
  <2>2. /\ socketClosed <=> acloseTask = "done"
        /\ future = "pending" => serveTask = "waiting"
    BY DEF WatchInv
  <2> QED BY <2>1, <2>2 DEF Listener!TypeOK, ListenerTypes
<1>2. Listener!NothingWatchesClosed
  <2>1. ASSUME Unwatched, NEW c \in Listener!Range(ready) PROVE c \notin {Accept, Retry}
    <3>1. PICK i \in DOMAIN ready : ready[i] = c
      BY <2>1 DEF Listener!Range
    <3>2. i \in 1..Len(ready)
      BY <3>1, LenProperties DEF ListenerTypes
    <3> QED BY <2>1, <3>1, <3>2 DEF Unwatched
  <2>2. ASSUME socketClosed PROVE Unwatched
    BY <2>2 DEF WatchInv
  <2> QED BY <2>1, <2>2 DEF Listener!NothingWatchesClosed, Unwatched, Accept, Retry
<1> QED BY <1>1, <1>2

LEMMA PairProperties == PairInv => Pair!TypeOK /\ Pair!BothAreClosed
  BY DEF PairInv, Pair!TypeOK

LEMMA ServerProperties == ServerInv => NothingOutlivesRun /\ ClosedStaysClosed
  BY DEF ServerInv, PhaseInv, NothingOutlivesRun

-----------------------------------------------------------------------------
(* The whole *)

LifeCyclesInv == ServerInv /\ CountInv /\ ThreadInv /\ RunsInv /\ ListenerInv /\ PairInv

\* The invariants of the parts name the variables of their part only.
LEMMA ServerStays == ServerInv /\ CountInv /\ UNCHANGED vars => ServerInv' /\ CountInv'
<1> SUFFICES ASSUME ServerInv, CountInv, UNCHANGED vars PROVE ServerInv' /\ CountInv'
  OBVIOUS
<1> USE DEF vars, state, serving, closing
<1>1. ServerTypes'
  BY DEF ServerInv, ServerTypes
<1>2. Closing' = Closing /\ Setup' = Setup /\ Alive' = Alive
  BY Zenon DEF Closing, Setup, Alive
<1>3. GuardInv' /\ PhaseInv' /\ CloseInv' /\ ClosedStaysClosed'
  BY <1>2, Zenon DEF ServerInv, GuardInv, PhaseInv, CloseInv, ClosedStaysClosed
<1>4. CountInv'
  BY <1>2, Zenon DEF CountInv
<1> QED BY <1>1, <1>3, <1>4 DEF ServerInv

LEMMA ThreadsStay == ThreadInv /\ RunsInv /\ UNCHANGED threadVars => ThreadInv' /\ RunsInv'
  BY DEF threadVars, ThreadInv, RunsInv, ThreadTypes, PlaceInv, LockInv, RunInv, ShutInv, OneRunner, RunnerInv,
         PortalInv, CallsAnswered, Standalone!NotYetRunning

LEMMA ListenerStays == ListenerInv /\ UNCHANGED listenerVars => ListenerInv'
  BY DEF listenerVars, ListenerInv, ListenerTypes, QueueInv, WatchInv, Unwatched

LEMMA PairStays == PairInv /\ UNCHANGED pairVars => PairInv'
  BY DEF pairVars, PairInv, Pair!BothAreClosed

LEMMA LifeCyclesStart == LifeCyclesInit => LifeCyclesInv
  BY ServerInit, ThreadInit, ListenerInit, PairInit DEF LifeCyclesInit, LifeCyclesInv

\* A step is one of the part that was chosen.
LEMMA LifeCyclesStep ==
  LifeCyclesInv /\ [LifeCyclesNext]_<<part, vars, threadVars, listenerVars, pairVars>> => LifeCyclesInv'
<1> SUFFICES ASSUME LifeCyclesInv, [LifeCyclesNext]_<<part, vars, threadVars, listenerVars, pairVars>>
             PROVE  LifeCyclesInv'
  OBVIOUS
<1> USE DEF LifeCyclesInv
<1>1. CASE Next /\ UNCHANGED <<threadVars, listenerVars, pairVars>>
  <2>1. ServerInv' /\ CountInv'
    BY <1>1, ServeStepInv, OtherStepInv, CountStep DEF Next
  <2> QED BY <1>1, <2>1, ThreadsStay, ListenerStays, PairStays
<1>2. CASE Standalone!Next /\ UNCHANGED <<vars, listenerVars, pairVars>>
  <2>1. ThreadInv' /\ RunsInv'
    <3>1. PICK t \in Threads :
            Standalone!RunStep(t) \/ Standalone!ControlStep(t) \/ \E c \in Calls : Standalone!Call(t, c)
      BY <1>2 DEF Standalone!Next
    <3>2. ThreadInv'
      BY <3>1, ThreadStepInv, ThreadCallInv
    <3> QED BY <3>1, <3>2, RunsStepInv
  <2> QED BY <1>2, <2>1, ServerStays, ListenerStays, PairStays
<1>3. CASE (Listener!Next \/ ListenerClosed) /\ UNCHANGED <<vars, threadVars, pairVars>>
  BY <1>3, ListenerStepInv, ServerStays, ThreadsStay, PairStays
<1>4. CASE Pair!Next /\ UNCHANGED <<vars, threadVars, listenerVars>>
  BY <1>4, PairStepInv, ServerStays, ThreadsStay, ListenerStays
<1>5. CASE UNCHANGED <<part, vars, threadVars, listenerVars, pairVars>>
  BY <1>5, ServerStays, ThreadsStay, ListenerStays, PairStays
<1> QED BY <1>1, <1>2, <1>3, <1>4, <1>5 DEF LifeCyclesNext

LEMMA LifeCyclesInvariant == LifeCyclesSpec => []LifeCyclesInv
  BY LifeCyclesStart, LifeCyclesStep, PTL DEF LifeCyclesSpec

\* The states of the parts have their types: what __active_tasks counts, which
\* server_close() has the guard, and which thread has which of the two locks of the
\* server that threads drive.
THEOREM TypesOfLifeCycles == LifeCyclesSpec => []LifeCyclesTypeOK
<1>1. LifeCyclesInv => LifeCyclesTypeOK
  BY ServerTypeOK, ThreadProperties, ListenerProperties, PairProperties DEF LifeCyclesInv, LifeCyclesTypeOK
<1> QED BY <1>1, LifeCyclesInvariant, PTL

\* No server listens after its server_close() closed the listeners, neither one that
\* was in its activation meanwhile nor one that another thread starts.
THEOREM ClosedForGood == LifeCyclesSpec => []ServersCloseForGood
<1>1. LifeCyclesInv => ServersCloseForGood
  BY ThreadProperties, ServerProperties DEF LifeCyclesInv, ServersCloseForGood
<1> QED BY <1>1, LifeCyclesInvariant, PTL

\* A run leaves no task behind, a listener that is closed leaves no reader, no timer
\* and no callback that accepts, and aclose() leaves no half of a pair open.
THEOREM NothingLeft == LifeCyclesSpec => []NothingIsLeft
<1>1. LifeCyclesInv => NothingIsLeft
  BY ServerProperties, ListenerProperties, PairProperties DEF LifeCyclesInv, NothingIsLeft
<1> QED BY <1>1, LifeCyclesInvariant, PTL

\* Of the threads that call serve_forever() one at most runs the event loop, and one
\* that waits for an answer of the loop waits for a loop that runs.
THEOREM OneThreadRuns == LifeCyclesSpec => []OneRun
<1>1. LifeCyclesInv => OneRun
  BY ThreadProperties DEF LifeCyclesInv, OneRun
<1> QED BY <1>1, LifeCyclesInvariant, PTL
=============================================================================
