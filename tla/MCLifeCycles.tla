---------------------------- MODULE MCLifeCycles ----------------------------
(***************************************************************************)
(* What begins and ends in a server, for TLC: the life of an asynchronous  *)
(* server (AsyncServer, extended), of one that threads drive               *)
(* (StandaloneServer, which keeps of the first the phases of its run), of  *)
(* a listener of asyncio (StreamListener, which the first opens and closes *)
(* in one step each) and of a pair of transports (StapledTransport).  They *)
(* are run one at a time: the part that is chosen at the beginning is the  *)
(* only one that moves.                                                    *)
(***************************************************************************)
EXTENDS AsyncServer

CONSTANTS Threads, Calls, None, Peers, Backlog, Owners

VARIABLES
  part,  \* "asynchronous", "standalone", "listener" or "pair"
  call, at, closeLock, bootLock, isClosed, isShutdown, portal, stop, threadListening, runs, shut, returned,
  ready, todo, reader, timer, serveTask, future, acloseTask, socketClosed, freeDescriptors, queue, conn,
  fullDuplex, half, awaited, over

Standalone == INSTANCE StandaloneServer WITH listening <- threadListening
Listener == INSTANCE StreamListener WITH
  Clients <- Peers, serving <- serveTask, closer <- acloseTask, closed <- socketClosed
Pair == INSTANCE StapledTransport WITH at <- awaited

ASSUME StandaloneAssumption == Standalone!ThreadParameters
ASSUME ListenerAssumption == Listener!ListenerParameters

threadVars == <<call, at, closeLock, bootLock, isClosed, isShutdown, portal, stop, threadListening, runs, shut, returned>>
listenerVars ==
  <<ready, todo, reader, timer, serveTask, future, acloseTask, socketClosed, freeDescriptors, queue, conn>>
pairVars == <<fullDuplex, half, awaited, over>>

\* A listener that is closed does nothing more; the servers never stop.
ListenerClosed == socketClosed /\ UNCHANGED listenerVars

\* A part that does not move has one initial state.
LifeCyclesInit ==
  /\ part \in {"asynchronous", "standalone", "listener", "pair"}
  /\ IF part = "asynchronous" THEN TRUE ELSE backend = "asyncio"
  /\ IF part = "pair" THEN TRUE ELSE fullDuplex = TRUE
  /\ Init /\ Standalone!Init /\ Listener!Init /\ Pair!Init
LifeCyclesNext ==
  /\ UNCHANGED part
  /\ \/ part = "asynchronous" /\ Next /\ UNCHANGED <<threadVars, listenerVars, pairVars>>
     \/ part = "standalone" /\ Standalone!Next /\ UNCHANGED <<vars, listenerVars, pairVars>>
     \/ part = "listener" /\ (Listener!Next \/ ListenerClosed) /\ UNCHANGED <<vars, threadVars, pairVars>>
     \/ part = "pair" /\ Pair!Next /\ UNCHANGED <<vars, threadVars, listenerVars>>

\* The fairness of a part that does not move holds: nothing it names is enabled.
LifeCyclesSpec ==
  /\ LifeCyclesInit /\ [][LifeCyclesNext]_<<part, vars, threadVars, listenerVars, pairVars>>
  /\ Fairness /\ Standalone!Fairness /\ Listener!Fairness

\* Types of the parts, with who holds their guards and their locks.
LifeCyclesTypeOK == TypeOK /\ Standalone!TypeOK /\ Listener!TypeOK /\ Pair!TypeOK

\* Once a server_close() has closed the listeners, none is opened again.
ServersCloseForGood == ClosedStaysClosed /\ Standalone!ClosedForGood

\* One thread at most runs the event loop, and a thread waits for a loop that is there.
OneRun == Standalone!OneRun /\ Standalone!NobodyCallsADeadLoop

\* A run ends with its tasks, and the listener takes its callbacks out of the event
\* loop before it closes its socket.  The close of a pair leaves no half of it open.
NothingIsLeft == NothingOutlivesRun /\ Listener!NothingWatchesClosed /\ Pair!BothAreClosed

\* shutdown(), server_close(), is_serving(), aclose() and what they end all return,
\* called by a task or by a thread; and a lack of descriptors does not stop a listener
\* for good.
EveryCallEnds ==
  /\ ShutdownEnds /\ CloseEnds /\ ClosedServerStops
  /\ Standalone!ShutdownEnds /\ Standalone!ControlEnds
  /\ Listener!CloseEndsServe /\ Listener!BacklogServed
=============================================================================
