---------------------------- MODULE StandaloneServer ----------------------------
(***************************************************************************)
(* A server driven by threads:                                             *)
(*   src/easynetwork/servers/_base.py, class BaseStandaloneNetworkServerImpl *)
(*                                                                         *)
(* Threads call serve_forever(), shutdown(), server_close() and            *)
(* is_serving() of one object.  serve_forever() runs the event loop of an  *)
(* asynchronous server (module AsyncServer, of which this module keeps the *)
(* phases); the other calls hand a coroutine over to that loop through the *)
(* threads portal and wait for its result with the bootstrap lock held.    *)
(* A step is a step of one thread, between two synchronisations.           *)
(***************************************************************************)
EXTENDS Naturals, FiniteSets

CONSTANTS
  Threads,
  Calls,    \* the calls the threads make, among AllCalls
  MaxRuns,  \* bound: the runs of the event loop
  None

AllCalls == {"serve_forever", "shutdown", "shutdown_timeout", "server_close", "is_serving"}
ThreadParameters == Calls \subseteq AllCalls /\ None \notin Threads /\ MaxRuns \in Nat

VARIABLES
  call,        \* of each thread: the method it is in
  at,          \* of each thread: where
  closeLock,   \* __close_lock: its owner
  bootLock,    \* __bootstrap_lock: its owner
  isClosed,    \* __is_closed
  isShutdown,  \* __is_shutdown
  portal,      \* __threads_portal: "none", "open" or "closed" (its loop is None)
  stop,        \* the run scope of the asynchronous server is cancelled
  listening,   \* the asynchronous server has open listeners
  runs,        \* number of runs so far
  shut,        \* history: a server_close() has closed the listeners
  returned     \* history: a server_close() has returned

locks == <<closeLock, bootLock>>
flags == <<isClosed, isShutdown>>
loop == <<portal, stop, listening>>
vars == <<call, at, locks, flags, loop, runs, shut, returned>>

\* Where a thread is, when it runs the event loop.
Running == {"booting", "activating", "initializing", "serving", "ending", "draining", "unlocking"}

Init ==
  /\ call = [t \in Threads |-> "none"] /\ at = [t \in Threads |-> "idle"]
  /\ closeLock = None /\ bootLock = None
  /\ isClosed = FALSE /\ isShutdown = TRUE
  /\ portal = "none" /\ stop = FALSE /\ listening = FALSE
  /\ runs = 0 /\ shut = FALSE /\ returned = FALSE

Goes(t, place) == at' = [at EXCEPT ![t] = place]
Returns(t) == Goes(t, "idle") /\ call' = [call EXCEPT ![t] = "none"]
LoopIs(places) == \E t \in Threads : at[t] \in places

\* Bound: MaxRuns calls of serve_forever() get to run the event loop.
NotYetRunning == {t \in Threads : call[t] = "serve_forever" /\ at[t] \notin Running}

Call(t, c) ==
  /\ at[t] = "idle"
  /\ c = "serve_forever" => runs + Cardinality(NotYetRunning) < MaxRuns
  /\ call' = [call EXCEPT ![t] = c]
  /\ Goes(t, IF c \in {"serve_forever", "server_close"} THEN "want_close_lock" ELSE "want_boot_lock")
  /\ UNCHANGED <<locks, flags, loop, runs, shut, returned>>

IsRefused(t) == call[t] = "serve_forever" /\ isClosed
TakeCloseLock(t) ==
  /\ at[t] = "want_close_lock" /\ closeLock = None
  /\ \/ /\ IsRefused(t)
        /\ Returns(t)
        /\ UNCHANGED closeLock
     \/ /\ ~IsRefused(t)
        /\ closeLock' = t
        /\ Goes(t, "want_boot_lock")
        /\ UNCHANGED call
  /\ UNCHANGED <<bootLock, flags, loop, runs, shut, returned>>

-----------------------------------------------------------------------------
(* serve_forever() *)

\* ServerAlreadyRunning: the locks are released.
FaultIsRunning == FALSE
IsRunning == ~isShutdown

TakeBootLock(t) ==
  /\ at[t] = "want_boot_lock" /\ bootLock = None /\ call[t] = "serve_forever"
  /\ \/ /\ IsRunning
        /\ closeLock' = None
        /\ Returns(t)
        /\ UNCHANGED <<bootLock, isShutdown, runs>>
     \/ /\ ~IsRunning
        /\ bootLock' = t
        /\ isShutdown' = FALSE
        /\ runs' = runs + 1
        /\ Goes(t, "booting")
        /\ UNCHANGED <<call, closeLock>>
  /\ UNCHANGED <<isClosed, loop, shut, returned>>

\* The server and the portal are created: the locks are released.
Booted(t) ==
  /\ at[t] = "booting"
  /\ portal' = "open" /\ stop' = FALSE
  /\ closeLock' = None /\ bootLock' = None
  /\ Goes(t, "activating")
  /\ UNCHANGED <<call, flags, listening, runs, shut, returned>>

\* The factory of the server raises: the exit stack gets the lock it holds a
\* second time (an RLock), sets the event and releases everything.
BootFails(t) ==
  /\ at[t] = "booting"
  /\ isShutdown' = TRUE
  /\ closeLock' = None /\ bootLock' = None
  /\ Returns(t)
  /\ UNCHANGED <<isClosed, loop, runs, shut, returned>>

\* server_activate() and initialize_service() of the asynchronous server.
Activated(t) ==
  /\ at[t] = "activating" /\ ~stop
  /\ listening' = TRUE
  /\ Goes(t, "initializing")
  /\ UNCHANGED <<call, locks, flags, portal, stop, runs, shut, returned>>

Initialized(t) ==
  /\ at[t] = "initializing" /\ ~stop
  /\ Goes(t, "serving")
  /\ UNCHANGED <<call, locks, flags, loop, runs, shut, returned>>

\* serve_forever() of the asynchronous server ends: an error of the setup, a
\* cancellation, an interrupt, or no listener and no client left.
LoopBreaks(t) ==
  /\ at[t] \in {"activating", "initializing", "serving"}
  /\ Goes(t, "ending")
  /\ UNCHANGED <<call, locks, flags, loop, runs, shut, returned>>

ClosePortal(t) ==
  /\ at[t] = "ending"
  /\ portal' = "closed"
  /\ Goes(t, "draining")
  /\ UNCHANGED <<call, locks, flags, stop, listening, runs, shut, returned>>

\* The portal waits for the coroutines that were handed over, then the exit of
\* the asynchronous server closes its listeners.
PortalDrained == ~LoopIs({"calling", "waiting_down"})
LoopEnds(t) ==
  /\ at[t] = "draining" /\ PortalDrained
  /\ listening' = FALSE
  /\ Goes(t, "unlocking")
  /\ UNCHANGED <<call, locks, flags, portal, stop, runs, shut, returned>>

\* The bootstrap lock is taken again to reset the attributes.
RunEnds(t) ==
  /\ at[t] = "unlocking" /\ bootLock = None
  /\ portal' = "none"
  /\ isShutdown' = TRUE
  /\ Returns(t)
  /\ UNCHANGED <<locks, isClosed, stop, listening, runs, shut, returned>>

-----------------------------------------------------------------------------
(* shutdown(), server_close() and is_serving() *)

\* What is left of a method after its call of the portal.
AfterCall(t) ==
  \/ /\ call[t] \in {"shutdown", "shutdown_timeout"}
     /\ Goes(t, "wait_shutdown")
     /\ UNCHANGED <<call, closeLock, isClosed, returned>>
  \/ /\ call[t] = "server_close"
     /\ isClosed' = TRUE /\ returned' = TRUE
     /\ closeLock' = None
     /\ Returns(t)
  \/ /\ call[t] = "is_serving"
     /\ Returns(t)
     /\ UNCHANGED <<closeLock, isClosed, returned>>

\* The attributes are read with the lock held.  A closed portal raises a
\* RuntimeError, which is suppressed.
ReadPortal(t) ==
  /\ at[t] = "want_boot_lock" /\ bootLock = None /\ call[t] # "serve_forever"
  /\ \/ /\ portal = "open"
        /\ bootLock' = t
        /\ Goes(t, "calling")
        /\ UNCHANGED <<call, closeLock, isClosed, returned>>
     \/ /\ portal # "open"
        /\ AfterCall(t)
        /\ UNCHANGED bootLock
  /\ UNCHANGED <<isShutdown, loop, runs, shut>>

CallEnds(t) == bootLock' = None /\ AfterCall(t) /\ UNCHANGED <<isShutdown, portal, runs>>

\* The coroutine of the call runs in the event loop.  The scope of the run is
\* there as soon as the locks are released.
RunShutdown(t) ==
  /\ at[t] = "calling" /\ call[t] \in {"shutdown", "shutdown_timeout"}
  /\ \/ /\ ~LoopIs({"ending", "draining"})
        /\ stop' = TRUE
        /\ Goes(t, "waiting_down")
        /\ UNCHANGED <<call, locks, flags, portal, runs, returned>>
     \/ /\ LoopIs({"ending", "draining"})
        /\ CallEnds(t)
        /\ UNCHANGED stop
  /\ UNCHANGED <<listening, shut>>

\* BusyResourceError, which is suppressed as it is a RuntimeError; a server
\* that is opening its listeners gives up; else the listeners are closed.
RefusesClose == LoopIs({"initializing"})
RunClose(t) ==
  /\ at[t] = "calling" /\ call[t] = "server_close"
  /\ \/ /\ RefusesClose
        /\ UNCHANGED <<stop, listening, shut>>
     \/ /\ ~RefusesClose
        /\ stop' = (stop \/ LoopIs({"activating"}))
        /\ listening' = FALSE
        /\ shut' = TRUE
  /\ CallEnds(t)

RunIsServing(t) ==
  /\ at[t] = "calling" /\ call[t] = "is_serving"
  /\ CallEnds(t)
  /\ UNCHANGED <<stop, listening, shut>>

\* The event of the asynchronous server is set: its serve_forever() is over.
IsDown(t) ==
  /\ at[t] = "waiting_down" /\ LoopIs({"ending", "draining"})
  /\ CallEnds(t)
  /\ UNCHANGED <<stop, listening, shut>>

\* __is_shutdown.wait()
WaitReturns(t) ==
  /\ at[t] = "wait_shutdown" /\ isShutdown
  /\ Returns(t)
  /\ UNCHANGED <<locks, flags, loop, runs, shut, returned>>

\* The timeout of shutdown(timeout), in either of its two waits.
TimedOut(t) ==
  /\ call[t] = "shutdown_timeout"
  /\ \/ at[t] = "waiting_down" /\ CallEnds(t)
     \/ at[t] = "wait_shutdown" /\ Returns(t) /\ UNCHANGED <<locks, flags, portal, runs, returned>>
  /\ UNCHANGED <<stop, listening, shut>>

RunStep(t) ==
  \/ TakeBootLock(t) \/ Booted(t) \/ BootFails(t) \/ Activated(t) \/ Initialized(t)
  \/ LoopBreaks(t) \/ ClosePortal(t) \/ LoopEnds(t) \/ RunEnds(t)

ControlStep(t) ==
  \/ TakeCloseLock(t) \/ ReadPortal(t) \/ RunShutdown(t) \/ RunClose(t) \/ RunIsServing(t)
  \/ IsDown(t) \/ WaitReturns(t) \/ TimedOut(t)

Next == \E t \in Threads : RunStep(t) \/ ControlStep(t) \/ \E c \in Calls : Call(t, c)

Spec == Init /\ [][Next]_vars
\* The locks are given to the threads that ask for them, threads and timeouts
\* go on, and the event loop runs what it was given.
TakesLock(t) == TakeCloseLock(t) \/ TakeBootLock(t) \/ ReadPortal(t) \/ RunEnds(t)
GoesOn(t) ==
  \/ Booted(t) \/ ClosePortal(t) \/ LoopEnds(t)
  \/ RunShutdown(t) \/ RunClose(t) \/ RunIsServing(t) \/ IsDown(t) \/ WaitReturns(t) \/ TimedOut(t)
ThreadsAreFair == \A t \in Threads : SF_vars(TakesLock(t)) /\ WF_vars(GoesOn(t))

\* Moreover the tasks of the server end when they are cancelled.
Fairness == ThreadsAreFair /\ \A t \in Threads : WF_vars(stop /\ LoopBreaks(t))
FairSpec == Spec /\ Fairness

\* Nothing is known of the tasks of the server.
StubbornSpec == Spec /\ ThreadsAreFair

-----------------------------------------------------------------------------
(* Properties. *)

\* Types; the locks are held by the threads that are in their sections.
TypeOK ==
  /\ call \in [Threads -> Calls \cup {"none"}]
  /\ \A t \in Threads : call[t] = "none" <=> at[t] = "idle"
  /\ {closeLock, bootLock} \subseteq Threads \cup {None}
  /\ {isClosed, isShutdown, stop, listening, shut, returned} \subseteq BOOLEAN
  /\ portal \in {"none", "open", "closed"} /\ runs \in 0..MaxRuns
  /\ \A t \in Threads :
       /\ bootLock = t <=> at[t] \in {"booting", "calling", "waiting_down"}
       /\ closeLock = t <=> /\ call[t] \in {"serve_forever", "server_close"}
                            /\ at[t] \in {"want_boot_lock", "booting", "calling"}

\* One thread at most runs the event loop, __is_shutdown tells whether there is
\* one, and the portal is there exactly between its start and its end.
OneRun ==
  /\ Cardinality({t \in Threads : at[t] \in Running}) = (IF isShutdown THEN 0 ELSE 1)
  /\ portal = "none" <=> ~LoopIs(Running \ {"booting"})

\* A thread that waits for the event loop waits for one that is there: it holds
\* the bootstrap lock, which the end of the run needs.
NobodyCallsADeadLoop ==
  LoopIs({"calling", "waiting_down"}) =>
    LoopIs({"activating", "initializing", "serving", "ending", "draining"})

\* Once a server_close() has closed the listeners, none is opened again by the
\* run that goes on or by another one.
ClosedForGood == shut => ~listening

\* shutdown() returns, in the setup as well as in the teardown.  (The event it
\* waits for is the same for all runs: a serve_forever() that starts between
\* the end of a run and that wait holds it until the next end, so the property
\* is about the calls of the last run.)
ShutdownEnds ==
  \A t \in Threads :
    (call[t] = "shutdown" /\ at[t] # "wait_shutdown" /\ runs = MaxRuns) ~> call[t] # "shutdown"

\* server_close() and is_serving() return: the locks never make the threads
\* wait for each other for ever.  They do wait for a setup or for a shutdown().
ControlEnds == \A t \in Threads : call[t] \in {"server_close", "is_serving"} ~> at[t] = "idle"

\* "Closes the server. Thread-safe.": a server whose server_close() returned
\* does not get to serve with open listeners.
CloseCloses == returned /\ LoopIs({"serving"}) => ~listening

\* "timeout: The maximum amount of seconds to wait.", whatever the tasks of the
\* server do.
TimeoutIsRespected == \A t \in Threads : call[t] = "shutdown_timeout" ~> at[t] = "idle"
=============================================================================
