------------------------------ MODULE MCBackend ------------------------------
(***************************************************************************)
(* What a backend gives to the rest of the library, for TLC: the two fair  *)
(* locks behind create_fair_lock() (FairLock on events, extended, and      *)
(* FastFIFOLock on a parking lot), the threads portal (ThreadsPortal), the *)
(* cancel scopes of asyncio (CancelScope) and, on top of the portal, the   *)
(* calls given to an executor (ExecutorCalls).  They share no state, so    *)
(* they are run one at a time: the part that is chosen at the beginning is *)
(* the only one that moves.                                                *)
(***************************************************************************)
EXTENDS FairLock

CONSTANTS Calls, Backends, Scopes, MaxDeliveries, Submitted, Workers

VARIABLES
  part,  \* "events", "parking", "portal", "scopes" or "executor"
  lotLocked, lot, lotPc,
  backend, portal, aborted, thread, kind, callWaiters, posted, future, task,
  scope, stack, host, awaited, work, must, last, raising, cancelling, delayed, ready, outside, broken,
  call, notifying, setting, event, current, caller, cancel, outcome

Parking == INSTANCE FastFIFOLock WITH locked <- lotLocked, pc <- lotPc
Portal == INSTANCE ThreadsPortal WITH waiters <- callWaiters
Nested == INSTANCE CancelScope WITH task <- host, future <- awaited
Executor == INSTANCE ExecutorCalls WITH Calls <- Submitted, future <- call, posted <- setting, task <- caller

ASSUME PortalAssumption == Portal!PortalParameters
ASSUME ScopeAssumption == Nested!ScopeParameters
ASSUME ExecutorAssumption == Executor!ExecutorParameters

lotVars == <<lotLocked, lot, lotPc>>
portalVars == <<backend, portal, aborted, thread, kind, callWaiters, posted, future, task>>
scopeVars == <<scope, stack, host, awaited, work, must, last, raising, cancelling, delayed, ready, outside, broken>>
executorVars == <<call, notifying, setting, event, current, caller, cancel, outcome>>

\* Nothing needs to happen once the portal is left: EveryoneLeaves says when it
\* gets closed.  The tasks end, the locks never stop.
PortalLeft == portal # "open" /\ UNCHANGED portalVars
TaskLeft == host = "done" /\ UNCHANGED scopeVars
CallsLeft == caller = "left" /\ UNCHANGED executorVars

BackendInit ==
  /\ part \in {"events", "parking", "portal", "scopes", "executor"}
  /\ Init /\ Parking!Init /\ Portal!Init /\ Nested!Init /\ Executor!Init
  /\ part # "portal" => backend = "asyncio" /\ kind = [c \in Calls |-> "sync"]
BackendNext ==
  /\ UNCHANGED part
  /\ \/ part = "events" /\ Next /\ UNCHANGED <<lotVars, portalVars, scopeVars, executorVars>>
     \/ part = "parking" /\ Parking!Next /\ UNCHANGED <<vars, portalVars, scopeVars, executorVars>>
     \/ part = "portal" /\ (Portal!Next \/ PortalLeft) /\ UNCHANGED <<vars, lotVars, scopeVars, executorVars>>
     \/ part = "scopes" /\ (Nested!Next \/ TaskLeft) /\ UNCHANGED <<vars, lotVars, portalVars, executorVars>>
     \/ part = "executor" /\ (Executor!Next \/ CallsLeft) /\ UNCHANGED <<vars, lotVars, portalVars, scopeVars>>

\* The fairness of a part that does not move holds: nothing it names is enabled.
BackendSpec ==
  /\ BackendInit /\ [][BackendNext]_<<part, vars, lotVars, portalVars, scopeVars, executorVars>>
  /\ Fairness /\ Parking!Fairness /\ Portal!Fairness
  /\ WF_scopeVars(Nested!LoopRuns) /\ WF_scopeVars(work = "pending" /\ Nested!FutureDone)
  /\ WF_scopeVars(raising # "no" /\ Nested!Leaves)
  /\ SF_scopeVars(part = "scopes" /\ (Nested!Leaves \/ Nested!AwaitsUnshielded))
  /\ SF_scopeVars(Nested!TaskSteps /\ host' = "running")
  /\ WF_executorVars(Executor!TaskGoesOn)
  /\ \A c \in 1..Submitted : WF_executorVars(part = "executor" /\ Executor!Others(c))

\* Types of the lock on events, of the scopes and of the calls, with who is in its queue
\* and what is in the queue of the event loop.
BackendTypeOK == TypeOK /\ Nested!TypeOK /\ Executor!TypeOK

\* Both locks keep the promise of create_fair_lock(): one holder, first come
\* first served, whoever is cancelled before or after the wake-up or the
\* hand-over.
BothAreFairMutexes == ImplementsFairMutex /\ Parking!ImplementsFairMutex

\* The portal is not left while something of an accepted call is still to come; a task
\* leaves its calls to an executor with none that may still start, and is told that a
\* call is cancelled only when it never ran; nobody is parked at a lock that is free, and
\* somebody in front of a lock on events that is free is about to take it or to wake the next.
NothingLeftBehind ==
  /\ Portal!NothingLeftBehind /\ Parking!NobodyStranded /\ NoLostWakeup
  /\ Executor!NothingSubmittedIsLeft /\ Executor!CancelledNeverRan

\* The task of a cancelled future is cancelled, or never starts.
CancelReachesTask == Portal!CancelReachesTask

\* A cancellation stays in its scope, also when it was ignored and delayed.
CancelledInItsScope == Nested!CancelledInItsScope

\* The requests of a scope are withdrawn with it.
RequestsWithdrawn == Nested!RequestsWithdrawn

\* Whoever waits for a lock gets it, the threads and the loop do not wait for each
\* other for ever, a scope that is cancelled is left, and a task gets the answer of its
\* calls.
NobodyWaitsForEver ==
  /\ EveryWaiterServed /\ Portal!EveryoneLeaves /\ Nested!CancelledScopeEnds
  /\ part = "executor" => Executor!TaskIsAnswered
=============================================================================
