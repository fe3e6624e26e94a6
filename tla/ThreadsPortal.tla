----------------------------- MODULE ThreadsPortal -----------------------------
(***************************************************************************)
(* The portal through which threads call into the event loop:              *)
(*   src/easynetwork/lowlevel/api_async/backend/_asyncio/threads.py        *)
(*   src/easynetwork/lowlevel/api_async/backend/_trio/threads.py           *)
(*                                                                         *)
(* A call is one run_sync_soon() or run_coroutine_soon() of a thread of    *)
(* its own; its future may be cancelled by the thread.  The loop runs the  *)
(* functions posted with call_soon_threadsafe() in order, and the tasks    *)
(* they create when it likes.                                              *)
(***************************************************************************)
EXTENDS Sequences, FiniteSets, SequencesExt

CONSTANTS
  Calls,     \* the calls
  Backends   \* those to check, among "asyncio" and "trio"

PortalParameters == IsFiniteSet(Calls) /\ Backends \subseteq {"asyncio", "trio"} /\ Backends # {}

VARIABLES
  backend,  \* the backend of the portal; it never changes
  portal,   \* "open"; "closing": __loop is None; "joining": in the __aexit__()
            \* of the task group; "closed"
  aborted,  \* the task group is cancelled
  thread,   \* of each call: "idle", "attached", "blocked" in run_sync_soon().result()
            \* of run_coroutine_soon(), "free" with a future, or "refused"
  kind,     \* of each call: "sync" or "coroutine"
  waiters,  \* __call_soon_waiters, or what the counter of the trio portal counts
  posted,   \* what the threads posted to the loop, in order
  future,   \* of each call: "pending", "done" or "cancelled"
  task      \* of each coroutine: "none", "scheduled", "running", "cancelling", "done"

state == <<portal, aborted, thread, kind, waiters, posted, future, task>>
vars == <<backend, state>>

Init ==
  /\ backend \in Backends
  /\ portal = "open" /\ aborted = FALSE
  /\ thread = [c \in Calls |-> "idle"]
  /\ kind \in [Calls -> {"sync", "coroutine"}]
  /\ waiters = {} /\ posted = <<>>
  /\ future = [c \in Calls |-> "pending"]
  /\ task = [c \in Calls |-> "none"]

-----------------------------------------------------------------------------
(* The threads *)

\* Under the lock: the loop is checked and a waiter is registered.
Attach(c) ==
  /\ thread[c] = "idle"
  /\ \/ /\ portal = "open"
        /\ waiters' = waiters \cup {c}
        /\ thread' = [thread EXCEPT ![c] = "attached"]
     \/ /\ portal # "open"
        /\ thread' = [thread EXCEPT ![c] = "refused"]
        /\ UNCHANGED waiters
  /\ UNCHANGED <<portal, aborted, kind, posted, future, task>>

\* Out of the lock: call_soon_threadsafe().
Post(c) ==
  /\ thread[c] = "attached"
  /\ posted' = Append(posted, <<"callback", c>>)
  /\ thread' = [thread EXCEPT ![c] = IF kind[c] = "sync" THEN "free" ELSE "blocked"]
  /\ UNCHANGED <<portal, aborted, kind, waiters, future, task>>

\* on_fut_done() exists from the first step of the coroutine on.
Observed(c) == task[c] \in {"running", "cancelling", "done"}

\* future.cancel() by the thread.
CancelPosted(c) == IF Observed(c) THEN Append(posted, <<"cancel", c>>) ELSE posted
CancelFuture(c) ==
  /\ thread[c] = "free" /\ future[c] = "pending"
  /\ future' = [future EXCEPT ![c] = "cancelled"]
  /\ posted' = CancelPosted(c)
  /\ UNCHANGED <<portal, aborted, thread, kind, waiters, task>>

-----------------------------------------------------------------------------
(* The event loop *)

\* The waiters after the callback of a coroutine: on asyncio schedule_task()
\* registers another one at once, which the first step of the task releases.
Kept(c) == IF backend = "asyncio" THEN waiters ELSE waiters \ {c}

\* waiter.set_result() or detach_in_trio_thread().
Released(c) == waiters \ {c}

\* callback(), with the function it runs.
RunCallback ==
  /\ posted # <<>> /\ Head(posted)[1] = "callback"
  /\ posted' = Tail(posted)
  /\ LET c == Head(posted)[2] IN
       \/ /\ kind[c] = "sync"
          /\ waiters' = Released(c)
          /\ future' = [future EXCEPT ![c] = IF @ = "pending" THEN "done" ELSE @]
          /\ UNCHANGED <<thread, task>>
       \/ /\ kind[c] = "coroutine"
          /\ waiters' = Kept(c)
          /\ task' = [task EXCEPT ![c] = "scheduled"]
          /\ thread' = [thread EXCEPT ![c] = "free"]
          /\ UNCHANGED future
  /\ UNCHANGED <<portal, aborted, kind>>

\* The first step of coroutine(): a future that is cancelled already posts the
\* cancellation at once.  On trio the cancelled task of an aborted group starts too.
FaultEarlyCancel(c) == FALSE
EarlyCancel(c) == future[c] = "cancelled"
Start(c) ==
  /\ task[c] = "scheduled"
  /\ task' = [task EXCEPT ![c] = IF aborted THEN "cancelling" ELSE "running"]
  /\ waiters' = Released(c)
  /\ posted' = IF EarlyCancel(c) THEN Append(posted, <<"cancel", c>>) ELSE posted
  /\ UNCHANGED <<portal, aborted, thread, kind, future>>

\* task.cancel(), or the cancel() of the scope of the coroutine.
RunCancel ==
  /\ posted # <<>> /\ Head(posted)[1] = "cancel"
  /\ posted' = Tail(posted)
  /\ task' = [task EXCEPT ![Head(posted)[2]] = IF @ = "running" THEN "cancelling" ELSE @]
  /\ UNCHANGED <<portal, aborted, thread, kind, waiters, future>>

\* The coroutine function returns or raises, or lets its cancellation through.
CoroutineEnds(c) ==
  /\ task[c] \in {"running", "cancelling"}
  /\ task' = [task EXCEPT ![c] = "done"]
  /\ \/ future' = [future EXCEPT ![c] = IF @ = "pending" THEN "done" ELSE @]
     \/ task[c] = "cancelling" /\ future' = [future EXCEPT ![c] = IF @ = "pending" THEN "cancelled" ELSE @]
  /\ UNCHANGED <<portal, aborted, thread, kind, waiters, posted>>

\* __aexit__() up to its first await.
Close ==
  /\ portal = "open"
  /\ portal' = "closing"
  /\ UNCHANGED <<aborted, thread, kind, waiters, posted, future, task>>

\* What the cancellation of the task group makes of a task: on asyncio a task
\* cancelled before its first step never runs.
Aborted(t) ==
  CASE t = "running" -> "cancelling"
    [] t = "scheduled" /\ backend = "asyncio" -> "done"
    [] OTHER -> t

\* The waiters are gone: the task group is left, with an exception that cancels
\* it or without one.
Join ==
  /\ portal = "closing" /\ waiters = {}
  /\ portal' = "joining"
  /\ UNCHANGED <<aborted, thread, kind, waiters, posted, future, task>>

\* On trio the tasks belong to the cancel scopes around the portal.
Abort ==
  /\ portal = "joining" \/ (backend = "trio" /\ portal # "closed")
  /\ ~aborted
  /\ aborted' = TRUE
  /\ task' = [c \in Calls |-> Aborted(task[c])]
  /\ UNCHANGED <<portal, thread, kind, waiters, posted, future>>

Closed ==
  /\ portal = "joining"
  /\ \A c \in Calls : task[c] \in {"none", "done"}
  /\ portal' = "closed"
  /\ UNCHANGED <<aborted, thread, kind, waiters, posted, future, task>>

-----------------------------------------------------------------------------
LoopStep == RunCallback \/ RunCancel \/ Close \/ Join \/ Abort \/ Closed
Next ==
  /\ UNCHANGED backend
  /\ \/ LoopStep
     \/ \E c \in Calls : Attach(c) \/ Post(c) \/ CancelFuture(c) \/ Start(c) \/ CoroutineEnds(c)

Spec == Init /\ [][Next]_vars

\* Threads and loop go on; a coroutine function ends when it is cancelled, and
\* nothing else is asked of it; a cancelled portal is left.
Fairness ==
  /\ WF_state(RunCallback) /\ WF_state(RunCancel) /\ WF_state(Join) /\ WF_state(Closed)
  /\ WF_state(aborted /\ Close)
  /\ \A c \in Calls : /\ WF_state(Post(c)) /\ WF_state(Start(c))
                      /\ WF_state(task[c] = "cancelling" /\ CoroutineEnds(c))
FairSpec == Spec /\ Fairness

-----------------------------------------------------------------------------
(* Properties *)

Accepted == {c \in Calls : thread[c] \in {"attached", "blocked", "free"}}

\* The portal is not left while something of an accepted call is still to come:
\* once it is closed every future has its result or is cancelled, so that no
\* thread waits for a loop that does not listen any more, and no function runs
\* outside of the portal's scope.
NothingLeftBehind ==
  portal = "closed" =>
    /\ waiters = {} /\ \A i \in DOMAIN posted : posted[i][1] = "cancel"
    /\ \A c \in Accepted : thread[c] = "free" /\ future[c] # "pending" /\ task[c] \in {"none", "done"}

\* The task of a cancelled future is cancelled, when it has not started and even
\* when the portal closes: it always ends.
CancelReachesTask == \A c \in Calls : future[c] = "cancelled" ~> task[c] \in {"none", "done"}

\* run_coroutine_soon() returns to its thread and a portal whose tasks are
\* cancelled gets closed: the threads and the loop never wait for each other.
EveryoneLeaves ==
  /\ \A c \in Calls : thread[c] = "attached" ~> thread[c] = "free"
  /\ aborted ~> portal = "closed"
=============================================================================
