---------------------------- MODULE ExecutorCalls ----------------------------
(***************************************************************************)
(* A task that awaits calls given to an executor:                          *)
(*   src/easynetwork/lowlevel/futures.py (AsyncExecutor.run() and map(),   *)
(*   unwrap_future())                                                      *)
(* The calls are submitted together and awaited one after the other; run() *)
(* is map() with one call.  The future of a call is made done by a worker, *)
(* or by the thread that shuts the executor down, and only then are its    *)
(* callbacks called: on_fut_done() wakes the task through the threads      *)
(* portal.  The cancellation of the task is asked at any moment, and what  *)
(* unwrap_future() rejects is delivered again at the next await.           *)
(***************************************************************************)
EXTENDS Integers, FiniteSets

CONSTANTS
  Calls,   \* the number of calls
  Workers  \* how many of them the executor runs at a time

ExecutorParameters == Calls \in Nat \ {0} /\ Workers \in Nat \ {0}

VARIABLES
  future,     \* each call: "pending", "running", "finished" or "cancelled"
  notifying,  \* the calls whose future is done and whose callback is still to be
              \* called, by the other thread
  posted,     \* the calls whose done_event.set() is in the queue of the loop
  event,      \* done_event of the call that is awaited
  current,    \* the call that is awaited
  task,       \* "waiting", "shielded" (ignore_cancellation()), "yielding" or "left"
  cancel,     \* a cancellation of the task was asked and not delivered for good
  outcome     \* how the task left: "none", "results", "cancelled", "future cancelled"

vars == <<future, notifying, posted, event, current, task, cancel, outcome>>

Done(c) == future[c] \in {"finished", "cancelled"}
Idents == 1..Calls

TypeOK ==
  /\ future \in [Idents -> {"pending", "running", "finished", "cancelled"}]
  /\ notifying \subseteq {c \in Idents : Done(c)} /\ posted \subseteq {c \in Idents : Done(c)}
  /\ event \in BOOLEAN /\ current \in Idents /\ cancel \in BOOLEAN
  /\ task \in {"waiting", "shielded", "yielding", "left"}
  /\ outcome \in {"none", "results", "cancelled", "future cancelled"}
  /\ task = "left" <=> outcome # "none"
  /\ event => Done(current)

Init ==
  /\ future = [c \in Idents |-> "pending"] /\ notifying = {} /\ posted = {}
  /\ event = FALSE /\ current = 1 /\ task = "waiting" /\ cancel = FALSE /\ outcome = "none"

-----------------------------------------------------------------------------
(* The other threads *)

\* A future becomes done; a callback is there only for the call that is awaited.
BecomesDone(c, how) ==
  /\ future' = [future EXCEPT ![c] = how]
  /\ notifying' = IF c = current /\ task # "left" THEN notifying \cup {c} ELSE notifying

WorkerStarts(c) ==
  /\ future[c] = "pending" /\ \A d \in 1..(c - 1) : future[d] # "pending"
  /\ Cardinality({d \in Idents : future[d] = "running"}) < Workers
  /\ future' = [future EXCEPT ![c] = "running"]
  /\ UNCHANGED <<notifying, posted, event, current, task, cancel, outcome>>
WorkerFinishes(c) ==
  /\ future[c] = "running" /\ BecomesDone(c, "finished")
  /\ UNCHANGED <<posted, event, current, task, cancel, outcome>>

\* shutdown(cancel_futures=True), for one of the futures.
ExecutorCancels(c) ==
  /\ future[c] = "pending" /\ BecomesDone(c, "cancelled")
  /\ UNCHANGED <<posted, event, current, task, cancel, outcome>>

\* on_fut_done(), in that thread: portal.run_sync_soon(), which raises a RuntimeError
\* that is suppressed when unwrap_future() was left.
Notify(c) ==
  /\ c \in notifying /\ notifying' = notifying \ {c}
  /\ posted' = IF c = current /\ task # "left" THEN posted \cup {c} ELSE posted
  /\ UNCHANGED <<future, event, current, task, cancel, outcome>>

-----------------------------------------------------------------------------
(* The event loop *)

SetEvent(c) ==
  /\ c \in posted /\ posted' = posted \ {c}
  /\ event' = (event \/ c = current)
  /\ UNCHANGED <<future, notifying, current, task, cancel, outcome>>

Cancel ==
  /\ task # "left" /\ ~cancel /\ cancel' = TRUE
  /\ UNCHANGED <<future, notifying, posted, event, current, task, outcome>>

\* What the finally clauses of _result_or_cancel() and of the iterator do: the
\* futures that have not started are cancelled.
FaultCancelRest(f) == f
CancelRest(f) == [c \in Idents |-> IF f[c] = "pending" THEN "cancelled" ELSE f[c]]
Leave(how, f) == task' = "left" /\ outcome' = how /\ future' = CancelRest(f)

\* Future.cancel(): refused once the call runs.
Accepted(c) == future[c] \in {"pending", "cancelled"}

\* The cancellation is delivered while the task waits for the event.  When the
\* future was pending, its callback sets the event at once, in this thread.
CancelDelivered ==
  /\ task = "waiting" /\ cancel
  /\ IF Accepted(current)
     THEN Leave("cancelled", [future EXCEPT ![current] = IF @ = "pending" THEN "cancelled" ELSE @]) /\ cancel' = FALSE
     ELSE task' = "shielded" /\ UNCHANGED <<future, outcome, cancel>>
  /\ UNCHANGED <<notifying, posted, event, current>>

\* unwrap_future() returns the result: the next call is awaited, whose callback is
\* called at once if it is done already.
Returns ==
  IF future[current] = "cancelled" THEN Leave("future cancelled", future) /\ UNCHANGED <<event, current>>
  ELSE IF current = Calls THEN Leave("results", future) /\ UNCHANGED <<event, current>>
  ELSE /\ current' = current + 1 /\ event' = Done(current + 1) /\ task' = "waiting"
       /\ UNCHANGED <<outcome, future>>

\* The event is set.  A future that an other thread cancelled: the task yields once,
\* for a cancellation of its own to prevail.
Woken ==
  /\ event
  /\ \/ task = "waiting" /\ ~cancel /\ future[current] = "cancelled"
        /\ task' = "yielding" /\ UNCHANGED <<future, event, current, outcome>>
     \/ task = "waiting" /\ ~cancel /\ future[current] # "cancelled" /\ Returns
     \/ task = "shielded" /\ Returns
  /\ UNCHANGED <<notifying, posted, cancel>>

Yielded ==
  /\ task = "yielding"
  /\ Leave(IF cancel THEN "cancelled" ELSE "future cancelled", future) /\ cancel' = FALSE
  /\ UNCHANGED <<notifying, posted, event, current>>

Others(c) == WorkerStarts(c) \/ WorkerFinishes(c) \/ Notify(c) \/ SetEvent(c)
TaskGoesOn == CancelDelivered \/ Woken \/ Yielded
Next == Cancel \/ TaskGoesOn \/ \E c \in Idents : Others(c) \/ ExecutorCancels(c)

\* The executor runs what it was given, its threads and the loop go on.
Fairness == WF_vars(TaskGoesOn) /\ \A c \in Idents : WF_vars(Others(c))
Spec == Init /\ [][Next]_vars
FairSpec == Spec /\ Fairness

-----------------------------------------------------------------------------
(* Properties *)

\* "Cancelled" is the answer only for a call that never ran, and the task never
\* leaves a call that still runs.
CancelledNeverRan ==
  /\ outcome = "cancelled" => future[current] = "cancelled"
  /\ outcome # "none" => Done(current)

\* When the task has left, nothing is in the executor but the calls that run.
NothingSubmittedIsLeft == task = "left" => \A c \in Idents : future[c] # "pending"

\* The task gets its answer, cancelled or not.
TaskIsAnswered == <>(task = "left")
=============================================================================
