----------------------------- MODULE CancelScope -----------------------------
(***************************************************************************)
(* CancelScope, cancel_shielded_await() and cancel_shielded_coro_yield()   *)
(* of lowlevel/api_async/backend/_asyncio/tasks.py, for one task of        *)
(* asyncio that opens nested scopes and ignores cancellations here and     *)
(* there, while timers and other tasks cancel its scopes, and while        *)
(* somebody cancels the task itself.  ready is the queue of the event loop *)
(* as far as it is about the task: its next step, the delayed cancellation *)
(* and the retries of the scopes.  The code in the scopes lets a           *)
(* cancellation through, as the documentation asks.                        *)
(***************************************************************************)
EXTENDS Integers, Sequences, FiniteSets, SequencesExt, FiniteSetsExt

CONSTANTS
  Scopes,        \* the scopes the task may open, once each
  MaxDeliveries  \* an ignored coroutine ends before a scope retries that often

\* The task opens as many scopes as it likes, and ends: they are finite.  A scope is none
\* of the other reasons, states and callbacks.
ScopeParameters ==
  IsFiniteSet(Scopes) /\ Scopes \cap {"no", "pending", "done", "task.cancel()", "step", "delayed"} = {}

VARIABLES
  scope,       \* per scope: state, called, caught, calls and base (__host_task_cancel_calls, __host_task_cancelling)
  stack,       \* scopes of the task, innermost first
  task,        \* "running", "waiting", "done", or "yielding" and "ignoring" while it is shielded
  future,      \* what it waits for: "pending", "done" or the reason of the cancellation
  work,        \* the future of the ignored coroutine is "pending" or "done"
  must,        \* _must_cancel of the task: a reason or "no"
  last,        \* the last cancellation that was ignored, or "no"
  raising,     \* the reason of the CancelledError that goes through the task, or "no"
  cancelling,  \* cancellation requests of the task not yet withdrawn: task.cancelling()
  delayed,     \* __delayed_task_cancel_dict[task]: a reason or "no"
  ready,       \* the queue of the event loop
  outside,     \* somebody called task.cancel(): "no", "requested" or "thrown"
  broken       \* the AssertionError of _reschedule_delayed_task_cancel()

taskVars == <<task, future, work, must, last, raising>>
vars == <<scope, stack, taskVars, cancelling, delayed, ready, outside, broken>>

Reasons == Scopes \cup {"task.cancel()"}
Retry(s) == [retry |-> s]
Step == [retry |-> "step"]
DelayedCancel == [retry |-> "delayed"]

Init ==
  /\ scope = [s \in Scopes |-> [state |-> "created", called |-> FALSE, caught |-> FALSE, calls |-> 0, base |-> 0]]
  /\ stack = <<>> /\ task = "running" /\ future = "done" /\ work = "done"
  /\ must = "no" /\ last = "no" /\ raising = "no" /\ cancelling = 0
  /\ delayed = "no" /\ ready = <<>> /\ outside = "no" /\ broken = FALSE

\* The bound of the model: the task stops ignoring cancellations then.
MayIgnore == \A s \in Scopes : scope[s].calls < MaxDeliveries

\* The handle of a callback is cancelled.
Without(queue, callback) == RemoveFirst(queue, callback)
-----------------------------------------------------------------------------
\* asyncio.Task.cancel() of a task that waits: a future that is pending is cancelled,
\* otherwise the next step raises.  The callbacks then are queued after it, on q.
TaskCancel(reason, q, then) ==
  IF future = "pending"
  THEN future' = reason /\ must' = must /\ ready' = q \o <<Step>> \o then
  ELSE must' = reason /\ future' = future /\ ready' = q \o then

\* __deliver_cancellation() of a scope of the task in a callback, on the queue q:
\* it tries again until the scope is left, unless another reason is delayed.
Deliver(s, q, scopes) ==
  IF delayed = "no" /\ must = "no"
  THEN /\ scope' = [scopes EXCEPT ![s].calls = @ + 1]
       /\ cancelling' = cancelling + 1
       /\ TaskCancel(s, q, <<Retry(s)>>)
  ELSE /\ scope' = scopes
       /\ ready' = IF delayed \in {"no", s} THEN Append(q, Retry(s)) ELSE q
       /\ UNCHANGED <<future, must, cancelling>>

\* The same in the task itself, which is never cancelled while it runs.
DeliverHere(s, q, d) == IF d \in {"no", s} THEN Append(q, Retry(s)) ELSE q

\* _check_pending_cancellation(): the innermost cancelled scope takes its delivery up again.
FaultCheckPending(scopes, q, d) == q
CheckPending(scopes, q, d) ==
  LET called == {i \in DOMAIN scopes : scope[scopes[i]].called}
      innermost == scopes[Min(called)]
  IN IF called = {} \/ Contains(q, Retry(innermost)) THEN q ELSE DeliverHere(innermost, q, d)
-----------------------------------------------------------------------------
\* The task runs: it opens and leaves scopes, and awaits.

Enter(s) ==
  /\ task = "running" /\ raising = "no" /\ scope[s].state = "created"
  /\ scope' = [scope EXCEPT ![s].state = "entered", ![s].base = cancelling]
  /\ stack' = <<s>> \o stack
  /\ ready' = IF scope[s].called THEN DeliverHere(s, ready, delayed) ELSE ready
  /\ UNCHANGED <<taskVars, cancelling, delayed, outside, broken>>

\* What is left of the requests of a scope when it withdraws its own.
FaultUncancel(s) == cancelling
Uncancel(s) == IF scope[s].calls = 0 THEN cancelling ELSE Max({scope[s].base, cancelling - scope[s].calls})

\* A cancellation that was delayed by the scope dies with it.
FaultDropsDelayed(s) == FALSE
DropsDelayed(s) == scope[s].called /\ delayed = s

Exit ==
  /\ task = "running" /\ stack # <<>>
  /\ LET s == Head(stack)
         caught == scope[s].called /\ raising = s
         kept == Without(ready, Retry(s))
         queue == IF DropsDelayed(s) THEN Without(kept, DelayedCancel) ELSE kept
         left == IF DropsDelayed(s) THEN "no" ELSE delayed
     IN /\ scope' = [scope EXCEPT ![s].state = "exited", ![s].caught = caught, ![s].calls = 0]
        /\ cancelling' = IF scope[s].called THEN Uncancel(s) ELSE cancelling
        /\ delayed' = left
        /\ raising' = IF caught THEN "no" ELSE raising
        /\ ready' = CheckPending(Tail(stack), queue, left)
  /\ stack' = Tail(stack)
  /\ UNCHANGED <<task, future, work, must, last, outside, broken>>

\* The task awaits: a future, or a bare yield, whose future is done at once.
Await(mode, pending) ==
  /\ task = "running" /\ raising = "no"
  /\ task' = mode
  /\ future' = IF pending THEN "pending" ELSE "done"
  /\ work' = IF mode = "ignoring" /\ pending THEN "pending" ELSE "done"
  /\ ready' = IF pending THEN ready ELSE Append(ready, Step)
  /\ UNCHANGED <<scope, stack, must, last, raising, cancelling, delayed, outside, broken>>

Finish ==
  /\ task = "running" /\ stack = <<>>
  /\ task' = "done" /\ raising' = "no"
  /\ UNCHANGED <<scope, stack, future, work, must, last, cancelling, delayed, ready, outside, broken>>

\* A scope cancelled by the task itself.
CancelHere(s) ==
  /\ task = "running" /\ ~scope[s].called /\ scope[s].state # "exited"
  /\ scope' = [scope EXCEPT ![s].called = TRUE]
  /\ ready' = IF scope[s].state = "entered" THEN DeliverHere(s, ready, delayed) ELSE ready
  /\ UNCHANGED <<stack, taskVars, cancelling, delayed, outside, broken>>
-----------------------------------------------------------------------------
\* The callbacks of the event loop.

\* A future is done; the one of an ignored coroutine can be so after a cancellation
\* of the future that shields it.
FutureDone ==
  /\ task \in {"waiting", "ignoring"}
  /\ \/ future = "pending" /\ future' = "done" /\ ready' = Append(ready, Step)
     \/ future # "pending" /\ work = "pending" /\ UNCHANGED <<future, ready>>
  /\ work' = "done"
  /\ UNCHANGED <<scope, stack, task, must, last, raising, cancelling, delayed, outside, broken>>

\* _reschedule_delayed_task_cancel() in a step of the task.
Reschedule(reason) ==
  /\ broken' = (broken \/ (reason # "no" /\ delayed # "no"))
  /\ delayed' = IF reason = "no" THEN delayed ELSE reason

Rescheduled(reason) == IF reason = "no" THEN Tail(ready) ELSE Append(Tail(ready), DelayedCancel)

\* A step of the task: Task.__step() raises the cancellation of the future first.
Thrown == IF future \in Reasons THEN future ELSE must

StepWaiting ==
  /\ task = "waiting" /\ task' = "running"
  /\ raising' = Thrown
  /\ outside' = IF Thrown = "task.cancel()" THEN "thrown" ELSE outside
  /\ ready' = Tail(ready)
  /\ UNCHANGED <<future, work, last, delayed, broken>>

StepYielding ==
  /\ task = "yielding" /\ task' = "running"
  /\ Reschedule(Thrown) /\ ready' = Rescheduled(Thrown)
  /\ UNCHANGED <<future, work, last, raising, outside>>

\* The shield is renewed while the coroutine waits; then the last cancellation that
\* was ignored is delayed, and the coroutine goes on to another await or ends.
StepIgnoring ==
  LET ignored == IF Thrown # "no" THEN Thrown ELSE last IN
  /\ task = "ignoring"
  /\ \/ /\ work = "pending"
        /\ future' = "pending" /\ last' = ignored /\ ready' = Tail(ready)
        /\ UNCHANGED <<task, work, delayed, broken>>
     \/ /\ work = "done"
        /\ Reschedule(ignored) /\ last' = "no"
        /\ \/ /\ MayIgnore /\ task' = task
              /\ \/ future' = "done" /\ work' = "done" /\ ready' = Append(Rescheduled(ignored), Step)
                 \/ future' = "pending" /\ work' = "pending" /\ ready' = Rescheduled(ignored)
           \/ /\ task' = "running" /\ UNCHANGED <<future, work>>
              /\ ready' = CheckPending(stack, Rescheduled(ignored), delayed')
  /\ UNCHANGED <<raising, outside>>

TaskSteps ==
  /\ task # "running" /\ ready # <<>> /\ Head(ready) = Step
  /\ must' = "no"
  /\ StepWaiting \/ StepYielding \/ StepIgnoring
  /\ UNCHANGED <<scope, stack, cancelling>>

\* __cancel_task_unless_done(), and the removal from the dictionary queued with it.
DelayedRuns ==
  /\ task # "running" /\ ready # <<>> /\ Head(ready) = DelayedCancel
  /\ IF task = "done" THEN ready' = Tail(ready) /\ UNCHANGED <<future, must>>
                      ELSE TaskCancel(delayed, Tail(ready), <<>>)
  /\ delayed' = "no"
  /\ UNCHANGED <<scope, stack, task, work, last, raising, cancelling, outside, broken>>

RetryRuns ==
  /\ task # "running" /\ ready # <<>>
  /\ \E s \in Scopes :
       /\ Head(ready) = Retry(s)
       /\ MayIgnore \/ work = "done"
       /\ Deliver(s, Tail(ready), scope)
  /\ UNCHANGED <<stack, task, work, last, raising, delayed, outside, broken>>

\* cancel() by a timer or by another task.
CancelCalled(s) ==
  /\ task \notin {"running", "done"} /\ ~scope[s].called /\ scope[s].state # "exited"
  /\ LET called == [scope EXCEPT ![s].called = TRUE] IN
     IF scope[s].state = "entered" THEN Deliver(s, ready, called)
     ELSE scope' = called /\ UNCHANGED <<ready, future, must, cancelling>>
  /\ UNCHANGED <<stack, task, work, last, raising, delayed, outside, broken>>

CancelTask ==
  /\ task \notin {"running", "done"} /\ outside = "no"
  /\ outside' = "requested" /\ cancelling' = cancelling + 1
  /\ TaskCancel("task.cancel()", ready, <<>>)
  /\ UNCHANGED <<scope, stack, task, work, last, raising, delayed, broken>>
-----------------------------------------------------------------------------
Leaves == Exit \/ Finish
AwaitsUnshielded == \E pending \in BOOLEAN : Await("waiting", pending)
AwaitsShielded == MayIgnore /\ (Await("yielding", FALSE) \/ \E pending \in BOOLEAN : Await("ignoring", pending))
LoopRuns == TaskSteps \/ DelayedRuns \/ RetryRuns

Next ==
  \/ \E s \in Scopes : Enter(s) \/ CancelHere(s) \/ CancelCalled(s)
  \/ Leaves \/ AwaitsUnshielded \/ AwaitsShielded
  \/ FutureDone \/ LoopRuns \/ CancelTask

\* The event loop runs its callbacks, an ignored coroutine ends, and the task does
\* not ignore cancellations for ever.
Fairness ==
  /\ WF_vars(LoopRuns) /\ WF_vars(work = "pending" /\ FutureDone)
  /\ WF_vars(raising # "no" /\ Leaves)
  /\ SF_vars(Leaves \/ AwaitsUnshielded)
  /\ SF_vars(TaskSteps /\ task' = "running")

Spec == Init /\ [][Next]_vars
FairSpec == Spec /\ Fairness
-----------------------------------------------------------------------------
TypeOK ==
  /\ scope \in [Scopes -> [state : {"created", "entered", "exited"}, called : BOOLEAN, caught : BOOLEAN,
                           calls : Nat, base : Nat]]
  /\ stack \in Seq(Scopes) /\ IsInjective(stack)
  /\ task \in {"running", "waiting", "yielding", "ignoring", "done"}
  /\ future \in {"pending", "done"} \cup Reasons /\ work \in {"pending", "done"}
  /\ {must, last, raising, delayed} \subseteq {"no"} \cup Reasons
  /\ cancelling \in Nat /\ outside \in {"no", "requested", "thrown"} /\ broken \in BOOLEAN
  /\ IsInjective(ready)

\* CancelScope.__exit__(): a cancellation is raised only in its scope, whatever was
\* ignored and delayed before, and never twice delayed.
CancelledInItsScope ==
  /\ raising \in Scopes => Contains(stack, raising)
  /\ delayed \in Scopes => Contains(stack, delayed)
  /\ ~broken

\* A scope withdraws its requests when it is left: the task keeps those of the scopes
\* it is in, and of whoever cancelled the task itself.
RequestsWithdrawn ==
  cancelling = MapThenSumSet(LAMBDA s : scope[s].calls, Scopes) + (IF outside = "no" THEN 0 ELSE 1)

\* A scope that is cancelled is left, also when the delivery was given up for a
\* cancellation that another scope had delayed.
CancelledScopeEnds ==
  \A s \in Scopes : (scope[s].called /\ scope[s].state = "entered") ~> (scope[s].state = "exited")

\* Task.cancel() in backend/abc.py: "This arranges for a
\* ``backend.get_cancelled_exc_class()`` exception to be thrown into the wrapped
\* coroutine", which nobody in the task swallows.
TaskCancelIsThrown == (outside = "requested") ~> (outside = "thrown" \/ task = "done")
=============================================================================
