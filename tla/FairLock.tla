------------------------------- MODULE FairLock -------------------------------
(***************************************************************************)
(* The lock built on events, for a backend without a fair lock of its own. *)
(*   src/easynetwork/lowlevel/api_async/backend/_common/fair_lock.py       *)
(*                                                                         *)
(* A task runs without interruption between two awaits, and the only await *)
(* of the lock is that of a waiter's event.  The task whose event is set   *)
(* runs later; a cancellation may reach it before or after that.           *)
(***************************************************************************)
EXTENDS Naturals, Sequences, SequencesExt

CONSTANT Tasks

VARIABLES
  locked,   \* _locked
  waiters,  \* _waiters: the event of a task is named by the task
  pc        \* "idle", "waiting", "woken", "cancelled" (in acquire()), "holding"

vars == <<locked, waiters, pc>>

Init ==
  /\ locked = FALSE
  /\ waiters = <<>>
  /\ pc = [t \in Tasks |-> "idle"]

\* _wake_up_first() with waiters q, seen by the tasks in the places p.  To set
\* the event of a task that is being cancelled changes nothing.
FaultWokenFirst(q, p) == [t \in Tasks |-> IF p[t] = "waiting" /\ Contains(q, t) THEN "woken" ELSE p[t]]
WokenFirst(q, p) ==
  [t \in Tasks |-> IF q # <<>> /\ t = Head(q) /\ p[t] = "waiting" THEN "woken" ELSE p[t]]

\* The test that sends acquire() to the queue.
FaultMustWait == locked
MustWait == locked \/ waiters # <<>>

Acquire(t) ==
  /\ pc[t] = "idle"
  /\ \/ /\ ~MustWait
        /\ locked' = TRUE
        /\ pc' = [pc EXCEPT ![t] = "holding"]
        /\ UNCHANGED waiters
     \/ /\ MustWait
        /\ waiters' = Append(waiters, t)
        /\ pc' = [pc EXCEPT ![t] = "waiting"]
        /\ UNCHANGED locked

\* The finally clause around the wait.
FaultDequeued(t) == waiters
Dequeued(t) == RemoveFirst(waiters, t)

\* The awaited event is set: acquire() goes on.
Resume(t) ==
  /\ pc[t] = "woken"
  /\ waiters' = Dequeued(t)
  /\ locked' = TRUE
  /\ pc' = [pc EXCEPT ![t] = "holding"]

\* A cancellation reaches a task that awaits its event.
Cancel(t) ==
  /\ pc[t] \in {"waiting", "woken"}
  /\ pc' = [pc EXCEPT ![t] = "cancelled"]
  /\ UNCHANGED <<locked, waiters>>

\* Whether the exception handler of acquire() passes the wake-up on.
FaultPassesOn == FALSE
PassesOn == ~locked

Unwind(t) ==
  /\ pc[t] = "cancelled"
  /\ waiters' = Dequeued(t)
  /\ LET p == [pc EXCEPT ![t] = "idle"] IN pc' = IF PassesOn THEN WokenFirst(waiters', p) ELSE p
  /\ UNCHANGED locked

Release(t) ==
  /\ pc[t] = "holding"
  /\ locked' = FALSE
  /\ pc' = WokenFirst(waiters, [pc EXCEPT ![t] = "idle"])
  /\ UNCHANGED waiters

Next == \E t \in Tasks : Acquire(t) \/ Resume(t) \/ Cancel(t) \/ Unwind(t) \/ Release(t)

Spec == Init /\ [][Next]_vars

\* The loop runs every woken or cancelled task, and holders release.
Fairness == \A t \in Tasks : WF_vars(Resume(t)) /\ WF_vars(Unwind(t)) /\ WF_vars(Release(t))
FairSpec == Spec /\ Fairness

-----------------------------------------------------------------------------
(* Properties *)

\* Types; the queue holds the tasks that are in acquire(), once each.
TypeOK ==
  /\ locked \in BOOLEAN
  /\ waiters \in Seq(Tasks)
  /\ pc \in [Tasks -> {"idle", "waiting", "woken", "cancelled", "holding"}]
  /\ IsInjective(waiters)
  /\ ToSet(waiters) = {t \in Tasks : pc[t] \in {"waiting", "woken", "cancelled"}}

\* The lock has one holder, and _locked says whether it has one: a woken task
\* that has not run yet is not overtaken by one that finds the lock unlocked.
MutualExclusion ==
  /\ \A t, u \in Tasks : pc[t] = "holding" /\ pc[u] = "holding" => t = u
  /\ locked <=> \E t \in Tasks : pc[t] = "holding"

\* An unlocked lock with waiters has a first waiter about to take it or to pass
\* its wake-up on: a wake-up is not lost with the task that was cancelled.
NoLostWakeup == ~locked /\ waiters # <<>> => pc[Head(waiters)] \in {"woken", "cancelled"}

\* Whoever waits gets the lock, or gives up.
EveryWaiterServed == \A t \in Tasks : pc[t] = "waiting" ~> pc[t] \in {"holding", "idle"}

Before(q, u, t) == \E i, j \in DOMAIN q : i < j /\ q[i] = u /\ q[j] = t
Holders == {t \in Tasks : pc[t] = "holding"}
InLine == {t \in ToSet(waiters) : pc[t] # "cancelled"}
Line == [t \in InLine |-> {u \in InLine : Before(waiters, u, t)}]

Mutex == INSTANCE FairMutex WITH holders <- Holders, line <- Line

\* The lock is a fair mutex: no task overtakes one that asked before it, even
\* when tasks in front of it are cancelled before or after they are woken.
ImplementsFairMutex == Mutex!Spec
=============================================================================
