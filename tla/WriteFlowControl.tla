---------------------------- MODULE WriteFlowControl ----------------------------
(***************************************************************************)
(* The writing side of the asyncio transports:                             *)
(*   src/easynetwork/lowlevel/api_async/backend/_asyncio/_flow_control.py  *)
(* with send_all() of _asyncio/stream/socket.py, whose two halves are the  *)
(* write() of the transport and the drain() of the flow control.           *)
(*                                                                         *)
(* The transport is asyncio's, as the source uses it: its buffer limit is  *)
(* 0, so writing is paused while the transport holds data; once closed it  *)
(* sends what it holds, then schedules connection_lost(); a fatal error    *)
(* throws away what it holds; and what is written after that is ignored.   *)
(* Callbacks of the event loop run in the order they were scheduled.       *)
(***************************************************************************)
EXTENDS Naturals, Sequences, SequencesExt

CONSTANT Tasks

VARIABLES
  writePaused,  \* __write_paused
  connLost,     \* __connection_lost
  waiters,      \* __drain_waiters: tasks, in the order of their futures
  future,       \* of each task: "none", "pending", "done", "failed", "cancelled"
  pc,           \* "idle", "yielding", "behind" (a scheduled call), "waiting"
  closing,      \* is_closing() of the transport
  outbox,       \* the transport's buffer: the task of each chunk
  scheduled,    \* connection_lost() is in the queue of the event loop
  flushed,      \* history: of each task, its chunk reached the socket
  outcome       \* history: of each task, how its send_all() ended

flow == <<writePaused, connLost, waiters, future>>
transport == <<closing, outbox, scheduled, flushed>>
vars == <<flow, pc, transport, outcome>>

Init ==
  /\ writePaused = FALSE /\ connLost = FALSE /\ waiters = <<>>
  /\ future = [t \in Tasks |-> "none"]
  /\ pc = [t \in Tasks |-> "idle"]
  /\ closing = FALSE /\ outbox = <<>> /\ scheduled = FALSE
  /\ flushed = [t \in Tasks |-> FALSE]
  /\ outcome = [t \in Tasks |-> "none"]

\* Sets the future of every waiter that is still pending.
Completed(result) ==
  [t \in Tasks |-> IF future[t] = "pending" /\ Contains(waiters, t) THEN result ELSE future[t]]

Ends(t, result) == outcome' = [outcome EXCEPT ![t] = result] /\ pc' = [pc EXCEPT ![t] = "idle"]

-----------------------------------------------------------------------------
(* The task. *)

\* transport.write(): ignored once connection_lost() is scheduled; else it
\* sends what the socket takes at once, or fails, or keeps the chunk and calls
\* pause_writing().  Bound: a task has one chunk in the transport at a time.
TransportWrite(t) ==
  /\ ~Contains(outbox, t)
  /\ \/ /\ scheduled \/ connLost
        /\ flushed' = [flushed EXCEPT ![t] = FALSE]
        /\ UNCHANGED <<writePaused, closing, outbox, scheduled>>
     \/ /\ ~scheduled /\ ~connLost /\ outbox = <<>>
        /\ flushed' = [flushed EXCEPT ![t] = TRUE]
        /\ UNCHANGED <<writePaused, closing, outbox, scheduled>>
     \/ /\ ~scheduled /\ ~connLost /\ outbox = <<>>
        /\ flushed' = [flushed EXCEPT ![t] = FALSE]
        /\ closing' = TRUE /\ scheduled' = TRUE
        /\ UNCHANGED <<writePaused, outbox>>
     \/ /\ ~scheduled /\ ~connLost
        /\ flushed' = [flushed EXCEPT ![t] = FALSE]
        /\ outbox' = Append(outbox, t)
        /\ writePaused' = TRUE
        /\ UNCHANGED <<closing, scheduled>>

\* drain() from its test on __connection_lost, in the state it is called in.
DrainRest(t) ==
  \/ /\ connLost
     /\ Ends(t, "error")
     /\ UNCHANGED <<waiters, future>>
  \/ /\ ~connLost /\ ~writePaused'
     /\ Ends(t, "sent")
     /\ UNCHANGED <<waiters, future>>
  \/ /\ ~connLost /\ writePaused'
     /\ waiters' = Append(waiters, t)
     /\ future' = [future EXCEPT ![t] = "pending"]
     /\ pc' = [pc EXCEPT ![t] = "waiting"]
     /\ outcome' = [outcome EXCEPT ![t] = "none"]

\* The test of drain() that gives connection_lost() the time to be called: the
\* task runs again behind the call that is already scheduled.
FaultMustYield == FALSE
MustYield == closing'
SendAll(t) ==
  /\ pc[t] = "idle"
  /\ TransportWrite(t)
  /\ IF MustYield
       THEN /\ pc' = [pc EXCEPT ![t] = IF scheduled' THEN "behind" ELSE "yielding"]
            /\ outcome' = [outcome EXCEPT ![t] = "none"]
            /\ UNCHANGED <<waiters, future>>
       ELSE DrainRest(t)
  /\ UNCHANGED connLost

AfterYield(t) ==
  /\ pc[t] = "yielding" \/ (pc[t] = "behind" /\ ~scheduled)
  /\ UNCHANGED <<writePaused, connLost, transport>>
  /\ DrainRest(t)

Done == {"done", "failed", "cancelled"}

\* The done callback of a future, added before the one that wakes the task up.
Forgotten(t) == RemoveFirst(waiters, t)
Forget(t) ==
  /\ future[t] \in Done /\ Contains(waiters, t)
  /\ waiters' = Forgotten(t)
  /\ UNCHANGED <<writePaused, connLost, future, pc, transport, outcome>>

Resume(t) ==
  /\ future[t] \in Done /\ ~Contains(waiters, t)
  /\ Ends(t, CASE future[t] = "done" -> "sent" [] future[t] = "failed" -> "error" [] OTHER -> "cancelled")
  /\ future' = [future EXCEPT ![t] = "none"]
  /\ UNCHANGED <<writePaused, connLost, waiters, transport>>

\* A cancellation reaches a task that waits, or that yields; one that comes
\* after the future was completed replaces its result.
Cancel(t) ==
  /\ UNCHANGED <<writePaused, connLost, waiters, transport>>
  /\ \/ /\ pc[t] = "waiting" /\ future[t] # "cancelled"
        /\ future' = [future EXCEPT ![t] = "cancelled"]
        /\ UNCHANGED <<pc, outcome>>
     \/ /\ pc[t] \in {"yielding", "behind"}
        /\ Ends(t, "cancelled")
        /\ UNCHANGED future

-----------------------------------------------------------------------------
(* The callbacks, and the transport that calls them. *)

\* The socket takes the oldest chunk; the last one resumes the writing, and
\* lets a closed transport schedule connection_lost().
Resumed == Completed("done")
Flush ==
  /\ outbox # <<>>
  /\ outbox' = Tail(outbox)
  /\ flushed' = [flushed EXCEPT ![Head(outbox)] = TRUE]
  /\ IF Len(outbox) = 1
       THEN writePaused' = FALSE /\ future' = Resumed /\ scheduled' = closing
       ELSE UNCHANGED <<writePaused, future, scheduled>>
  /\ UNCHANGED <<connLost, waiters, pc, closing, outcome>>

Close ==
  /\ ~closing
  /\ closing' = TRUE
  /\ scheduled' = (outbox = <<>>)
  /\ UNCHANGED <<flow, pc, outbox, flushed, outcome>>

FatalError ==
  /\ ~scheduled /\ ~connLost
  /\ closing' = TRUE /\ scheduled' = TRUE /\ outbox' = <<>>
  /\ UNCHANGED <<flow, pc, flushed, outcome>>

Failed == Completed("failed")
ConnectionLost ==
  /\ scheduled
  /\ scheduled' = FALSE
  /\ connLost' = TRUE
  /\ writePaused' = FALSE
  /\ future' = Failed
  /\ UNCHANGED <<waiters, pc, closing, outbox, flushed, outcome>>

Next ==
  \/ \E t \in Tasks : SendAll(t) \/ AfterYield(t) \/ Forget(t) \/ Resume(t) \/ Cancel(t)
  \/ Flush \/ Close \/ FatalError \/ ConnectionLost

Spec == Init /\ [][Next]_vars

\* The event loop runs what is scheduled, and a peer that reads empties the
\* buffer of the transport: a peer that never does may block send_all().
Fairness ==
  /\ \A t \in Tasks : WF_vars(AfterYield(t)) /\ WF_vars(Forget(t)) /\ WF_vars(Resume(t))
  /\ WF_vars(ConnectionLost) /\ WF_vars(Flush)
FairSpec == Spec /\ Fairness

-----------------------------------------------------------------------------
(* Properties. *)

\* Types, and what the waiters are: the tasks whose future is pending, with
\* some whose future is done and whose done callback has not run.
TypeOK ==
  /\ {writePaused, connLost, closing, scheduled} \subseteq BOOLEAN
  /\ waiters \in Seq(Tasks) /\ IsInjective(waiters)
  /\ outbox \in Seq(Tasks)
  /\ future \in [Tasks -> {"none", "pending"} \cup Done]
  /\ pc \in [Tasks -> {"idle", "yielding", "behind", "waiting"}]
  /\ flushed \in [Tasks -> BOOLEAN]
  /\ outcome \in [Tasks -> {"none", "sent", "error", "cancelled"}]
  /\ \A t \in Tasks : /\ future[t] # "none" <=> pc[t] = "waiting"
                      /\ future[t] = "pending" => Contains(waiters, t)
                      /\ Contains(waiters, t) => pc[t] = "waiting"

\* send_all() returns without an error only when the socket took the data: not
\* when the write failed at once, nor when the connection was lost meanwhile.
SentIsFlushed == \A t \in Tasks : outcome[t] = "sent" => flushed[t]

\* No lost wake-up: a task waits only for a transport that holds data and will
\* resume the writing, or that is about to report the loss of the connection.
NobodyForgotten ==
  \A t \in Tasks : future[t] = "pending" => writePaused /\ (outbox # <<>> \/ scheduled)

\* A task that waits for the transport gets an answer, whatever the other tasks
\* do and whatever happens to the connection, unless sends are cancelled: other
\* tasks that send and give up can keep the transport busy for ever.
EverySendEnds ==
  \A t \in Tasks : pc[t] # "idle" ~> (pc[t] = "idle" \/ \E u \in Tasks : outcome[u] = "cancelled")
=============================================================================
