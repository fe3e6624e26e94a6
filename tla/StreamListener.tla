--------------------------- MODULE StreamListener ---------------------------
(***************************************************************************)
(* The listener of a stream server on an asyncio event loop:               *)
(*   lowlevel/api_async/backend/_asyncio/stream/listener.py                *)
(*                                                                         *)
(* serve() waits for a future while a reader callback accepts the          *)
(* connections; a process without a free descriptor makes the callback     *)
(* give up for a while.  What matters is the order of the callbacks of one *)
(* loop, so its queue is explicit: an iteration (Poll) appends the reader  *)
(* callback of a readable socket and the timers that are due to what was   *)
(* scheduled before, and runs as many callbacks as there are then.  The    *)
(* loop without add_reader() of another system is left out.                *)
(***************************************************************************)
EXTENDS Integers, Sequences, SequencesExt, FiniteSets

CONSTANTS
  Clients,  \* the peers that connect
  Backlog   \* the connections one callback accepts at most

ListenerParameters == Backlog \in Nat \ {0}

VARIABLES
  ready,     \* the callbacks scheduled, in order
  todo,      \* how many of them the current iteration has to run
  reader,    \* listener_ready() is registered
  timer,     \* the handle in delayed_retry_handles: "no", "armed" or "due"
  serving,   \* the task in serve(): "idle", "waiting" or "woken"
  future,    \* the future it waits for: "none", "pending", "cancelled" or "failed"
  closer,    \* aclose(): "no", "yielding" or "done"
  closed,    \* the socket is closed
  freeDescriptors, \* environment: accept() finds a free descriptor
  queue,     \* the connections that the system holds for accept(), in order
  conn       \* each connection: "absent", "queued" by the system, "scheduled" (its
             \* task has not begun), "connecting", "handled", "closed", "dropped"

vars == <<ready, todo, reader, timer, serving, future, closer, closed, freeDescriptors, queue, conn>>

\* A callback is <<what>>, or <<"client", k>> for a step of a client's task.
Cb(what) == <<what>>
Callbacks == {Cb(w) : w \in {"accept", "retry", "done", "serve", "aclose", "cancelled"}} \cup ({"client"} \X Clients)

TypeOK ==
  /\ ready \in Seq(Callbacks) /\ todo \in 0..Len(ready)
  /\ reader \in BOOLEAN /\ timer \in {"no", "armed", "due"}
  /\ serving \in {"idle", "waiting", "woken"} /\ future \in {"none", "pending", "cancelled", "failed"}
  /\ closer \in {"no", "yielding", "done"} /\ closed \in BOOLEAN /\ freeDescriptors \in BOOLEAN
  /\ conn \in [Clients -> {"absent", "queued", "scheduled", "connecting", "handled", "closed", "dropped"}]
  /\ Range(queue) = {k \in Clients : conn[k] = "queued"} /\ IsInjective(queue)
  /\ closed <=> closer = "done"
  /\ future = "pending" => serving = "waiting"
  /\ reader => timer = "no"

Init ==
  /\ ready = <<>> /\ todo = 0 /\ reader = FALSE /\ timer = "no" /\ serving = "idle" /\ future = "none"
  /\ closer = "no" /\ closed = FALSE /\ freeDescriptors = TRUE /\ queue = <<>> /\ conn = [k \in Clients |-> "absent"]

-----------------------------------------------------------------------------
(* The event loop *)

Schedule(cbs) == ready' = ready \o cbs

\* A callback that is cancelled keeps its place, and does nothing in its turn.
Cancelled(cbs, some) == [i \in DOMAIN cbs |-> IF cbs[i] \in some THEN Cb("cancelled") ELSE cbs[i]]

\* An iteration begins.
Polled == (IF reader /\ queue # <<>> THEN <<Cb("accept")>> ELSE <<>>)
          \o (IF timer = "due" THEN <<Cb("retry")>> ELSE <<>>)
Poll ==
  /\ todo = 0 /\ ready \o Polled # <<>>
  /\ ready' = ready \o Polled /\ todo' = Len(ready')
  /\ timer' = IF timer = "due" THEN "armed" ELSE timer
  /\ UNCHANGED <<reader, serving, future, closer, closed, freeDescriptors, queue, conn>>

TimerIsDue ==
  /\ timer = "armed" /\ Cb("retry") \notin Range(ready) /\ timer' = "due"
  /\ UNCHANGED <<ready, todo, reader, serving, future, closer, closed, freeDescriptors, queue, conn>>

\* The first callback of the queue runs, and adds others.
Runs(cb, others) ==
  /\ todo > 0 /\ Head(ready) = cb
  /\ ready' = Tail(ready) \o others /\ todo' = todo - 1

SkipCancelled ==
  /\ Runs(Cb("cancelled"), <<>>)
  /\ UNCHANGED <<reader, timer, serving, future, closer, closed, freeDescriptors, queue, conn>>

-----------------------------------------------------------------------------
(* serve() *)

\* The task calls __infinite_serve(): the reader is added, the future awaited.
Serve ==
  /\ serving = "idle" /\ closer = "no"
  /\ serving' = "waiting" /\ future' = "pending" /\ reader' = TRUE
  /\ UNCHANGED <<ready, todo, timer, closer, closed, freeDescriptors, queue, conn>>

\* The future is done: its callbacks, in the order they were added.
Finished == <<Cb("done"), Cb("serve")>>

\* listener_ready(): connections are accepted until none is left, the backlog of
\* one call is reached, or accept() fails.
Accepted(n) == SubSeq(queue, 1, n)
Starts(ks) == [i \in DOMAIN ks |-> <<"client", ks[i]>>]

\* accept() wants a descriptor: the reader is removed, and added again later.
RetryLater == timer' = "armed"

ListenerReady ==
  \E n \in 0..Len(queue) :
    /\ n <= Backlog
    /\ future # "pending" => n = 0
    /\ n > 0 => freeDescriptors
    /\ queue' = SubSeq(queue, n + 1, Len(queue))
    /\ conn' = [k \in Clients |-> IF k \in Range(Accepted(n)) THEN "scheduled" ELSE conn[k]]
    /\ \/ /\ n = Len(queue) \/ n = Backlog \/ future # "pending"
          /\ Runs(Cb("accept"), Starts(Accepted(n))) /\ timer' = "no"
          /\ UNCHANGED <<reader, future, serving, freeDescriptors>>
       \/ /\ future = "pending" /\ n < Backlog
          /\ freeDescriptors => n > 0 \* the last ones were used
          /\ Runs(Cb("accept"), Starts(Accepted(n))) /\ RetryLater
          /\ reader' = FALSE /\ freeDescriptors' = FALSE
          /\ UNCHANGED <<future, serving>>
       \/ /\ future = "pending" /\ n < Backlog \* an unrelated error
          /\ Runs(Cb("accept"), Starts(Accepted(n)) \o Finished)
          /\ future' = "failed" /\ serving' = "woken" /\ reader' = FALSE /\ timer' = "no"
          /\ UNCHANGED freeDescriptors
    /\ UNCHANGED <<closer, closed>>

\* loop.add_reader(), called by the timer.
AddReaderAgain ==
  /\ Runs(Cb("retry"), <<>>)
  /\ reader' = TRUE /\ timer' = "no"
  /\ UNCHANGED <<serving, future, closer, closed, freeDescriptors, queue, conn>>

\* on_fut_done(): the reader is removed and the retry cancelled.
StopsTimers(cbs) == timer' = "no" /\ ready' = Cancelled(cbs, {Cb("retry")})
OnFutureDone ==
  /\ todo > 0 /\ Head(ready) = Cb("done")
  /\ reader' = FALSE
  /\ StopsTimers(Cancelled(Tail(ready), {Cb("accept")})) /\ todo' = todo - 1
  /\ UNCHANGED <<serving, future, closer, closed, freeDescriptors, queue, conn>>

\* serve() ends with an error: its task group cancels the tasks of the clients.
\* One that has not begun never runs, and nobody closes its socket; the others
\* close it.
ServeEnds ==
  /\ Runs(Cb("serve"), <<>>)
  /\ serving' = "idle" /\ future' = "none"
  /\ conn' = [k \in Clients |-> CASE conn[k] = "scheduled" -> "dropped"
                                  [] conn[k] = "connecting" -> "closed"
                                  [] OTHER -> conn[k]]
  /\ UNCHANGED <<reader, timer, closer, closed, freeDescriptors, queue>>

\* client_connection_task(): the socket gets a transport, at once or later, and
\* goes to the handler, or is closed when that fails.
ClientTask(k) ==
  /\ Runs(<<"client", k>>, <<>>)
  /\ conn' = IF conn[k] = "scheduled" THEN [conn EXCEPT ![k] = "connecting"] ELSE conn
  /\ UNCHANGED <<reader, timer, serving, future, closer, closed, freeDescriptors, queue>>
Connected(k) ==
  /\ conn[k] = "connecting" /\ \E end \in {"handled", "closed"} : conn' = [conn EXCEPT ![k] = end]
  /\ UNCHANGED <<ready, todo, reader, timer, serving, future, closer, closed, freeDescriptors, queue>>

\* The cancellation of the task in serve() cancels the future that it waits for.
CancelServe ==
  /\ IF future = "pending"
     THEN future' = "cancelled" /\ serving' = "woken" ELSE UNCHANGED <<future, serving>>

Stop ==
  /\ future = "pending" /\ CancelServe /\ Schedule(Finished)
  /\ UNCHANGED <<todo, reader, timer, closer, closed, freeDescriptors, queue, conn>>

-----------------------------------------------------------------------------
(* aclose() *)

\* The listener forgets its socket, cancels serve() and yields to the loop once,
\* for the future to be done when the socket is closed.
YieldsFirst == serving # "idle"
Close ==
  /\ closer = "no"
  /\ CancelServe
  /\ closer' = IF YieldsFirst THEN "yielding" ELSE "done"
  /\ closed' = ~YieldsFirst
  /\ Schedule((IF future = "pending" THEN Finished ELSE <<>>) \o (IF YieldsFirst THEN <<Cb("aclose")>> ELSE <<>>))
  /\ UNCHANGED <<todo, reader, timer, freeDescriptors, queue, conn>>

CloseGoesOn ==
  /\ Runs(Cb("aclose"), <<>>)
  /\ closer' = "done" /\ closed' = TRUE
  /\ UNCHANGED <<reader, timer, serving, future, freeDescriptors, queue, conn>>

-----------------------------------------------------------------------------
(* The environment *)

PeerConnects(k) ==
  /\ conn[k] = "absent" /\ ~closed
  /\ conn' = [conn EXCEPT ![k] = "queued"] /\ queue' = Append(queue, k)
  /\ UNCHANGED <<ready, todo, reader, timer, serving, future, closer, closed, freeDescriptors>>
PeerLeaves(k) ==
  /\ conn[k] \in {"queued", "handled", "closed"}
  /\ conn' = [conn EXCEPT ![k] = "absent"] /\ queue' = IF conn[k] = "queued" THEN RemoveFirst(queue, k) ELSE queue
  /\ UNCHANGED <<ready, todo, reader, timer, serving, future, closer, closed, freeDescriptors>>
Descriptors ==
  /\ freeDescriptors' = ~freeDescriptors
  /\ UNCHANGED <<ready, todo, reader, timer, serving, future, closer, closed, queue, conn>>

RunCallback ==
  \/ SkipCancelled \/ ListenerReady \/ AddReaderAgain \/ OnFutureDone \/ ServeEnds \/ CloseGoesOn
  \/ \E k \in Clients : ClientTask(k)

Next ==
  \/ Poll \/ TimerIsDue \/ RunCallback \/ Serve \/ Stop \/ Close \/ Descriptors
  \/ \E k \in Clients : Connected(k) \/ PeerConnects(k) \/ PeerLeaves(k)

\* The loop runs what is scheduled, and time goes on.
Fairness == WF_vars(Poll) /\ WF_vars(TimerIsDue) /\ WF_vars(RunCallback)

Spec == Init /\ [][Next]_vars
FairSpec == Spec /\ Fairness

-----------------------------------------------------------------------------
(* Properties *)

\* Nothing of the event loop is left on a socket when it is closed: no reader, no
\* timer that would add one again, no callback that would accept.
NothingWatchesClosed ==
  closed => ~reader /\ timer = "no" /\ Range(ready) \cap {Cb("accept"), Cb("retry")} = {}

\* A lack of descriptors does not stop the listener for good: once there is one,
\* a connection that the system queued is accepted, unless the peer gives up or
\* serve() ends.
BacklogServed ==
  <>[]freeDescriptors =>
    \A k \in Clients : conn[k] = "queued" /\ serving = "waiting" ~> conn[k] # "queued" \/ serving # "waiting"

\* aclose() ends serve().
CloseEndsServe == closer # "no" ~> serving = "idle" /\ closed
=============================================================================
