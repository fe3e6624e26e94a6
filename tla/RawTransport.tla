----------------------------- MODULE RawTransport -----------------------------
(***************************************************************************)
(* BaseRawSocketTransport of _asyncio/_base_raw_transport.py, under the    *)
(* Unix sockets of stream/socket.py and datagram/socket.py: one task that  *)
(* receives, one that sends or sends EOF, and one in aclose().  A second   *)
(* aclose() returns at once.  ready is the queue of the event loop: the    *)
(* done callback of a future, which takes the descriptor off the selector, *)
(* is queued before the step of the task that waits for it.                *)
(***************************************************************************)
EXTENDS Sequences, SequencesExt

VARIABLES
  pc,          \* per task: "idle", "waiting" for its future, "yielding" or, the closer, "draining"
               \* and "drained" when the sender it waits for has left
  thrown,      \* the tasks whose next step raises CancelledError
  woken,       \* the tasks whose future is done, or that have yielded
  watched,     \* the tasks whose reader or writer is in the selector
  taken,       \* __socket is None
  descriptor,  \* "open" or "closed"
  cut,         \* history: where aclose() was cancelled, "no" or its pc then
  ready

vars == <<pc, thrown, woken, watched, taken, descriptor, cut, ready>>

Callers == {"receiver", "sender", "closer"}
Init ==
  /\ pc = [t \in Callers |-> "idle"] /\ thrown = {} /\ woken = {} /\ watched = {}
  /\ taken = FALSE /\ descriptor = "open" /\ cut = "no" /\ ready = <<>>

Step(t) == [run |-> "step", of |-> t]
Unwatch(t) == [run |-> "unwatch", of |-> t]
\* What is queued when the future of t is done.
DoneOf(t) == IF pc[t] = "waiting" THEN <<Unwatch(t), Step(t)>> ELSE <<Step(t)>>

\* asyncio.Task.cancel(), by a scope or by anybody.
Cancel(t, q) ==
  /\ thrown' = thrown \cup {t} /\ woken' = woken \cup {t}
  /\ ready' = IF t \in woken THEN q ELSE q \o DoneOf(t)

Leaves(t, p) == pc' = [p EXCEPT ![t] = "idle"] /\ thrown' = thrown \ {t} /\ woken' = woken \ {t}
-----------------------------------------------------------------------------
\* _sock_recv(), _sock_send() and _sock_send_all() wait until the socket is ready;
\* send_eof() only yields, and takes a transport that is closed.

Wait(t) ==
  /\ t # "closer" /\ pc[t] = "idle" /\ ~taken
  /\ pc' = [pc EXCEPT ![t] = "waiting"] /\ watched' = watched \cup {t}
  /\ UNCHANGED <<thrown, woken, taken, descriptor, cut, ready>>

SendEof ==
  /\ pc["sender"] = "idle"
  /\ pc' = [pc EXCEPT !["sender"] = "yielding"] /\ woken' = woken \cup {"sender"}
  /\ ready' = Append(ready, Step("sender"))
  /\ UNCHANGED <<thrown, watched, taken, descriptor, cut>>

\* The selector calls _wakeup_future(): never for a descriptor that is closed.
SocketIsReady(t) ==
  /\ t \in watched /\ t \notin woken /\ descriptor = "open"
  /\ woken' = woken \cup {t} /\ ready' = ready \o DoneOf(t)
  /\ UNCHANGED <<pc, thrown, watched, taken, descriptor, cut>>

CancelTask(t) ==
  /\ pc[t] # "idle" /\ t \notin thrown
  /\ Cancel(t, ready)
  /\ UNCHANGED <<pc, watched, taken, descriptor, cut>>
-----------------------------------------------------------------------------
\* aclose(): the receiver is cancelled and gets a turn, the sender is waited for.

FaultYieldsToReceiver == FALSE
YieldsToReceiver == pc["receiver"] # "idle"

\* The rest of aclose() in a step of the closer, on the queue q.
WaitForSender(q) ==
  /\ ready' = q
  /\ IF pc["sender"] # "idle"
     THEN /\ pc' = [pc EXCEPT !["closer"] = "draining"]
          /\ thrown' = thrown \ {"closer"} /\ woken' = woken \ {"closer"} /\ descriptor' = descriptor
     ELSE Leaves("closer", pc) /\ descriptor' = "closed"

Close ==
  /\ pc["closer"] = "idle" /\ ~taken
  /\ taken' = TRUE
  /\ IF YieldsToReceiver
     THEN /\ pc' = [pc EXCEPT !["closer"] = "yielding"]
          /\ thrown' = thrown \cup {"receiver"} /\ woken' = woken \cup {"receiver", "closer"}
          /\ ready' = (IF "receiver" \in woken THEN ready ELSE ready \o DoneOf("receiver")) \o <<Step("closer")>>
          /\ descriptor' = descriptor
     ELSE WaitForSender(ready)
  /\ UNCHANGED <<watched, cut>>

\* A close by force leaves the sender alone, unless it was waiting for it.
CancelsSender == pc["closer"] = "draining"

CloserSteps(q) ==
  IF "closer" \in thrown
  THEN /\ descriptor' = "closed" /\ cut' = pc["closer"] /\ pc' = [pc EXCEPT !["closer"] = "idle"]
       /\ IF CancelsSender
          THEN /\ thrown' = (thrown \cup {"sender"}) \ {"closer"}
               /\ woken' = (woken \cup {"sender"}) \ {"closer"}
               /\ ready' = IF "sender" \in woken THEN q ELSE q \o DoneOf("sender")
          ELSE thrown' = thrown \ {"closer"} /\ woken' = woken \ {"closer"} /\ ready' = q
  ELSE /\ cut' = cut
       /\ IF pc["closer"] = "yielding" THEN WaitForSender(q)
          ELSE Leaves("closer", pc) /\ descriptor' = "closed" /\ ready' = q
-----------------------------------------------------------------------------
\* The event loop.  A sender that leaves sets the future aclose() waits for.

WakesCloser(t) == t = "sender" /\ pc["closer"] = "draining"

TaskSteps(t, q) ==
  \/ /\ t \notin thrown /\ pc[t] = "waiting" /\ descriptor = "open"  \* it would block again
     /\ woken' = woken \ {t} /\ watched' = watched \cup {t} /\ ready' = q
     /\ UNCHANGED <<pc, thrown>>
  \/ /\ pc' = [pc EXCEPT ![t] = "idle", !["closer"] = IF WakesCloser(t) THEN "drained" ELSE pc["closer"]]
     /\ thrown' = thrown \ {t} /\ watched' = watched
     /\ IF WakesCloser(t) /\ "closer" \notin woken
        THEN woken' = (woken \ {t}) \cup {"closer"} /\ ready' = Append(q, Step("closer"))
        ELSE woken' = woken \ {t} /\ ready' = q

LoopRuns ==
  /\ ready # <<>>
  /\ LET next == Head(ready) q == Tail(ready) IN
     \/ /\ next.run = "unwatch"
        /\ watched' = watched \ {next.of} /\ ready' = q
        /\ UNCHANGED <<pc, thrown, woken, descriptor, cut>>
     \/ next = Step("closer") /\ CloserSteps(q) /\ UNCHANGED watched
     \/ next.run = "step" /\ next.of # "closer" /\ TaskSteps(next.of, q) /\ UNCHANGED <<descriptor, cut>>
  /\ UNCHANGED taken

Next ==
  \/ \E t \in Callers : Wait(t) \/ SocketIsReady(t) \/ CancelTask(t)
  \/ SendEof \/ Close \/ LoopRuns

\* The event loop runs its callbacks; a peer need not read or write.
Fairness == WF_vars(LoopRuns)

Spec == Init /\ [][Next]_vars
FairSpec == Spec /\ Fairness
-----------------------------------------------------------------------------
TypeOK ==
  /\ pc \in [Callers -> {"idle", "waiting", "yielding", "draining", "drained"}]
  /\ thrown \subseteq woken /\ woken \subseteq {t \in Callers : pc[t] # "idle"} /\ watched \subseteq Callers \ {"closer"}
  /\ taken \in BOOLEAN /\ descriptor \in {"open", "closed"} /\ cut \in {"no", "yielding", "draining", "drained"}
  /\ \A t \in Callers : (t \in woken) <=> (\E i \in 1..Len(ready) : ready[i] = Step(t))

\* aclose() takes the descriptor of the receiver off the selector before it closes it,
\* whose number may be that of another socket next; the writer is left there only by
\* a close that was cancelled.
NoneWatchedClosed == descriptor = "closed" => watched = {} \/ (watched = {"sender"} /\ cut # "no")

\* Once aclose() has the socket, the receiver and the closer are let go; so is the
\* sender when the socket is closed, unless aclose() was cancelled while it yielded
\* to the receiver.
CloseLetsGo ==
  /\ taken ~> pc["receiver"] = "idle"
  /\ (descriptor = "closed" /\ cut # "yielding") ~> pc["sender"] = "idle"

\* "If aclose() is cancelled, the transport is closed abruptly": nobody goes on to
\* wait for it.
AbruptCloseLetsGo == descriptor = "closed" ~> pc["sender"] = "idle"
=============================================================================
