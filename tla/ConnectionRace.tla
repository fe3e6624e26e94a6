--------------------------- MODULE ConnectionRace ---------------------------
(***************************************************************************)
(* The race of create_stream_connection() in backend/_common/              *)
(* dns_resolver.py: one task tries the addresses one after the other, each *)
(* in a task of its own, the next one when an attempt is over or after the *)
(* delay of happy eyeballs.  The first that connects wins and cancels the  *)
(* rest.  An attempt that was cancelled may still have connected, as it    *)
(* may with trio.                                                          *)
(***************************************************************************)
EXTENDS Integers

CONSTANTS Addresses, NoAddress

ASSUME AddressAssumption == NoAddress \notin Addresses

VARIABLES
  staggered,  \* happy_eyeballs_delay is not infinite
  attempt,    \* per address: "new", "connecting", "connected", "over"
  socket,     \* per address: "none", "open", "closed"
  failed,     \* addresses whose attempt ended with an OSError
  winner,     \* an address or NoAddress; its connection_scope is cancelled then
  main,       \* the task: "starting", "waiting", "joining", "aborting", "returned", "raised"
  current,    \* the address of the last attempt that was started
  thrown      \* what main is cancelled with besides: a "cancel" from outside, a "crash", or "no"

vars == <<staggered, attempt, socket, failed, winner, main, current, thrown>>

Init ==
  /\ staggered \in BOOLEAN
  /\ attempt = [a \in Addresses |-> "new"] /\ socket = [a \in Addresses |-> "none"]
  /\ failed = {} /\ winner = NoAddress
  /\ main = "starting" /\ current = NoAddress /\ thrown = "no"
-----------------------------------------------------------------------------
\* The loop of _staggered_race_connection_impl().

Start(a) ==
  /\ main = "starting" /\ attempt[a] = "new"
  /\ attempt' = [attempt EXCEPT ![a] = "connecting"] /\ socket' = [socket EXCEPT ![a] = "open"]
  /\ main' = "waiting" /\ current' = a
  /\ UNCHANGED <<staggered, failed, winner, thrown>>

\* done is set at the end of an attempt, whatever its end.
FaultDone(a) == attempt[a] = "over" /\ a \notin failed
Done(a) == attempt[a] = "over"

GoesOn ==
  /\ main = "waiting" /\ (Done(current) \/ staggered)
  /\ main' = "starting"
  /\ UNCHANGED <<staggered, attempt, socket, failed, winner, current, thrown>>

EndsLoop ==
  /\ main = "starting" /\ \A a \in Addresses : attempt[a] # "new"
  /\ main' = "joining"
  /\ UNCHANGED <<staggered, attempt, socket, failed, winner, current, thrown>>

\* A cancellation of the scope or from outside, or a task that raised: the task group
\* cancels the attempts.
Aborts ==
  /\ main \in {"waiting", "joining"} /\ (winner # NoAddress \/ thrown # "no")
  /\ main' = "aborting"
  /\ UNCHANGED <<staggered, attempt, socket, failed, winner, current, thrown>>

\* The group is left when every attempt is over: the winner is returned, or closed if
\* an exception goes through.  A cancellation from outside may be lost when it comes
\* together with that of the scope (CancelScope).
FaultClosed(raises) == {}
Closed(raises) == IF raises THEN {winner} ELSE {}

Joins ==
  /\ main \in {"joining", "aborting"} /\ \A a \in Addresses : attempt[a] \in {"new", "over"}
  /\ \E raises \in BOOLEAN :
       /\ raises => thrown # "no"
       /\ thrown = "crash" => raises
       /\ main' = IF raises \/ winner = NoAddress THEN "raised" ELSE "returned"
       /\ socket' = [a \in Addresses |-> IF a \in Closed(raises) THEN "closed" ELSE socket[a]]
  /\ UNCHANGED <<staggered, attempt, failed, winner, current, thrown>>

CancelledFromOutside ==
  /\ main \in {"starting", "waiting", "joining"} /\ thrown = "no"
  /\ thrown' = "cancel"
  /\ UNCHANGED <<staggered, attempt, socket, failed, winner, main, current>>
-----------------------------------------------------------------------------
\* try_connect() and _create_connection_impl().

Connects(a) ==
  /\ attempt[a] = "connecting"
  /\ attempt' = [attempt EXCEPT ![a] = "connected"]
  /\ UNCHANGED <<staggered, socket, failed, winner, main, current, thrown>>

\* The socket is closed by everything but a connection: bind() or connect() fails, the
\* task is cancelled, or something else is raised.
Closes(a) ==
  /\ attempt' = [attempt EXCEPT ![a] = "over"] /\ socket' = [socket EXCEPT ![a] = "closed"]
  /\ UNCHANGED <<staggered, winner, main, current>>

Fails(a) ==
  /\ attempt[a] = "connecting" /\ main # "aborting"
  /\ Closes(a) /\ failed' = failed \cup {a} /\ UNCHANGED thrown

Crashes(a) ==
  /\ attempt[a] = "connecting" /\ main # "aborting"
  /\ Closes(a) /\ thrown' = "crash" /\ UNCHANGED failed

Cancelled(a) ==
  /\ attempt[a] \in {"connecting", "connected"} /\ main = "aborting"
  /\ Closes(a) /\ UNCHANGED <<failed, thrown>>

\* Two attempts may connect at the same time: the second closes its socket.
Wins(a) ==
  /\ attempt[a] = "connected"
  /\ IF winner = NoAddress
     THEN /\ winner' = a /\ attempt' = [attempt EXCEPT ![a] = "over"]
          /\ UNCHANGED <<staggered, socket, main, current>>
     ELSE Closes(a)
  /\ UNCHANGED <<failed, thrown>>
-----------------------------------------------------------------------------
Main == (\E a \in Addresses : Start(a)) \/ GoesOn \/ EndsLoop \/ Aborts \/ Joins
Attempt(a) == Connects(a) \/ Fails(a) \/ Cancelled(a) \/ Wins(a)

Next == Main \/ CancelledFromOutside \/ \E a \in Addresses : Attempt(a) \/ Crashes(a)

\* The tasks run, the delay goes by, and the system ends every connect().
Fairness == WF_vars(Main) /\ \A a \in Addresses : WF_vars(Attempt(a))

Spec == Init /\ [][Next]_vars
FairSpec == Spec /\ Fairness
-----------------------------------------------------------------------------
TypeOK ==
  /\ staggered \in BOOLEAN
  /\ attempt \in [Addresses -> {"new", "connecting", "connected", "over"}]
  /\ socket \in [Addresses -> {"none", "open", "closed"}]
  /\ failed \subseteq Addresses /\ {winner, current} \subseteq Addresses \cup {NoAddress}
  /\ main \in {"starting", "waiting", "joining", "aborting", "returned", "raised"}
  /\ thrown \in {"no", "cancel", "crash"}

\* _staggered_race_connection_impl(): the caller gets the one socket that is open, and
\* none is left behind by attempts that connected together, were cancelled or failed.
\* A race that nobody cancelled is lost only when every address was tried and failed.
OneSocketLeft ==
  /\ main = "returned" => {a \in Addresses : socket[a] = "open"} = {winner} /\ winner # NoAddress
  /\ main = "raised" => \A a \in Addresses : socket[a] # "open"
  /\ main = "raised" /\ thrown = "no" => failed = Addresses

\* Every race ends, also when an attempt fails while the next one waits for it.
RaceEnds == <>(main \in {"returned", "raised"})
=============================================================================
