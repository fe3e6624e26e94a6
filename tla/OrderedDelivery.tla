--------------------------- MODULE OrderedDelivery ---------------------------
(***************************************************************************)
(* What a datagram server promises the author of a request handler: the    *)
(* datagrams of a client are given in the order they arrived, each to one  *)
(* generator, a client has one generator at a time, and a generator exists *)
(* only from a datagram it was given.  A stopped server may skip datagrams *)
(* but gives none twice and none out of order.                             *)
(*   src/easynetwork/lowlevel/api_async/servers/datagram.py (serve())      *)
(*                                                                         *)
(* The datagrams of a client are named by their rank of arrival.           *)
(***************************************************************************)
EXTENDS Naturals, Sequences

CONSTANT Clients

VARIABLES
  received,    \* number of datagrams that arrived from each client
  given,       \* the datagrams given to the generators of each client
  generators,  \* number of live generators of each client
  stopped      \* the server was cancelled

vars == <<received, given, generators, stopped>>

Init ==
  /\ received = [a \in Clients |-> 0]
  /\ given = [a \in Clients |-> <<>>]
  /\ generators = [a \in Clients |-> 0]
  /\ stopped = FALSE

Arrive(a) ==
  /\ ~stopped
  /\ received' = [received EXCEPT ![a] = @ + 1]
  /\ UNCHANGED <<given, generators, stopped>>

LastGiven(a) == IF given[a] = <<>> THEN 0 ELSE given[a][Len(given[a])]

Give(a) ==
  \E d \in (LastGiven(a) + 1)..received[a] :
    /\ ~stopped => d = LastGiven(a) + 1
    /\ given' = [given EXCEPT ![a] = Append(@, d)]

Start(a) ==
  /\ generators[a] = 0
  /\ Give(a)
  /\ generators' = [generators EXCEPT ![a] = 1]
  /\ UNCHANGED <<received, stopped>>

Continue(a) ==
  /\ generators[a] = 1
  /\ Give(a)
  /\ UNCHANGED <<received, generators, stopped>>

Finish(a) ==
  /\ generators[a] = 1
  /\ generators' = [generators EXCEPT ![a] = 0]
  /\ UNCHANGED <<received, given, stopped>>

Stop ==
  /\ ~stopped
  /\ stopped' = TRUE
  /\ UNCHANGED <<received, given, generators>>

Next == Stop \/ \E a \in Clients : Arrive(a) \/ Start(a) \/ Continue(a) \/ Finish(a)

Spec == Init /\ [][Next]_vars
=============================================================================
