---------------------------- MODULE MCConnections ----------------------------
(***************************************************************************)
(* How a connection is made, and how threads share one, for TLC: the race  *)
(* of attempts behind create_tcp_connection() (ConnectionRace, extended),  *)
(* a blocking TCP client (SyncClient) and a blocking UDP client            *)
(* (DatagramClient).  They share no state, so they are run one at a time:  *)
(* the part that is chosen at the beginning is the only one that moves.    *)
(***************************************************************************)
EXTENDS ConnectionRace, TimedCalls

CONSTANTS Packets, Datagrams

ASSUME PeerAssumption == Packets \in Nat /\ Datagrams \in Nat

VARIABLES
  part,  \* "race", "threads" or "datagrams"
  arrived, inbox, eof, room, clientSocket, eofSent, consumer, seen,
  datagrams, queue, writable, udpSocket, given

Blocking == INSTANCE SyncClient WITH socket <- clientSocket
Udp == INSTANCE DatagramClient WITH arrived <- datagrams, room <- writable, socket <- udpSocket

\* What both blocking clients use (TimedCalls, extended).
callVars == <<retry, locks, call>>
tcpVars == <<arrived, inbox, eof, room, clientSocket, eofSent, consumer, seen>>
udpVars == <<datagrams, queue, writable, udpSocket, given>>

ConnectionsInit ==
  /\ part \in {"race", "threads", "datagrams"} /\ Init /\ Blocking!Init /\ Udp!Init
  /\ part = "race" => retry = Inf
  /\ part # "race" => staggered
ConnectionsNext ==
  /\ UNCHANGED part
  /\ \/ part = "race" /\ Next /\ UNCHANGED <<callVars, tcpVars, udpVars>>
     \/ part = "threads" /\ Blocking!Next /\ UNCHANGED <<vars, udpVars>>
     \/ part = "datagrams" /\ Udp!Next /\ UNCHANGED <<vars, tcpVars>>

\* The fairness of the part that moves.
ConnectionsSpec ==
  /\ ConnectionsInit /\ [][ConnectionsNext]_<<part, vars, callVars, tcpVars, udpVars>>
  /\ WF_vars(part = "race" /\ Main) /\ \A a \in Addresses : WF_vars(Attempt(a))
  /\ \A t \in Threads :
       /\ WF_<<callVars, tcpVars>>(part = "threads" /\ Blocking!Runs(t))
       /\ WF_<<callVars, udpVars>>(part = "datagrams" /\ Udp!Runs(t))
  /\ WF_callVars(part = "threads" /\ Blocking!Tick)
  /\ SF_callVars(part = "datagrams" /\ Udp!Tick)

\* Types of all parts.
ConnectionsTypeOK == TypeOK /\ Blocking!TypeOK /\ Udp!TypeOK

\* Nothing is lost by the timeouts and the threads of a blocking client, neither bytes
\* of the stream nor datagrams.
NothingLost == Blocking!NothingLost /\ Udp!NothingLost

\* The race ends, and a close lets go the threads that use the client.
EverybodyIsLetGo == (part = "race" => RaceEnds) /\ Blocking!CloseLetsGo /\ (part = "datagrams" => Udp!CloseLetsGo)
=============================================================================
