---------------------------- MODULE MCTransports ----------------------------
(***************************************************************************)
(* The transports, for TLC: the two sides of a stream socket on asyncio,   *)
(* reading (StreamReaderProtocol, extended) and writing                    *)
(* (WriteFlowControl); the TLS transport over any of them (TLSTransport);  *)
(* the ones on a socket of the event loop (RawTransport); the datagram     *)
(* endpoint (DatagramEndpoint); and a send of several buffers              *)
(* (VectoredSend).  What one does to another is a step of its model, at    *)
(* any moment, so they are run one at a time: the part that is chosen at   *)
(* the beginning is the only one that moves.                               *)
(***************************************************************************)
EXTENDS StreamReaderProtocol

CONSTANTS Tasks, Records, MaxEvents, Lengths, MaxParts, SC_IOV_MAX

VARIABLES
  part,  \* "reading", "writing", "tls", "raw", "datagram" or "vectored"
  writePaused, connLost, waiters, future, pc, closing, outbox, scheduled, flushed, sendOutcome,
  peer, incoming, tlsLost, readBio, tlsEof, written, unsent, sending, toWrite, phase, waiting, transport, tlsPc,
  sendq, recvq, overtaken,
  rawPc, thrown, woken, watched, taken, descriptor, cut, ready,
  endpointClosing, endpointLost, fatal, recvQueue, excQueue, receiver, recvOutcome, closer, arrived, given,
  parts, buffers, wire, call

Writing == INSTANCE WriteFlowControl WITH outcome <- sendOutcome
TLS == INSTANCE TLSTransport WITH lost <- tlsLost, eof <- tlsEof, pc <- tlsPc
Raw == INSTANCE RawTransport WITH pc <- rawPc
Endpoint == INSTANCE DatagramEndpoint WITH closing <- endpointClosing, lost <- endpointLost, outcome <- recvOutcome
Vectored == INSTANCE VectoredSend

ASSUME VectoredAssumption == Vectored!VectoredParameters
ASSUME TLSAssumption == TLS!TLSParameters
ASSUME EndpointAssumption == Endpoint!EndpointParameters

writingVars == <<writePaused, connLost, waiters, future, pc, closing, outbox, scheduled, flushed, sendOutcome>>
tlsVars ==
  <<peer, incoming, tlsLost, readBio, tlsEof, written, unsent, sending, toWrite, phase, waiting, transport, tlsPc,
    sendq, recvq, overtaken>>
rawVars == <<rawPc, thrown, woken, watched, taken, descriptor, cut, ready>>
endpointVars ==
  <<endpointClosing, endpointLost, fatal, recvQueue, excQueue, receiver, recvOutcome, closer, arrived, given>>
vectoredVars == <<parts, buffers, wire, call>>

\* A part that does not move has one initial state.
TransportsInit ==
  /\ part \in {"reading", "writing", "tls", "raw", "datagram", "vectored"}
  /\ IF part = "reading" THEN TRUE ELSE request = CHOOSE r \in Requests : TRUE
  /\ IF part = "tls" THEN TRUE ELSE peer = <<"bad">>
  /\ IF part = "vectored" THEN TRUE ELSE parts = <<>>
  /\ Init /\ Writing!Init /\ TLS!Init /\ Raw!Init /\ Endpoint!Init /\ Vectored!Init
TransportsNext ==
  /\ UNCHANGED part
  /\ \/ part = "reading" /\ Next /\ UNCHANGED <<writingVars, tlsVars, rawVars, endpointVars, vectoredVars>>
     \/ part = "writing" /\ Writing!Next /\ UNCHANGED <<vars, tlsVars, rawVars, endpointVars, vectoredVars>>
     \/ part = "tls" /\ TLS!Next /\ UNCHANGED <<vars, writingVars, rawVars, endpointVars, vectoredVars>>
     \/ part = "raw" /\ Raw!Next /\ UNCHANGED <<vars, writingVars, tlsVars, endpointVars, vectoredVars>>
     \/ part = "datagram" /\ Endpoint!Next /\ UNCHANGED <<vars, writingVars, tlsVars, rawVars, vectoredVars>>
     \/ part = "vectored" /\ Vectored!Next /\ UNCHANGED <<vars, writingVars, tlsVars, rawVars, endpointVars>>

\* The fairness of a part that does not move holds: nothing it names is enabled, or it
\* asks for the choice of that part.
TransportsSpec ==
  /\ TransportsInit
  /\ [][TransportsNext]_<<part, vars, writingVars, tlsVars, rawVars, endpointVars, vectoredVars>>
  /\ WF_vars(part = "reading" /\ ReaderGoesOn) /\ WF_vars(part = "reading" /\ ReadsAgain)
  /\ Writing!Fairness /\ Raw!Fairness /\ Endpoint!Fairness
  /\ \A t \in TLS!Callers : WF_tlsVars(part = "tls" /\ TLS!Retry(t))
  /\ WF_tlsVars(TLS!CloseTransport) /\ WF_tlsVars(TLS!ShutdownTimeout)
  /\ WF_tlsVars(part = "tls" /\ TLS!PeerSends) /\ WF_tlsVars(peer = <<>> /\ TLS!PeerReads)
  /\ WF_vectoredVars(part = "vectored" /\ Vectored!Begin)
  /\ SF_vectoredVars(Vectored!SendMsg) /\ WF_vectoredVars(Vectored!Writable)

\* Types of the parts, with how futures and queues follow the tasks.
TransportsTypeOK == TypeOK /\ Writing!TypeOK /\ TLS!TypeOK /\ Raw!TypeOK /\ Endpoint!TypeOK

\* A task waits only for a protocol that will wake it, and the transport never gets
\* an empty buffer to write in.
NobodyIsForgotten == NoMissedWakeup /\ WritableBuffer /\ Writing!NobodyForgotten

\* A send returns without an error only when the socket took its data, in order and
\* once.
SentIsFlushed == Writing!SentIsFlushed /\ TLS!SentIsGone /\ Vectored!PartsIntact

\* A socket is closed after it is out of the selector.
NoneWatchedClosed == Raw!NoneWatchedClosed

\* What is received reaches its reader in the order it came: the bytes of a stream, the
\* datagrams and errors of an endpoint.
ReceivedInOrder == StreamIntact /\ Endpoint!EventsInOrder

\* Whoever waits for a transport gets an answer: a reader, a sender, a task that closes
\* those that another one's close lets go.
EveryoneIsAnswered ==
  /\ EndReachesReader /\ Writing!EverySendEnds
  /\ TLS!CloseReleasesEveryone /\ Raw!CloseLetsGo /\ Endpoint!CloseLetsGo /\ Vectored!SendEnds
=============================================================================
