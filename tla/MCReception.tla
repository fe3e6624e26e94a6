----------------------------- MODULE MCReception -----------------------------
(***************************************************************************)
(* How the bytes of a stream become packets and the packets requests, for  *)
(* TLC: the consumers with the parser of a separator (StreamReceiver,      *)
(* extended), the one of JSON documents (JSONFrames), those of packets of  *)
(* a fixed size, of files and of compressors (PacketSerializers), and the  *)
(* task of a client of a stream server (StreamServer).  They share no      *)
(* state, so they are run one at a time: the part that is chosen at the    *)
(* beginning is the only one that moves.                                   *)
(***************************************************************************)
EXTENDS StreamReceiver

CONSTANTS JSONLimit, JSONLength, Sizes, FixedSize, FileLimit, BufferSize, MaxPackets, Packets, Others

VARIABLES
  part,  \* "separator", "json", "packets" or "server"
  jsonMode, jsonStream, jsonReceived, jsonAt, memory, start, phase, count, quoted, jsonRest, documents, jsonRefused,
  kind, packetMode, packets, packetReceived, packetAt, held, rest, loaded, packetRefused,
  into, arrived, ending, inbox, lent, consumer, seen,
  pc, stage, params, graceful, hook, cancelled, transport, closing, sendq, inside

CRLF == <<"CR", "LF">>

JSON == INSTANCE JSONFrames WITH
  Limit <- JSONLimit, StreamLength <- JSONLength,
  mode <- jsonMode, stream <- jsonStream, received <- jsonReceived, at <- jsonAt, rest <- jsonRest,
  delivered <- documents, refused <- jsonRefused
Sized == INSTANCE PacketSerializers WITH
  Limit <- FileLimit, mode <- packetMode, received <- packetReceived, at <- packetAt,
  delivered <- loaded, refused <- packetRefused
Server == INSTANCE StreamServer WITH written <- lent

ASSUME JSONAssumption == JSON!JSONParameters
ASSUME SerializerAssumption == Sized!SerializerParameters
ASSUME ServerAssumption == Server!ServerParameters

jsonVars ==
  <<jsonMode, jsonStream, jsonReceived, jsonAt, memory, start, phase, count, quoted, jsonRest, documents, jsonRefused>>
packetVars == <<kind, packetMode, packets, packetReceived, packetAt, held, rest, loaded, packetRefused>>
serverVars ==
  <<into, arrived, ending, inbox, lent, consumer, seen,
    pc, stage, params, graceful, hook, cancelled, transport, closing, sendq, inside>>

\* A part that does not move has one initial state.
ReceptionInit ==
  /\ part \in {"separator", "json", "packets", "server"}
  /\ IF part = "separator" THEN TRUE ELSE mode = "chunks" /\ stream = [i \in 1..StreamLength |-> "X"]
  /\ IF part = "json" THEN TRUE ELSE jsonMode = "chunks" /\ jsonStream = [i \in 1..JSONLength |-> "newline"]
  /\ IF part = "packets" THEN TRUE
     ELSE kind = "fixed" /\ packetMode = "chunks" /\ packets = [i \in 1..MaxPackets |-> [size |-> FixedSize, valid |-> TRUE]]
  /\ IF part = "server" THEN TRUE ELSE into = FALSE
  /\ Init /\ JSON!Init /\ Sized!Init /\ Server!Init
ReceptionNext ==
  /\ UNCHANGED part
  /\ \/ part = "separator" /\ Next /\ UNCHANGED <<jsonVars, packetVars, serverVars>>
     \/ part = "json" /\ JSON!Next /\ UNCHANGED <<vars, packetVars, serverVars>>
     \/ part = "packets" /\ Sized!Next /\ UNCHANGED <<vars, jsonVars, serverVars>>
     \/ part = "server" /\ Server!Next /\ UNCHANGED <<vars, jsonVars, packetVars>>

\* The fairness of the task of a client, whose user code runs from the beginning; the
\* parsers have only safety properties.
ReceptionSpec ==
  /\ ReceptionInit /\ [][ReceptionNext]_<<part, vars, jsonVars, packetVars, serverVars>>
  /\ WF_serverVars(part = "server" /\ Server!UserCode)
  /\ WF_serverVars(Server!GoesOn) /\ WF_serverVars(Server!OthersGoOn) /\ SF_serverVars(Server!Receives)

\* Whatever the chunks and the parser, the packets are those of the stream, a receiver
\* waits only when the next one is not complete, and the request handler gets every
\* packet, once and whole, whatever times out.
PacketsIntact == FramesIntact /\ JSON!DocumentsIntact /\ Sized!PacketsIntact /\ Server!RequestsIntact

\* A packet is refused for its length only.
OnlyLongPacketsRefused == OnlyLongFramesRefused /\ JSON!OnlyLongDocumentsRefused

\* The task of a client ends with its hooks called and its transport closed; with the
\* types of the server.
ClientIsReleased == Server!TypeOK /\ Server!ClientIsReleased

\* A client that is gone is let go.
ClientEnds == Server!ClientEnds
=============================================================================
