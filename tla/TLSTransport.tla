---------------------------- MODULE TLSTransport ----------------------------
(***************************************************************************)
(* AsyncTLSStreamTransport of lowlevel/api_async/transports/tls.py: three  *)
(* tasks that call methods of one SSL object, the owner (handshake, then   *)
(* aclose()), a reader and a writer, and one more that calls aclose().     *)
(* The SSL object works on two memory BIOs, which _retry_ssl_method()      *)
(* fills and empties under a lock per direction (FairMutex, so a queue     *)
(* whose head is the holder).                                              *)
(*                                                                         *)
(* Records are only counted.  What a cancelled recv_into() of the          *)
(* transport below loses is StreamServer's subject; a send_all() of        *)
(* asyncio that is cancelled has handed its bytes over.                    *)
(***************************************************************************)
EXTENDS Integers, Sequences, SequencesExt

CONSTANTS Records  \* data the peer sends, and data the writer sends

TLSParameters == Records \in Nat

VARIABLES
  peer,             \* what the peer has still to send: "hello", "data", "notify", "bad"
  incoming, lost,   \* between the peer and the transport, and the end of the connection
  readBio, eof,     \* what the SSL object has to read, and write_eof() of both BIOs
  written,          \* records in the write BIO, by task that made the SSL object write them
  unsent, sending,  \* records handed to the transport and not gone, and whose they are
  toWrite,          \* records the writer has still to send
  phase,            \* of the transport: "handshake", "open", "closing", "closed"
  waiting,          \* a second aclose() waits for __closed
  transport,        \* "open" or "closed"
  pc, sendq, recvq, \* the tasks and the two locks
  overtaken         \* history: a send_all() returned before its records were gone

net == <<peer, incoming, lost>>
bios == <<readBio, eof, written>>
vars == <<net, bios, unsent, sending, toWrite, phase, waiting, transport, pc, sendq, recvq, overtaken>>

Callers == {"owner", "reader", "writer"}
DataOf(n) == [i \in 1..n |-> "data"]

Init ==
  /\ peer \in {<<"hello">> \o DataOf(Records) \o <<"notify">>, <<"bad">>, <<"hello">> \o DataOf(Records)}
  /\ incoming = <<>> /\ lost = FALSE
  /\ readBio = <<>> /\ eof = FALSE /\ written = {"owner"}  \* the first message of the handshake
  /\ unsent = 0 /\ sending = {} /\ toWrite = Records
  /\ phase = "handshake" /\ waiting = FALSE /\ transport = "open"
  /\ pc = [t \in Callers |-> IF t = "owner" THEN "call" ELSE "idle"]
  /\ sendq = <<>> /\ recvq = <<>> /\ overtaken = FALSE
-----------------------------------------------------------------------------
\* The peer: its send blocks until the record before it is read, and it reads what
\* the transport sent, which drains the send_all().

PeerSends ==
  /\ peer # <<>> /\ incoming = <<>> /\ ~lost
  /\ incoming' = <<Head(peer)>> /\ peer' = Tail(peer)
  /\ UNCHANGED <<lost, bios, unsent, sending, toWrite, phase, waiting, transport, pc, sendq, recvq, overtaken>>

PeerReads ==
  /\ unsent > 0
  /\ unsent' = 0 /\ sending' = {}
  /\ UNCHANGED <<net, bios, toWrite, phase, waiting, transport, pc, sendq, recvq, overtaken>>

ConnectionLost ==
  /\ ~lost
  /\ lost' = TRUE
  /\ UNCHANGED <<peer, incoming, bios, unsent, sending, toWrite, phase, waiting, transport, pc, sendq, recvq, overtaken>>
-----------------------------------------------------------------------------
\* _retry_ssl_method(): the method is called, and the task goes on as the SSL object
\* says.  What each method makes of the first thing there is to read:

Method(t) == IF t = "owner" THEN (IF phase = "handshake" THEN "handshake" ELSE "unwrap")
             ELSE IF t = "reader" THEN "read" ELSE "write"

Outcome(method) ==
  IF method = "write" THEN IF eof THEN "error" ELSE "result"
  ELSE IF readBio = <<>> THEN IF eof THEN "error" ELSE "wants read"
  ELSE IF \/ method = "handshake" /\ Head(readBio) = "hello"
          \/ method = "read" /\ Head(readBio) \in {"data", "notify"}
          \/ method = "unwrap" /\ Head(readBio) = "notify"
       THEN "result" ELSE "error"

Holds(q, t) == q # <<>> /\ Head(q) = t

\* The call of a task ends: recv() and send_all() return, wrap() returns, aclose()
\* goes on to close the transport.
Ended(t) == [pc EXCEPT ![t] = IF t = "owner" /\ phase = "closing" THEN "close" ELSE "idle"]
Opened == IF phase = "handshake" THEN "open" ELSE phase

Call(t) ==
  /\ pc[t] = "call"
  /\ \/ /\ Outcome(Method(t)) = "result"
        /\ pc' = [pc EXCEPT ![t] = "flush"] /\ sendq' = Append(sendq, t)
        /\ readBio' = IF t = "writer" \/ Head(readBio) = "notify" THEN readBio ELSE Tail(readBio)
        /\ written' = IF t = "writer" THEN written \cup {t} ELSE written
        /\ UNCHANGED <<eof, phase, transport>>
     \/ /\ Outcome(Method(t)) = "wants read"
        /\ pc' = [pc EXCEPT ![t] = "flush first"] /\ sendq' = Append(sendq, t)
        /\ UNCHANGED <<bios, phase, transport>>
     \/ /\ Outcome(Method(t)) = "error"
        /\ eof' = TRUE /\ pc' = Ended(t)
        /\ phase' = IF phase = "handshake" THEN "closed" ELSE phase
        /\ transport' = IF phase = "handshake" THEN "closed" ELSE transport
        /\ UNCHANGED <<readBio, written, sendq>>
  /\ UNCHANGED <<net, unsent, sending, toWrite, waiting, recvq, overtaken>>

\* The write BIO was emptied: the call ends, or receives.
Flushed(t) ==
  /\ sendq' = RemoveFirst(sendq, t)
  /\ IF pc[t] \in {"flush", "sending"}
     THEN /\ pc' = Ended(t) /\ phase' = Opened
          /\ overtaken' = (overtaken \/ t \in sending)
          /\ UNCHANGED recvq
     ELSE /\ pc' = [pc EXCEPT ![t] = "receive"] /\ recvq' = Append(recvq, t)
          /\ UNCHANGED <<phase, overtaken>>
  /\ UNCHANGED <<net, readBio, eof, toWrite, waiting, transport>>

\* Under the send lock: what is pending in the write BIO is handed over, if there is any.
FaultMayFlush(t) == Holds(sendq, t) \/ written = {}
MayFlush(t) == Holds(sendq, t)

Flush(t) ==
  /\ pc[t] \in {"flush first", "flush"} /\ MayFlush(t)
  /\ IF written = {} THEN Flushed(t) /\ UNCHANGED <<written, unsent, sending>>
     ELSE /\ transport = "open" /\ ~lost
          /\ pc' = [pc EXCEPT ![t] = IF pc[t] = "flush" THEN "sending" ELSE "sending first"]
          /\ written' = {} /\ sending' = sending \cup written /\ unsent' = 1
          /\ UNCHANGED <<net, readBio, eof, toWrite, phase, waiting, transport, sendq, recvq, overtaken>>

\* send_all() of the transport returns when everything is gone.
Sent(t) ==
  /\ pc[t] \in {"sending first", "sending"} /\ unsent = 0
  /\ Flushed(t) /\ UNCHANGED <<written, unsent, sending>>

\* Under the receive lock: _IncomingDataReader.readinto(), then the method again.
Receive(t) ==
  /\ Holds(recvq, t) /\ pc[t] = "receive"
  /\ \/ /\ incoming # <<>> /\ ~lost /\ transport = "open"
        /\ readBio' = readBio \o incoming /\ incoming' = <<>> /\ eof' = eof
     \/ /\ lost \/ transport = "closed"
        /\ eof' = TRUE /\ UNCHANGED <<readBio, incoming>>
  /\ recvq' = Tail(recvq)
  /\ pc' = [pc EXCEPT ![t] = "call"]
  /\ UNCHANGED <<peer, lost, written, unsent, sending, toWrite, phase, waiting, transport, sendq, overtaken>>
-----------------------------------------------------------------------------
\* A call leaves the loop with an exception: it gives its locks back, and what it was
\* sending is the transport's.  A handshake that fails closes the transport; aclose()
\* ignores an OSError of unwrap().
Leave(t) ==
  /\ sendq' = RemoveFirst(sendq, t) /\ recvq' = RemoveFirst(recvq, t)
  /\ sending' = IF pc[t] \in {"sending first", "sending"} THEN {} ELSE sending
  /\ pc' = Ended(t)
  /\ phase' = IF phase = "handshake" THEN "closed" ELSE phase
  /\ transport' = IF phase = "handshake" THEN "closed" ELSE transport
  /\ UNCHANGED <<net, readBio, written, unsent, toWrite, waiting, overtaken>>

SendFails(t) ==
  /\ lost \/ transport = "closed"
  /\ \/ pc[t] \in {"flush first", "flush"} /\ Holds(sendq, t) /\ written # {}
     \/ pc[t] \in {"sending first", "sending"}
  /\ eof' = (eof \/ pc[t] \in {"flush first", "sending first"})
  /\ Leave(t)

\* A timeout or a cancellation, of recv(), send_all() or wrap().  (A record that was
\* read is lost if its recv() was waiting to flush.)
Cancelled(t) ==
  /\ pc[t] \notin {"idle", "call", "close"}
  /\ t = "owner" => phase = "handshake"
  /\ Leave(t) /\ UNCHANGED eof
-----------------------------------------------------------------------------
Recv ==
  /\ phase = "open" /\ pc["reader"] = "idle"
  /\ pc' = [pc EXCEPT !["reader"] = "call"]
  /\ UNCHANGED <<net, bios, unsent, sending, toWrite, phase, waiting, transport, sendq, recvq, overtaken>>

SendAll ==
  /\ phase = "open" /\ pc["writer"] = "idle" /\ toWrite > 0
  /\ toWrite' = toWrite - 1
  /\ pc' = [pc EXCEPT !["writer"] = "call"]
  /\ UNCHANGED <<net, bios, unsent, sending, phase, waiting, transport, sendq, recvq, overtaken>>

\* aclose(): unwrap() sends close_notify, unless the transport is not standard_compatible.
Close ==
  /\ phase = "open"
  /\ phase' = "closing"
  /\ \/ pc' = [pc EXCEPT !["owner"] = "call"] /\ written' = written \cup {"owner"}
     \/ pc' = [pc EXCEPT !["owner"] = "close"] /\ UNCHANGED written
  /\ UNCHANGED <<net, readBio, eof, unsent, sending, toWrite, waiting, transport, sendq, recvq, overtaken>>

\* The rest of aclose(), the callbacks of its exit stack included, which run also when
\* it was cancelled.
FaultReleases == FALSE
Releases == TRUE

Closed(forced) ==
  /\ transport' = "closed" /\ phase' = "closed"
  /\ pc' = [pc EXCEPT !["owner"] = "idle"]
  /\ waiting' = IF forced /\ ~Releases THEN waiting ELSE FALSE
  /\ sendq' = RemoveFirst(sendq, "owner") /\ recvq' = RemoveFirst(recvq, "owner")
  /\ sending' = {}
  /\ UNCHANGED <<net, unsent, toWrite, overtaken>>

CloseTransport ==
  /\ pc["owner"] = "close"
  /\ eof' = TRUE /\ UNCHANGED <<readBio, written>>
  /\ Closed(FALSE)

\* The shutdown timeout, or a cancellation: the transport is closed by force.
ShutdownTimeout ==
  /\ phase = "closing" /\ pc["owner"] # "idle"
  /\ Closed(TRUE) /\ UNCHANGED bios

CloseAgain ==
  /\ phase = "closing" /\ ~waiting
  /\ waiting' = TRUE
  /\ UNCHANGED <<net, bios, unsent, sending, toWrite, phase, transport, pc, sendq, recvq, overtaken>>
-----------------------------------------------------------------------------
Retry(t) == Call(t) \/ Flush(t) \/ Sent(t) \/ Receive(t) \/ SendFails(t)

Next ==
  \/ PeerSends \/ PeerReads \/ ConnectionLost
  \/ \E t \in Callers : Retry(t) \/ Cancelled(t)
  \/ Recv \/ SendAll \/ Close \/ CloseTransport \/ ShutdownTimeout \/ CloseAgain

\* The tasks run, the shutdown timeout fires, and the peer reads once it has sent
\* everything: that is what a program does that answers when it has the request.
Fairness ==
  /\ \A t \in Callers : WF_vars(Retry(t))
  /\ WF_vars(CloseTransport) /\ WF_vars(ShutdownTimeout)
  /\ WF_vars(PeerSends) /\ WF_vars(peer = <<>> /\ PeerReads)

Spec == Init /\ [][Next]_vars
FairSpec == Spec /\ Fairness
-----------------------------------------------------------------------------
TypeOK ==
  /\ Len(peer) <= Records + 2 /\ Len(incoming) <= 1 /\ Len(readBio) <= Records + 2
  /\ {lost, eof, waiting, overtaken} \subseteq BOOLEAN
  /\ written \cup sending \subseteq Callers /\ unsent \in 0..1 /\ toWrite \in 0..Records
  /\ phase \in {"handshake", "open", "closing", "closed"} /\ transport \in {"open", "closed"}
  /\ pc \in [Callers -> {"idle", "call", "flush first", "sending first", "receive", "flush", "sending", "close"}]

\* _retry_ssl_method(): send_all() returns once its records are gone, also when another
\* task took them out of the write BIO to flush it.
SentIsGone == ~overtaken

\* aclose() ends whatever the peer does, releases the other callers of aclose(), and
\* the reader and the writer do not stay behind.
CloseReleasesEveryone == phase \in {"closing", "closed"} ~> (\A t \in Callers : pc[t] = "idle") /\ ~waiting

\* "A full-duplex communication endpoint" (endpoints/stream.py): what has come in is
\* received while another task sends.
FullDuplex ==
  (incoming # <<>> /\ pc["reader"] # "idle") ~>
    (incoming = <<>> \/ pc["reader"] = "idle" \/ lost \/ transport = "closed")
=============================================================================
