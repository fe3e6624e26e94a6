------------------------------ MODULE VectoredSend ------------------------------
(***************************************************************************)
(* send_all_from_iterable() where the system has sendmsg(): a packet that  *)
(* the serializer yields in several parts is sent without joining them.    *)
(*   src/easynetwork/lowlevel/_utils.py (adjust_leftover_buffer)           *)
(*   src/easynetwork/lowlevel/api_sync/transports/socket.py                *)
(*   .../backend/_asyncio/stream/socket.py (RawUnixStreamSocketAdapter),   *)
(*   .../backend/_asyncio/_base_raw_transport.py (_sock_send_all)          *)
(*   .../backend/_trio/stream/socket.py                                    *)
(* The loop is the same for the three.  A byte is named by its position in *)
(* what is sent, a buffer by the positions it holds.                       *)
(***************************************************************************)
EXTENDS Integers, Sequences, SequencesExt, FiniteSets, FiniteSetsExt

CONSTANTS
  Lengths,    \* the lengths of the parts
  MaxParts,   \* bound: the parts of a packet
  SC_IOV_MAX  \* the buffers that one sendmsg() takes

VectoredParameters == Lengths \subseteq Nat /\ MaxParts \in Nat /\ SC_IOV_MAX \in Nat \ {0}

VARIABLES
  parts,    \* the lengths of the parts of the packet
  buffers,  \* what is left of them: [from, upto] with upto excluded
  wire,     \* the bytes that the socket took, in order
  call      \* the call: "idle", "sending", "waiting" for the socket, "sent", "failed"

vars == <<parts, buffers, wire, call>>

SumOf(seq) == FoldLeft(+, 0, seq)
Length(b) == b.upto - b.from
Whole(lengths) ==
  [i \in DOMAIN lengths |-> [from |-> SumOf(SubSeq(lengths, 1, i - 1)), upto |-> SumOf(SubSeq(lengths, 1, i))]]

Init ==
  /\ parts \in UNION {[1..n -> Lengths] : n \in 0..MaxParts}
  /\ buffers = Whole(parts) /\ wire = <<>> /\ call = "idle"

\* itertools.islice(buffers, SC_IOV_MAX)
Slice == SubSeq(buffers, 1, IF Len(buffers) < SC_IOV_MAX THEN Len(buffers) ELSE SC_IOV_MAX)
BytesOf(bufs) == FlattenSeq([i \in DOMAIN bufs |-> [j \in 1..Length(bufs[i]) |-> bufs[i].from + j - 1]])

\* adjust_leftover_buffer(): the buffers that were sent are taken out one by one
\* until no byte is left to account for, and the last one is cut.
LeftoverAfter(bufs, nbytes, k) == nbytes - SumOf([i \in 1..k |-> Length(bufs[i])])
AdjustLeftover(bufs, nbytes) ==
  LET k == Min({i \in 0..Len(bufs) : LeftoverAfter(bufs, nbytes, i) <= 0})
      over == -LeftoverAfter(bufs, nbytes, k)
  IN
  IF nbytes = 0 THEN bufs
  ELSE IF over = 0 THEN SubSeq(bufs, k + 1, Len(bufs))
  ELSE <<[from |-> bufs[k].upto - over, upto |-> bufs[k].upto]>> \o SubSeq(bufs, k + 1, Len(bufs))

Begin == call = "idle" /\ call' = "sending" /\ UNCHANGED <<parts, buffers, wire>>

\* The socket takes some of the bytes, none when there is none; the call ends when
\* no buffer is left.
SendMsg ==
  /\ call = "sending"
  /\ LET data == BytesOf(Slice) IN
     \E sent \in (IF data = <<>> THEN {0} ELSE 1..Len(data)) :
       /\ wire' = wire \o SubSeq(data, 1, sent)
       /\ buffers' = AdjustLeftover(buffers, sent)
       /\ call' = IF buffers' = <<>> THEN "sent" ELSE "sending"
  /\ UNCHANGED parts

\* It takes nothing for now (WouldBlockOnWrite): the same buffers are sent again.
WouldBlock ==
  /\ call = "sending" /\ BytesOf(Slice) # <<>> /\ call' = "waiting"
  /\ UNCHANGED <<parts, buffers, wire>>
Writable == call = "waiting" /\ call' = "sending" /\ UNCHANGED <<parts, buffers, wire>>

\* A timeout, a cancellation or an error of the socket.
Fail ==
  /\ call = "waiting" /\ call' = "failed"
  /\ UNCHANGED <<parts, buffers, wire>>

Next == Begin \/ SendMsg \/ WouldBlock \/ Writable \/ Fail

\* The peer reads, and the loop that retries goes on.
Fairness == WF_vars(Begin) /\ SF_vars(SendMsg) /\ WF_vars(Writable)
Spec == Init /\ [][Next]_vars
FairSpec == Spec /\ Fairness

\* The socket got the bytes of the parts in order and once, however it cut them,
\* and the call ends without an error only when it got them all.
PartsIntact ==
  /\ wire \o BytesOf(buffers) = [i \in 1..SumOf(parts) |-> i - 1]
  /\ call = "sent" => Len(wire) = SumOf(parts)

\* The call ends, and with all the parts sent unless there is an error.
SendEnds == call = "sending" ~> call \in {"sent", "failed"}
=============================================================================
