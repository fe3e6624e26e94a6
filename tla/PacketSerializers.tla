---------------------------- MODULE PacketSerializers ----------------------------
(***************************************************************************)
(* The incremental parsers that look for no separator:                     *)
(*   src/easynetwork/serializers/base_stream.py: packets of a fixed size,  *)
(*     and those that a function loads from a file;                        *)
(*   src/easynetwork/serializers/wrapper/compressor.py: packets that a     *)
(*     decompressor ends;                                                  *)
(* driven by the consumers of src/easynetwork/lowlevel/_stream.py, with    *)
(* bytes ("chunks") or with a buffer the transport writes in ("buffered"). *)
(* A byte is named by its position in the stream, packet i holds Bytes(i). *)
(* The function that loads and the decompressor are libraries: they tell a *)
(* packet when they have its last byte, and then whether it is valid.      *)
(***************************************************************************)
EXTENDS Integers, Sequences, SequencesExt, FiniteSets, FiniteSetsExt

CONSTANTS
  Sizes,     \* the lengths of the packets
  FixedSize, \* the length of those of a fixed size
  Limit,     \* the limit of the serializer that loads from a file
  BufferSize,\* the size hint of the buffer
  MaxPackets \* bound: the packets that the peer sends

SerializerParameters ==
  /\ Sizes \subseteq Nat \ {0} /\ FixedSize \in Nat \ {0} /\ Limit \in Nat \ {0}
  /\ BufferSize \in Nat \ {0} /\ MaxPackets \in Nat

VARIABLES
  kind,      \* "fixed", "file" or "compressor"
  mode,      \* "chunks" or "buffered"
  packets,   \* the packets of the stream: [size, valid]
  received,  \* number of bytes the transport gave
  at,        \* recv_packet(): "idle", "receiving", "lost" when the place is lost
  held,      \* the bytes that the generator has, or its decompressor
  rest,      \* the bytes that the consumer keeps for the next generator
  delivered, \* history: the bytes of each packet that was delivered, valid or not
  refused    \* history: bytes dropped with a LimitOverrunError

wire == <<kind, mode, packets>>
vars == <<wire, received, at, held, rest, delivered, refused>>

SumOf(seq) == FoldLeft(+, 0, seq)
Upto(i) == SumOf([j \in 1..i |-> packets[j].size])
Extent == Upto(Len(packets))
Bytes(i) == [j \in 1..packets[i].size |-> Upto(i - 1) + j]
Following == Len(delivered) + 1
Complete(data) == Following <= Len(packets) /\ Len(data) >= packets[Following].size

Init ==
  /\ kind \in {"fixed", "file", "compressor"} /\ mode \in {"chunks", "buffered"}
  /\ packets \in [1..MaxPackets -> [size : IF kind = "fixed" THEN {FixedSize} ELSE Sizes, valid : BOOLEAN]]
  /\ received = 0 /\ at = "idle" /\ held = <<>> /\ rest = <<>>
  /\ delivered = <<>> /\ refused = {}

-----------------------------------------------------------------------------
(* The parsers: what a generator answers when it has all of data, the last k *)
(* bytes being new.                                                          *)

Wants == [is |-> "more"]
Gives(n, data) == [is |-> "packet", doc |-> SubSeq(data, 1, n), rest |-> SubSeq(data, n + 1, Len(data)), lost |-> {}]

\* read_exactly(), and its loop in buffered_incremental_deserialize().
ParseFixed(data) == IF Len(data) < FixedSize THEN Wants ELSE Gives(FixedSize, data)

\* The file is written at its position and read again from the beginning; the
\* limit is that of the whole file, and what it holds is dropped with the error.
ParseFile(data) ==
  IF Len(data) > Limit
  THEN [is |-> "overrun", doc |-> <<>>, rest |-> <<>>, lost |-> Range(data)]
  ELSE IF Complete(data) THEN Gives(packets[Following].size, data) ELSE Wants

\* The decompressor keeps what follows the end of its stream, and nothing of a
\* chunk that it cannot read.
ParseCompressed(data) ==
  IF ~Complete(data) THEN Wants
  ELSE LET out == Gives(packets[Following].size, data) IN
       IF packets[Following].valid THEN out ELSE [out EXCEPT !.rest = <<>>, !.lost = Range(out.rest)]

Parse(data, k) ==
  CASE kind = "fixed" -> ParseFixed(data)
    [] kind = "file" -> ParseFile(data)
    [] kind = "compressor" -> ParseCompressed(data)

-----------------------------------------------------------------------------
(* The consumers *)

\* next(): new bytes for the generator, a new one if there is none.  The stream
\* cannot be read further when bytes of a packet were dropped.
Feed(new) ==
  LET data == held \o new
      out == Parse(data, Len(new))
  IN
  IF out.is = "more"
  THEN held' = data /\ rest' = <<>> /\ at' = "receiving" /\ UNCHANGED <<delivered, refused>>
  ELSE /\ held' = <<>> /\ rest' = out.rest
       /\ at' = IF out.lost = {} THEN "idle" ELSE "lost"
       /\ delivered' = IF out.is = "packet" THEN Append(delivered, out.doc) ELSE delivered
       /\ refused' = refused \cup out.lost

Call ==
  /\ at = "idle"
  /\ \/ rest # <<>> /\ Feed(rest)
     \/ rest = <<>> /\ at' = "receiving" /\ UNCHANGED <<held, rest, delivered, refused>>
  /\ UNCHANGED <<wire, received>>

\* The room in the buffer: a generator that copies what it is given has it whole.
SizeOfBuffer ==
  CASE kind = "fixed" -> IF FixedSize > BufferSize THEN FixedSize ELSE BufferSize
    [] kind = "file" -> IF Limit < BufferSize THEN Limit ELSE BufferSize
    [] kind = "compressor" -> BufferSize
Room == SizeOfBuffer - (IF kind = "fixed" THEN Len(held) ELSE 0)

Receive(k) ==
  /\ at = "receiving" /\ received + k <= Extent
  /\ mode = "buffered" => k <= Room
  /\ received' = received + k
  /\ Feed([i \in 1..k |-> received + i])
  /\ UNCHANGED wire

Cancel == at = "receiving" /\ at' = "idle" /\ UNCHANGED <<wire, received, held, rest, delivered, refused>>

Next == Call \/ Cancel \/ \E k \in 1..Extent : Receive(k)
Spec == Init /\ [][Next]_vars

-----------------------------------------------------------------------------
(* Properties *)

\* Whatever the chunks and the serializer: the packets are those of the stream, in
\* order and whole; recv_packet() waits only when the next one is not complete;
\* and no byte is lost but those of an overrun or of a chunk that is not valid.
PacketsIntact ==
  /\ \A i \in DOMAIN delivered : delivered[i] = Bytes(i)
  /\ at = "receiving" => (Following <= Len(packets) => Upto(Following) > received)
  /\ FlattenSeq(delivered) \o held \o rest = [i \in 1..(received - Cardinality(refused)) |-> i]
=============================================================================
