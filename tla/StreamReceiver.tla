----------------------------- MODULE StreamReceiver -----------------------------
(***************************************************************************)
(* From the bytes of a stream to the packets of recv_packet(), for the     *)
(* protocols whose packets end with a separator:                           *)
(*   src/easynetwork/lowlevel/api_async/endpoints/stream.py (receivers)    *)
(*   src/easynetwork/lowlevel/_stream.py (consumers)                       *)
(*   src/easynetwork/serializers/base_stream.py, tools.py (parsers)        *)
(*                                                                         *)
(* There are two ways: "chunks", where the transport returns new bytes and *)
(* GeneratorStreamReader.read_until() parses them, and "buffered", where   *)
(* the transport writes in a buffer that is used again and again, which    *)
(* _buffered_readuntil() parses in place.                                  *)
(*                                                                         *)
(* A byte is named by its position in the stream, so that a byte that is   *)
(* lost, repeated or left over in a buffer is told from another one of the *)
(* same value; 0 is a byte of a new buffer, never written.  Indices count  *)
(* from 0 as in the code.                                                  *)
(***************************************************************************)
EXTENDS Integers, Sequences, SequencesExt, FiniteSets, FiniteSetsExt

CONSTANTS
  Values,      \* the byte values that occur
  Separator,   \* the two bytes that end a packet
  Limit,       \* the limit of the serializer, also the size of its buffer
  StreamLength \* bound: the bytes that the peer sends

ASSUME Parameters ==
  /\ Separator \in Seq(Values) /\ Len(Separator) = 2 /\ Separator[1] # Separator[2]
  /\ Limit \in Nat /\ Limit > Len(Separator) /\ StreamLength \in Nat

VARIABLES
  mode,       \* "chunks" or "buffered", by the type of the protocol
  stream,     \* what the peer sends
  received,   \* number of bytes the transport gave
  at,         \* the task in recv_packet(): "idle" or "receiving"
  eof,        \* _eof_reached
  buffer,     \* chunks: the bytes of the generator or, without one, __buffer;
              \* buffered: the whole buffer, <<>> when there is none
  offset,     \* the bytes of the generator where no separator starts
  active,     \* __consumer is not None
  written,    \* buffered: the bytes parsed so far, then those of __already_written
  already,    \* __already_written
  delivered,  \* history: the packets, each with its separator
  refused     \* history: the bytes dropped with a LimitOverrunError

wire == <<mode, stream>>
parser == <<buffer, offset, active, written, already>>
vars == <<wire, received, at, eof, parser, delivered, refused>>

SepLen == Len(Separator)

Init ==
  /\ mode \in {"chunks", "buffered"}
  /\ stream \in [1..StreamLength -> Values]
  /\ received = 0 /\ at = "idle" /\ eof = FALSE
  /\ buffer = <<>> /\ offset = 0 /\ active = FALSE /\ written = 0 /\ already = 0
  /\ delivered = <<>> /\ refused = {}

-----------------------------------------------------------------------------
(* The parsers *)

\* buf[i] is the byte of the separator j says.
IsSep(buf, i, j) == buf[i] # 0 /\ stream[buf[i]] = Separator[j]

\* find(separator, from, upto): the indices where a separator starts.
Found(buf, from, upto) ==
  {i \in from..(upto - SepLen) : \A j \in 1..SepLen : IsSep(buf, i + j, j)}

\* Where the search goes on from when no separator is found: its first bytes may
\* be there already.
FaultNextOffset(buflen) == buflen
NextOffset(buflen) == buflen + 1 - SepLen

More(o) == [is |-> "more", offset |-> o]
Packet(i) == [is |-> "packet", offset |-> i + SepLen]
Overrun(o) == [is |-> "overrun", offset |-> o]

\* A parser looks at the first buflen bytes of buf; o is where it stopped before.
\* Only read_until() refuses a separator that it has found, for being beyond the
\* limit: in the buffer of the other parser, of Limit bytes, none is.
Outcome(buf, o, buflen, overrunAt) ==
  LET found == Found(buf, o, buflen) IN
  CASE buflen - o < SepLen -> More(o)
    [] found # {} -> IF Min(found) > Limit THEN Overrun(Min(found)) ELSE Packet(Min(found))
    [] OTHER -> IF NextOffset(buflen) > overrunAt THEN Overrun(NextOffset(buflen)) ELSE More(NextOffset(buflen))

\* read_until()
ReadUntil(buf, o) == Outcome(buf, o, Len(buf), Limit)

\* _buffered_readuntil()
FaultBufferedLimit == Limit - SepLen - 2
BufferedLimit == Limit - 1 - SepLen
BufferedReadUntil(buf, o, buflen) == Outcome(buf, o, buflen, BufferedLimit)

\* What LimitOverrunError keeps of the bytes after those it consumed: what may
\* be the beginning of a separator, or what follows the separator.
StartsLikeSep(buf) == \A j \in 1..SepLen : j <= Len(buf) => IsSep(buf, j, j)
Rest(buf, consumed) == SubSeq(buf, consumed + 1, Len(buf))
Remaining(buf, consumed) ==
  LET data == Rest(buf, consumed) IN
  IF Len(data) >= SepLen /\ StartsLikeSep(data)
  THEN Rest(data, SepLen)
  ELSE Rest(data, Min({k \in 0..Len(data) : StartsLikeSep(Rest(data, k))}))

-----------------------------------------------------------------------------
(* The consumers *)

\* StreamDataConsumer.next(), with all the bytes it has.
NextChunk(data) ==
  LET o == IF active THEN offset ELSE 0
      out == ReadUntil(data, o)
      rest == IF out.is = "packet" THEN Rest(data, out.offset) ELSE Remaining(data, out.offset)
  IN
  /\ out.is = "more" => buffer' = data /\ offset' = out.offset /\ active' = TRUE
  /\ out.is # "more" => buffer' = rest /\ offset' = 0 /\ active' = FALSE
  /\ delivered' = IF out.is = "packet" THEN Append(delivered, SubSeq(data, 1, out.offset)) ELSE delivered
  /\ refused' = IF out.is = "overrun" THEN refused \cup (Range(data) \ Range(rest)) ELSE refused
  /\ at' = IF out.is = "more" THEN "receiving" ELSE "idle"
  /\ UNCHANGED <<written, already>>

Blank == [i \in 1..Limit |-> 0]
Write(mem, from, data) == [i \in 1..Limit |-> IF i - from \in 1..Len(data) THEN data[i - from] ELSE mem[i]]

\* __save_remainder_in_buffer(): in a buffer of its own, and only if there is one.
Save(mem, rest) ==
  IF rest = <<>>
  THEN buffer' = mem /\ active' = FALSE /\ already' = 0
  ELSE buffer' = Write(Blank, 0, rest) /\ active' = TRUE /\ already' = Len(rest)

\* BufferedStreamDataConsumer.next(), when nbytes more bytes were written.
ParsedBytes(nbytes) == written + already + nbytes
NextBuffered(mem, nbytes) ==
  LET buflen == ParsedBytes(nbytes)
      out == BufferedReadUntil(mem, offset, buflen)
      rest == IF out.is = "packet" THEN SubSeq(mem, out.offset + 1, buflen) ELSE Remaining(mem, out.offset)
  IN
  /\ \/ /\ out.is = "more"
        /\ buffer' = mem /\ active' = TRUE /\ already' = 0
        /\ offset' = out.offset /\ written' = buflen
     \/ /\ out.is # "more"
        /\ Save(mem, rest)
        /\ offset' = 0 /\ written' = 0
  /\ delivered' = IF out.is = "packet" THEN Append(delivered, SubSeq(mem, 1, out.offset)) ELSE delivered
  /\ refused' = IF out.is = "overrun" THEN refused \cup (Range(SubSeq(mem, 1, buflen)) \ Range(rest)) ELSE refused
  /\ at' = IF out.is = "more" THEN "receiving" ELSE "idle"

\* The bytes kept for the packet to come.
Held == IF mode = "chunks" THEN buffer ELSE SubSeq(buffer, 1, written + already)

-----------------------------------------------------------------------------
(* recv_packet() *)

\* The call begins with what the consumer has: next(None).  A packet that cannot
\* be deserialized is delivered as an error, and leaves the same bytes behind.
Call ==
  /\ at = "idle"
  /\ \/ /\ mode = "chunks" /\ ~active /\ buffer # <<>>
        /\ NextChunk(buffer)
     \/ /\ mode = "buffered" /\ active /\ already > 0
        /\ NextBuffered(buffer, 0)
     \/ /\ IF mode = "chunks" THEN active \/ buffer = <<>> ELSE ~active \/ already = 0
        /\ at' = IF eof THEN "idle" ELSE "receiving"
        /\ UNCHANGED <<parser, delivered, refused>>
  /\ UNCHANGED <<wire, received, eof>>

\* The transport gives k bytes.
Chunk(k) == [i \in 1..k |-> received + i]

ReceiveChunk(k) ==
  /\ at = "receiving" /\ mode = "chunks"
  /\ received' = received + k
  /\ NextChunk(buffer \o Chunk(k))
  /\ UNCHANGED <<wire, eof>>

\* get_write_buffer() gives what follows the bytes that are kept.
ReceiveInto(k) ==
  LET mem == IF buffer = <<>> THEN Blank ELSE buffer
      start == IF active THEN written + already ELSE 0
  IN
  /\ at = "receiving" /\ mode = "buffered"
  /\ k <= Limit - start
  /\ received' = received + k
  /\ NextBuffered(Write(mem, start, Chunk(k)), k)
  /\ UNCHANGED <<wire, eof>>

\* An empty read: the end of the stream, and ConnectionAbortedError.
Eof ==
  /\ at = "receiving" /\ received = StreamLength
  /\ eof' = TRUE /\ at' = "idle"
  /\ UNCHANGED <<wire, received, parser, delivered, refused>>

\* The call is cancelled while it waits.
Cancel ==
  /\ at = "receiving" /\ at' = "idle"
  /\ UNCHANGED <<wire, received, eof, parser, delivered, refused>>

Next ==
  \/ Call \/ Eof \/ Cancel
  \/ \E k \in 1..(StreamLength - received) : ReceiveChunk(k) \/ ReceiveInto(k)

Spec == Init /\ [][Next]_vars

-----------------------------------------------------------------------------
(* Properties *)

\* The last bytes of the separators of the stream, and the frames they end.
Ends == {e \in SepLen..StreamLength : \A j \in 1..SepLen : stream[e - SepLen + j] = Separator[j]}
FrameStart(e) == IF \E f \in Ends : f < e THEN Max({f \in Ends : f < e}) + 1 ELSE 1
Frame(e) == [i \in 1..(e - FrameStart(e) + 1) |-> FrameStart(e) + i - 1]

\* Whatever the chunks, and whichever parser: while no packet is refused, the i-th
\* packet is the i-th frame of the stream, no byte is lost, and recv_packet()
\* waits for the transport only when no received frame is left.
\* After a refusal read_until() goes on with what follows in the stream: each
\* packet is a frame, or the tail of one whose beginning was refused, and every
\* byte is delivered, refused or still there, once.
FramesIntact ==
  LET all == FlattenSeq(delivered) \o Held IN
  /\ refused = {} =>
       /\ \A i \in DOMAIN delivered :
            LET e == Last(delivered[i]) IN
            e \in Ends /\ delivered[i] = Frame(e) /\ Cardinality({f \in Ends : f <= e}) = i
       /\ all = [i \in 1..received |-> i]
       /\ at = "receiving" => Len(delivered) = Cardinality({e \in Ends : e <= received})
  /\ mode = "chunks" =>
       /\ \A i, j \in DOMAIN all : i < j => all[i] < all[j]
       /\ Range(all) \cup refused = 1..received /\ Range(all) \cap refused = {}
       /\ \A i \in DOMAIN delivered :
            LET e == Last(delivered[i]) IN
            e \in Ends /\ IsSuffix(delivered[i], Frame(e))
            /\ (delivered[i] # Frame(e) => Range(Frame(e)) \subseteq refused \cup Range(delivered[i]))

\* The length of the frame from p on, the shortest it can have when its end is
\* not in the stream.
LengthFrom(p) ==
  IF \E e \in Ends : e >= p
  THEN Min({e \in Ends : e >= p}) - p + 1
  ELSE StreamLength - p + 1 + (IF stream[StreamLength] = Separator[1] THEN SepLen - 1 ELSE SepLen)

\* A packet is refused for its length only, whatever the chunks: read_until()
\* accepts one of at most Limit bytes, and the buffered parser (of which only
\* the first refusal is told, see PartialSeparatorKept) one that leaves a byte
\* of the buffer free with its separator.
OnlyLongFramesRefused ==
  [][refused' # refused =>
       \/ mode = "chunks" /\ LengthFrom(Min(refused' \ refused)) > Limit + SepLen
       \/ mode = "buffered" /\ (LengthFrom(Min(refused')) >= Limit \/ refused # {})]_vars

\* A separator that is partially received when the limit is reached is kept for
\* the next call.
PartialSeparatorKept ==
  [][refused' # refused /\ stream[received'] = Separator[1] => Held' # <<>> /\ Last(Held') = received']_vars
=============================================================================
