------------------------------- MODULE JSONFrames -------------------------------
(***************************************************************************)
(* The JSON documents of a stream without separators, JSONSerializer with  *)
(* use_lines=False: src/easynetwork/serializers/json.py (_JSONParser),     *)
(* driven by the consumers of src/easynetwork/lowlevel/_stream.py.         *)
(*                                                                         *)
(* As in StreamReceiver there are two ways, "chunks" (raw_parse()) and     *)
(* "buffered" (raw_parse_with_external_buffer()), a byte is named by its   *)
(* position in the stream, 0 is a byte never written, and indices count    *)
(* from 0.  The values that matter: one kind of brackets, the quote, the   *)
(* escape, a white space that is not printable, and another byte that is   *)
(* not printable.                                                          *)
(***************************************************************************)
EXTENDS Integers, Sequences, SequencesExt, FiniteSets, FiniteSetsExt

CONSTANTS
  Limit,        \* the limit of the serializer, also the size of its buffer
  StreamLength  \* bound: the bytes that the peer sends

JSONParameters == Limit \in Nat \ {0} /\ StreamLength \in Nat

Chars == {"{", "}", "quote", "escape", "newline", "control"}

VARIABLES
  mode,      \* "chunks" or "buffered", by the type of the protocol
  stream,    \* what the peer sends
  received,  \* number of bytes the transport gave
  at,        \* the task in recv_packet(): "idle" or "receiving"
  memory,    \* the buffer of the parser, with what it no longer uses
  start,     \* the index the generator yielded: where more bytes go
  phase,     \* "blank", "plain", "framed": how far the parser is; "none": no parser
  count,     \* enclosure_count
  quoted,    \* between_quotes
  rest,      \* the bytes the consumer keeps for the next parser
  delivered, \* history: the documents
  refused    \* history: the bytes consumed with a LimitOverrunError

wire == <<mode, stream>>
parser == <<memory, start, phase, count, quoted, rest>>
vars == <<wire, received, at, parser, delivered, refused>>

Init ==
  /\ mode \in {"chunks", "buffered"} /\ stream \in [1..StreamLength -> Chars]
  /\ received = 0 /\ at = "idle"
  /\ memory = <<>> /\ start = 0 /\ phase = "none" /\ count = 0 /\ quoted = FALSE /\ rest = <<>>
  /\ delivered = <<>> /\ refused = {}

-----------------------------------------------------------------------------
(* The parser.  Its state is a record [phase, mem, end, search, count, quoted], *)
(* where the first end bytes of mem were received.                              *)

At(mem, i) == IF mem[i + 1] = 0 THEN "never" ELSE stream[mem[i + 1]]
Opens(v) == v \in {"{", "quote"}
CloseOf(v) == IF v = "{" THEN "}" ELSE "quote"
Printable(v) == v \notin {"newline", "control"}
Slice(mem, from, upto) == SubSeq(mem, from + 1, upto)

\* _WHITESPACES.match(mem, from, end).end()
SkipBlanks(mem, from, end) == Min({i \in from..end : i = end \/ At(mem, i) # "newline"})

\* What a parser answers: it wants more bytes, it has a document, or it gives up
\* and LimitOverrunError keeps what follows the bytes that are consumed.
Wants(p) == [is |-> "more", p |-> p]
Gives(doc, r) == [is |-> "packet", doc |-> doc, rest |-> r]
GivesUp(mem, consumed) ==
  [is |-> "overrun", consumed |-> Range(Slice(mem, 0, consumed)), rest |-> Slice(mem, consumed, Len(mem))]

\* __split_final_buffer()
Split(p, docEnd) ==
  LET remainder == SkipBlanks(p.mem, docEnd, p.end) IN
  IF docEnd > Limit THEN GivesUp(p.mem, remainder)
  ELSE Gives(Slice(p.mem, 0, docEnd), Slice(p.mem, remainder, p.end))

\* __read_data(), before it waits
ReadData(p) == IF p.end >= Limit THEN GivesUp(p.mem, p.end) ELSE Wants(p)

\* A document that is not enclosed ends at the first byte that is not printable.
\* An empty one is invalid: everything received is refused with it.
ParsePlain(p) ==
  LET stops == {i \in p.search..(p.end - 1) : ~Printable(At(p.mem, i))}
      out == Split(p, Min(stops))
  IN
  IF stops = {} THEN ReadData([p EXCEPT !.search = p.end])
  ELSE IF out.is = "packet" /\ out.doc = <<>> THEN Gives(out.rest, <<>>)
  ELSE out

\* The loop over token_finder(): an escape hides the byte after it, when it is
\* there; quotes hide brackets; the frame ends when every enclosure is closed.
Token(p, open, i, s) ==
  LET v == At(p.mem, i)
      unquoted == IF v = "quote" THEN ~s.quoted ELSE s.quoted
      seen == v = "quote" \/ (open = "{" /\ ~s.quoted)
      n == IF seen /\ v = CloseOf(open) THEN s.count - 1
           ELSE IF seen /\ v = open THEN s.count + 1 ELSE s.count
  IN
  IF s.end # -1 THEN s
  ELSE IF s.hidden THEN [s EXCEPT !.hidden = FALSE]
  ELSE IF v = "escape" THEN [s EXCEPT !.hidden = i + 1 < p.end]
  ELSE IF v \in {"quote", open, CloseOf(open)}
  THEN [s EXCEPT !.quoted = unquoted, !.count = n, !.end = IF n = 0 THEN i + 1 ELSE -1]
  ELSE s

Scan(p, open) ==
  FoldLeft(LAMBDA s, i : Token(p, open, i, s),
           [hidden |-> FALSE, quoted |-> p.quoted, count |-> p.count, end |-> -1],
           [k \in 1..(p.end - p.search) |-> p.search + k - 1])

ParseFramed(p) ==
  LET s == Scan(p, At(p.mem, 0)) IN
  IF s.end # -1 THEN Split(p, s.end)
  ELSE ReadData([p EXCEPT !.search = p.end, !.count = s.count, !.quoted = s.quoted])

\* The blanks before a document are taken out of the buffer, which keeps its
\* length: its last bytes stay where they were.
Shift(p, k) ==
  [p EXCEPT !.mem = [i \in 1..Len(p.mem) |-> IF i <= p.end - k THEN p.mem[i + k] ELSE p.mem[i]], !.end = p.end - k]

ParseBlank(p) ==
  LET k == SkipBlanks(p.mem, 0, p.end)
      q == Shift(p, k)
      open == At(q.mem, 0)
  IN
  IF k = p.end THEN Wants(p)
  ELSE IF Opens(open)
  THEN ParseFramed([q EXCEPT !.phase = "framed", !.search = 1, !.count = 1, !.quoted = (open = "quote")])
  ELSE ParsePlain([q EXCEPT !.phase = "plain", !.search = 0])

\* The search goes on before the escapes that end what was searched: the first
\* of them may hide the byte that follows.
Resume(mem, i) == Max({j \in 0..i : j = 0 \/ At(mem, j - 1) # "escape"})

Parse(p) ==
  CASE p.phase = "blank" -> ParseBlank(p)
    [] p.phase = "plain" -> ParsePlain(p)
    [] p.phase = "framed" -> ParseFramed([p EXCEPT !.search = Resume(p.mem, p.search)])

-----------------------------------------------------------------------------
(* The consumers *)

Blank == [i \in 1..Limit |-> 0]
Write(mem, from, data) == [i \in 1..Limit |-> IF i - from \in 1..Len(data) THEN data[i - from] ELSE mem[i]]

\* raw_parse() cuts its buffer at the index that the parser yielded, before the
\* next bytes; in the other buffer, which is new for a new document, they are
\* written from this index on.
Filled(data) ==
  IF mode = "chunks" THEN Slice(memory, 0, start) \o data
  ELSE Write(IF phase = "none" THEN Blank ELSE memory, start, data)

\* next(): more bytes for the parser, a new one if there is none.
Feed(data) ==
  LET out == Parse([phase |-> IF phase = "none" THEN "blank" ELSE phase, mem |-> Filled(data),
                    end |-> start + Len(data), search |-> start, count |-> count, quoted |-> quoted])
  IN
  /\ IF out.is = "more"
     THEN /\ memory' = out.p.mem /\ phase' = out.p.phase /\ count' = out.p.count /\ quoted' = out.p.quoted
          /\ start' = IF out.p.phase = "blank" THEN 0 ELSE out.p.end
          /\ rest' = <<>> /\ at' = "receiving"
     ELSE /\ memory' = <<>> /\ phase' = "none" /\ count' = 0 /\ quoted' = FALSE /\ start' = 0
          /\ rest' = out.rest /\ at' = "idle"
  /\ delivered' = IF out.is = "packet" THEN Append(delivered, out.doc) ELSE delivered
  /\ refused' = IF out.is = "overrun" THEN refused \cup out.consumed ELSE refused

\* recv_packet() begins with what the consumer has.  A document that is not
\* valid is delivered as an error, and leaves the same bytes behind.
Call ==
  /\ at = "idle"
  /\ \/ rest # <<>> /\ Feed(rest)
     \/ rest = <<>> /\ at' = "receiving" /\ UNCHANGED <<parser, delivered, refused>>
  /\ UNCHANGED <<wire, received>>

\* The transport gives k bytes.
Receive(k) ==
  /\ at = "receiving" /\ k <= StreamLength - received
  /\ mode = "buffered" => k <= Limit - start
  /\ received' = received + k
  /\ Feed([i \in 1..k |-> received + i])
  /\ UNCHANGED wire

\* The call is cancelled while it waits.
Cancel == at = "receiving" /\ at' = "idle" /\ UNCHANGED <<wire, received, parser, delivered, refused>>

Next == Call \/ Cancel \/ \E k \in 1..StreamLength : Receive(k)
Spec == Init /\ [][Next]_vars

-----------------------------------------------------------------------------
(* Properties *)

\* Where the document that begins at p ends in the stream, read one byte at a
\* time; StreamLength + 1 when its end is not there.
Reader(s, v) ==
  CASE s.escaped -> [s EXCEPT !.escaped = FALSE]
    [] ~s.escaped /\ v = "escape" -> [s EXCEPT !.escaped = TRUE]
    [] ~s.escaped /\ v = "quote" -> [s EXCEPT !.string = ~s.string]
    [] ~s.escaped /\ v = "{" /\ ~s.string -> [s EXCEPT !.depth = s.depth + 1]
    [] ~s.escaped /\ v = "}" /\ ~s.string -> [s EXCEPT !.depth = s.depth - 1]
    [] OTHER -> s
After(p, e) == FoldLeft(Reader, [escaped |-> FALSE, string |-> FALSE, depth |-> 0], SubSeq(stream, p, e))
FirstOf(S) == IF S = {} THEN StreamLength + 1 ELSE Min(S)
EndOf(p) ==
  IF Opens(stream[p])
  THEN FirstOf({e \in p..StreamLength : After(p, e) = [escaped |-> FALSE, string |-> FALSE, depth |-> 0]})
  ELSE FirstOf({e \in p..StreamLength : ~Printable(stream[e])}) - 1

\* A document that is not enclosed is known to be complete with the byte after it.
CompleteAt(p) == IF Opens(stream[p]) THEN EndOf(p) ELSE EndOf(p) + 1

\* Where the document after the one that ends at e begins.
NextStart(e) == FirstOf({p \in (e + 1)..StreamLength : stream[p] # "newline"})
StartAfter(docs) == NextStart(IF docs = <<>> THEN 0 ELSE Last(Last(docs)))

\* Whatever the chunks and whichever parser: until a document is refused for its
\* length, the documents are those of the stream, one after the other (all that
\* was received, for one that begins with a byte that cannot begin anything), and
\* recv_packet() waits only when none is complete.
DocumentsIntact ==
  refused = {} =>
    /\ \A n \in DOMAIN delivered :
         LET doc == delivered[n]
             p == StartAfter(SubSeq(delivered, 1, n - 1))
         IN
         /\ doc = [i \in 1..Len(doc) |-> p + i - 1]
         /\ stream[p] = "control" \/ Last(doc) = EndOf(p)
    /\ at = "receiving" =>
         LET p == StartAfter(delivered) IN p > received \/ CompleteAt(p) > received

\* A document is refused only when it is longer than the limit, or, when it is not
\* enclosed, when it fills the limit before its end is known.
OnlyLongDocumentsRefused ==
  [][refused' # {} /\ refused = {} =>
       LET p == StartAfter(delivered) IN CompleteAt(p) - p + 1 > Limit]_vars

\* The error of a document that is refused leaves for the next call what was
\* received after the bytes it consumed.
RemainderIsTheRest ==
  [][refused' # refused =>
       LET last == Max(refused') IN rest' = [i \in 1..(received' - last) |-> last + i]]_vars
=============================================================================
