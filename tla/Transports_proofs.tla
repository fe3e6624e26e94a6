--------------------------- MODULE Transports_proofs ---------------------------
(***************************************************************************)
(* Proofs about the transports, for any sizes of buffers and of reads, any *)
(* number of bytes, records and events, and any set of tasks that send.    *)
(* Each part has its inductive invariant; a step of the whole is a step of *)
(* one part, which leaves the variables of the others alone.               *)
(***************************************************************************)
EXTENDS MCTransports, SequenceLemmas, FiniteSetTheorems, FunctionTheorems, TLAPS

-----------------------------------------------------------------------------
(* The reader of a stream *)

Increasing(s) == \A i, j \in 1..Len(s) : i < j => s[i] < s[j]
Below(A, B) == \A x \in A, y \in B : x < y

\* A future that has data has some in the buffer, or the end of the stream; the loss of
\* the connection is an end or a failure.
FutureInv ==
  /\ waiter = "data" => buffer # <<>> \/ eof \/ failure
  /\ lost => failure \/ eof

\* The bytes the reader got, those in its buffer and those in the buffer of the protocol
\* follow each other, and with those dropped are all that came, but for a failure.
BytesInv ==
  LET D == Range(delivered) F == Range(filled) B == Range(buffer) IN
  /\ Increasing(delivered) /\ Increasing(filled) /\ Increasing(buffer)
  /\ Below(D, F) /\ Below(D, B) /\ Below(F, B)
  /\ D \cup F \cup B \subseteq 1..sent /\ dropped \subseteq 1..sent
  /\ (D \cup F \cup B) \cap dropped = {}
  /\ ~failure => D \cup F \cup B \cup dropped = 1..sent

ReaderInv == TypeOK /\ NoMissedWakeup /\ WritableBuffer /\ FutureInv /\ BytesInv /\ EofIsReal

\* The elements of a concatenation, and when it is increasing.
LEMMA ConcatRange ==
  ASSUME NEW S, NEW s \in Seq(S), NEW t \in Seq(S)
  PROVE  /\ s \o t \in Seq(S) /\ Len(s \o t) = Len(s) + Len(t)
         /\ Range(s \o t) = Range(s) \cup Range(t)
<1>1. Len(s) \in Nat /\ Len(t) \in Nat /\ DOMAIN s = 1..Len(s) /\ DOMAIN t = 1..Len(t)
  BY LenProperties
<1> DEFINE c == s \o t
<1>2. /\ c \in Seq(S) /\ Len(c) = Len(s) + Len(t)
      /\ \A i \in 1..(Len(s) + Len(t)) : c[i] = IF i <= Len(s) THEN s[i] ELSE t[i - Len(s)]
  BY ConcatProperties
<1>3. DOMAIN c = 1..(Len(s) + Len(t))
  BY <1>2, LenProperties
<1> HIDE DEF c
<1>4. ASSUME NEW x \in Range(c) PROVE x \in Range(s) \cup Range(t)
  <2>1. PICK i \in 1..(Len(s) + Len(t)) : c[i] = x
    BY <1>3 DEF Range
  <2>2. CASE i <= Len(s)
    <3>1. i \in 1..Len(s) /\ s[i] = x
      BY <1>1, <1>2, <2>1, <2>2
    <3> QED BY <1>1, <3>1 DEF Range
  <2>3. CASE i > Len(s)
    <3>1. i - Len(s) \in 1..Len(t) /\ ~(i <= Len(s))
      BY <1>1, <2>3
    <3>2. t[i - Len(s)] = x
      BY <1>2, <2>1, <3>1
    <3> QED BY <1>1, <3>1, <3>2 DEF Range
  <2> QED BY <1>1, <2>2, <2>3
<1>5. ASSUME NEW x \in Range(s) PROVE x \in Range(c)
  <2>1. PICK i \in 1..Len(s) : s[i] = x
    BY <1>1 DEF Range
  <2>2. i \in 1..(Len(s) + Len(t)) /\ i <= Len(s)
    BY <1>1
  <2> QED BY <1>2, <1>3, <2>1, <2>2 DEF Range
<1>6. ASSUME NEW x \in Range(t) PROVE x \in Range(c)
  <2>1. PICK i \in 1..Len(t) : t[i] = x
    BY <1>1 DEF Range
  <2>2. Len(s) + i \in 1..(Len(s) + Len(t)) /\ ~(Len(s) + i <= Len(s)) /\ Len(s) + i - Len(s) = i
    BY <1>1
  <2>3. c[Len(s) + i] = t[i]
    BY <1>2, <2>2
  <2> QED BY <1>3, <2>1, <2>2, <2>3 DEF Range
<1> QED BY <1>2, <1>4, <1>5, <1>6 DEF c

LEMMA ConcatIncreasing ==
  ASSUME NEW s \in Seq(Nat), NEW t \in Seq(Nat)
  PROVE  Increasing(s \o t) <=> Increasing(s) /\ Increasing(t) /\ Below(Range(s), Range(t))
<1>1. /\ Len(s) \in Nat /\ Len(t) \in Nat /\ DOMAIN s = 1..Len(s) /\ DOMAIN t = 1..Len(t)
      /\ \A i \in 1..Len(s) : s[i] \in Nat
      /\ \A i \in 1..Len(t) : t[i] \in Nat
  BY LenProperties, ElementOfSeq
<1> DEFINE c == s \o t
<1>2. /\ Len(c) = Len(s) + Len(t)
      /\ \A i \in 1..(Len(s) + Len(t)) : c[i] = IF i <= Len(s) THEN s[i] ELSE t[i - Len(s)]
  BY ConcatProperties
<1> HIDE DEF c
<1>3. \A i \in 1..Len(s) : i \in 1..Len(c) /\ c[i] = s[i]
  BY <1>1, <1>2
<1>4. \A i \in 1..Len(t) : Len(s) + i \in 1..Len(c) /\ c[Len(s) + i] = t[i]
  <2> TAKE i \in 1..Len(t)
  <2>1. Len(s) + i \in 1..(Len(s) + Len(t)) /\ ~(Len(s) + i <= Len(s)) /\ Len(s) + i - Len(s) = i
    BY <1>1
  <2> QED BY <1>2, <2>1
<1>5. ASSUME Increasing(c) PROVE Increasing(s) /\ Increasing(t) /\ Below(Range(s), Range(t))
  <2>1. Increasing(s)
    BY <1>3, <1>5 DEF Increasing
  <2>2. Increasing(t)
    <3> SUFFICES ASSUME NEW i \in 1..Len(t), NEW j \in 1..Len(t), i < j PROVE t[i] < t[j]
      BY DEF Increasing
    <3>1. Len(s) + i < Len(s) + j
      BY <1>1
    <3>2. c[Len(s) + i] < c[Len(s) + j]
      BY <1>4, <1>5, <3>1 DEF Increasing
    <3> QED BY <1>4, <3>2
  <2>3. Below(Range(s), Range(t))
    <3> SUFFICES ASSUME NEW i \in 1..Len(s), NEW j \in 1..Len(t) PROVE s[i] < t[j]
      BY <1>1 DEF Below, Range
    <3>1. i < Len(s) + j
      BY <1>1
    <3>2. c[i] < c[Len(s) + j]
      BY <1>3, <1>4, <1>5, <3>1 DEF Increasing
    <3> QED BY <1>3, <1>4, <3>2
  <2> QED BY <2>1, <2>2, <2>3
<1>6. ASSUME Increasing(s), Increasing(t), Below(Range(s), Range(t)) PROVE Increasing(c)
  <2> SUFFICES ASSUME NEW i \in 1..Len(c), NEW j \in 1..Len(c), i < j PROVE c[i] < c[j]
    BY DEF Increasing
  <2>1. CASE j <= Len(s)
    <3>1. i \in 1..Len(s) /\ j \in 1..Len(s)
      BY <1>1, <1>2, <2>1
    <3> QED BY <1>3, <1>6, <3>1 DEF Increasing
  <2>2. CASE i <= Len(s) /\ j > Len(s)
    <3>1. i \in 1..Len(s) /\ j - Len(s) \in 1..Len(t) /\ Len(s) + (j - Len(s)) = j
      BY <1>1, <1>2, <2>2
    <3>2. c[i] = s[i] /\ c[j] = t[j - Len(s)]
      BY <1>3, <1>4, <3>1
    <3>3. s[i] \in Range(s) /\ t[j - Len(s)] \in Range(t)
      BY <1>1, <3>1 DEF Range
    <3> QED BY <1>6, <3>2, <3>3 DEF Below
  <2>3. CASE i > Len(s)
    <3>1. /\ i - Len(s) \in 1..Len(t) /\ j - Len(s) \in 1..Len(t) /\ i - Len(s) < j - Len(s)
          /\ Len(s) + (i - Len(s)) = i /\ Len(s) + (j - Len(s)) = j
      BY <1>1, <1>2, <2>3
    <3>2. c[i] = t[i - Len(s)] /\ c[j] = t[j - Len(s)]
      BY <1>4, <3>1
    <3> QED BY <1>6, <3>1, <3>2 DEF Increasing
  <2> QED BY <1>1, <1>2, <2>1, <2>2, <2>3
<1> QED BY <1>5, <1>6 DEF c

\* The bytes that arrive are the next ones.
LEMMA ArrivingBytes ==
  ASSUME sent \in 0..MaxBytes, NEW k \in 1..MaxBytes, sent + k <= MaxBytes
  PROVE  /\ Arriving(k) \in Seq(1..MaxBytes) /\ Len(Arriving(k)) = k /\ Arriving(k) # <<>>
         /\ Range(Arriving(k)) = (sent + 1)..(sent + k) /\ Increasing(Arriving(k))
<1>1. MaxBytes \in Nat /\ sent \in Nat /\ k \in Nat \ {0}
  BY SizesAndBound
<1>2. /\ Arriving(k) = [i \in 1..k |-> sent + i] /\ DOMAIN Arriving(k) = 1..k
      /\ \A i \in 1..k : Arriving(k)[i] = sent + i
  BY DEF Arriving
<1>3. Arriving(k) \in [1..k -> 1..MaxBytes]
  BY <1>1, <1>2
<1>4. Arriving(k) \in Seq(1..MaxBytes)
  BY <1>1, <1>3, SeqDef
<1>5. Len(Arriving(k)) = k
  BY <1>1, <1>2, <1>4, LenProperties
<1>6. Range(Arriving(k)) = (sent + 1)..(sent + k)
  <2>1. ASSUME NEW x \in Range(Arriving(k)) PROVE x \in (sent + 1)..(sent + k)
    <3>1. PICK i \in 1..k : x = sent + i
      BY <1>2 DEF Range
    <3> QED BY <1>1, <3>1
  <2>2. ASSUME NEW x \in (sent + 1)..(sent + k) PROVE x \in Range(Arriving(k))
    <3>1. x - sent \in 1..k /\ sent + (x - sent) = x
      BY <1>1
    <3> QED BY <1>2, <3>1 DEF Range
  <2> QED BY <2>1, <2>2
<1>7. Increasing(Arriving(k))
  BY <1>1, <1>2, <1>5 DEF Increasing
<1> QED BY <1>1, <1>4, <1>5, <1>6, <1>7, EmptySeq

\* The empty sequence of bytes.
LEMMA NoBytes ==
  /\ <<>> \in Seq(1..MaxBytes) /\ Len(<<>>) = 0 /\ Range(<<>>) = {} /\ Increasing(<<>>)
<1>1. <<>> \in Seq(1..MaxBytes) /\ Len(<<>>) = 0 /\ DOMAIN <<>> = {}
  BY EmptySeq
<1> QED BY <1>1 DEF Range, Increasing

\* What is taken from the front of the buffer, and the rest.
LEMMA CutBuffer ==
  ASSUME NEW S, NEW s \in Seq(S), NEW n \in 0..Len(s)
  PROVE  /\ SubSeq(s, 1, n) \in Seq(S) /\ Len(SubSeq(s, 1, n)) = n
         /\ SubSeq(s, n + 1, Len(s)) \in Seq(S) /\ Len(SubSeq(s, n + 1, Len(s))) = Len(s) - n
         /\ SubSeq(s, 1, n) \o SubSeq(s, n + 1, Len(s)) = s
<1> DEFINE l == SubSeq(s, 1, n)
           r == SubSeq(s, n + 1, Len(s))
<1>0. Len(s) \in Nat /\ DOMAIN s = 1..Len(s) /\ \A i \in 1..Len(s) : s[i] \in S
  BY LenProperties, ElementOfSeq
<1>1. l \in Seq(S) /\ Len(l) = n /\ \A i \in 1..n : l[i] = s[i]
  <2>1. n \in Nat /\ 1 \in Int /\ n \in Int /\ \A i \in 1..n : s[i] \in S
    BY <1>0
  <2>2. /\ l \in Seq(S) /\ Len(l) = IF 1 <= n THEN n - 1 + 1 ELSE 0
        /\ \A i \in 1..(n - 1 + 1) : l[i] = s[1 + i - 1]
    BY <2>1, SubSeqProperties
  <2> HIDE DEF l
  <2> QED BY <2>1, <2>2
<1>2. r \in Seq(S) /\ Len(r) = Len(s) - n /\ \A i \in 1..(Len(s) - n) : r[i] = s[n + i]
  <2>1. n \in Nat /\ n <= Len(s) /\ n + 1 \in Int /\ Len(s) \in Int /\ \A i \in (n + 1)..Len(s) : s[i] \in S
    BY <1>0
  <2>2. /\ r \in Seq(S) /\ Len(r) = IF n + 1 <= Len(s) THEN Len(s) - (n + 1) + 1 ELSE 0
        /\ \A i \in 1..(Len(s) - (n + 1) + 1) : r[i] = s[(n + 1) + i - 1]
    BY <1>0, <2>1, SubSeqProperties
  <2> HIDE DEF r
  <2>3. Len(r) = Len(s) - n
    <3>1. Len(s) \in Nat /\ n \in Nat /\ n <= Len(s)
      BY <1>0
    <3>2. Len(r) = IF n + 1 <= Len(s) THEN Len(s) - (n + 1) + 1 ELSE 0
      BY <2>2
    <3> QED BY <3>1, <3>2
  <2>4. ASSUME NEW i \in 1..(Len(s) - n) PROVE r[i] = s[n + i]
    <3>1. i \in 1..(Len(s) - (n + 1) + 1) /\ (n + 1) + i - 1 = n + i
      BY <1>0, <2>1
    <3> QED BY <2>2, <3>1
  <2> QED BY <2>2, <2>3, <2>4
<1> HIDE DEF l, r
<1> DEFINE c == l \o r
<1>3. /\ c \in Seq(S) /\ Len(c) = Len(l) + Len(r)
      /\ \A i \in 1..(Len(l) + Len(r)) : c[i] = IF i <= Len(l) THEN l[i] ELSE r[i - Len(l)]
  BY <1>1, <1>2, ConcatProperties
<1> HIDE DEF c
<1>4. n \in Nat /\ Len(l) = n /\ Len(l) + Len(r) = Len(s)
  BY <1>0, <1>1, <1>2
<1>5. ASSUME NEW i \in 1..Len(s) PROVE c[i] = s[i]
  <2>1. CASE i <= n
    BY <1>0, <1>1, <1>3, <1>4, <2>1
  <2>2. CASE i > n
    <3>1. i - n \in 1..(Len(s) - n) /\ n + (i - n) = i /\ ~(i <= n)
      BY <1>0, <2>2
    <3> QED BY <1>2, <1>3, <1>4, <3>1
  <2>3. i <= n \/ i > n
    BY <1>4
  <2> QED BY <2>1, <2>2, <2>3
<1>6. c = s
  BY <1>3, <1>4, <1>5, SeqEqual
<1> QED BY <1>1, <1>2, <1>6 DEF l, r, c

-----------------------------------------------------------------------------
(* Steps of the reader *)

\* The bytes that somebody has yet, and what their places say.
LEMMA BytesTyped ==
  ASSUME TypeOK
  PROVE  /\ MaxBytes \in Nat /\ sent \in Nat /\ 1..MaxBytes \subseteq Nat
         /\ delivered \in Seq(Nat) /\ filled \in Seq(Nat) /\ buffer \in Seq(Nat)
         /\ Len(buffer) \in Nat
<1>1. MaxBytes \in Nat /\ 1..MaxBytes \subseteq Nat
  BY SizesAndBound
<1>2. \A s \in Seq(1..MaxBytes) : s \in Seq(Nat) /\ Len(s) \in Nat
  <2> TAKE s \in Seq(1..MaxBytes)
  <2>1. Len(s) \in Nat /\ s \in [1..Len(s) -> 1..MaxBytes]
    BY LenProperties
  <2>2. s \in [1..Len(s) -> Nat]
    BY <1>1, <2>1
  <2> QED BY <2>1, <2>2, SeqDef
<1> QED BY <1>1, <1>2 DEF TypeOK

LEMMA ReaderInit == Init => ReaderInv
<1> SUFFICES ASSUME Init PROVE ReaderInv
  OBVIOUS
<1>1. MaxSize \in Nat /\ MaxBytes \in Nat /\ MaxSize > 0 /\ LowWater \in Nat
  BY WaterMarks, SizesAndBound
<1>2. buffer = <<>> /\ filled = <<>> /\ delivered = <<>> /\ sent = 0 /\ dropped = {}
  BY DEF Init
<1>3. TypeOK
  <2>1. buffer \in Seq(1..MaxBytes) /\ filled \in Seq(1..MaxBytes) /\ delivered \in Seq(1..MaxBytes) /\ Len(buffer) <= MaxSize
    BY <1>1, <1>2, NoBytes
  <2>2. {readPaused, lost, failure, eof, cancelling} \subseteq BOOLEAN
    BY DEF Init
  <2>3. sent \in 0..MaxBytes /\ dropped \subseteq 1..MaxBytes /\ outcome \in Outcomes
    BY <1>1, <1>2 DEF Init, Outcomes
  <2>4. waiter = "none" /\ external = 0 /\ reader = "idle" /\ request \in Requests /\ ~failure
    BY DEF Init
  <2> QED BY <1>2, <2>1, <2>2, <2>3, <2>4 DEF TypeOK
<1>4. NoMissedWakeup /\ WritableBuffer
  BY <1>1, <1>2, NoBytes DEF Init, NoMissedWakeup, WritableBuffer, RoomToRead
<1>5. FutureInv /\ EofIsReal
  BY DEF Init, FutureInv, EofIsReal
<1>6. BytesInv
  <2>1. 1..sent = {}
    BY <1>2
  <2> QED BY <1>2, <2>1, NoBytes DEF BytesInv, Below
<1> QED BY <1>3, <1>4, <1>5, <1>6 DEF ReaderInv

\* The bytes are where they were.
LEMMA BytesKept ==
  ASSUME BytesInv, UNCHANGED <<delivered, filled, buffer, sent, dropped>>, failure => failure'
  PROVE  BytesInv'
BY DEF BytesInv, Increasing, Below

\* New bytes come behind the others.
LEMMA BytesBehind ==
  ASSUME TypeOK, BytesInv, NEW k \in 1..MaxBytes, sent + k <= MaxBytes
  PROVE  /\ Below(Range(delivered), Range(Arriving(k))) /\ Below(Range(filled), Range(Arriving(k)))
         /\ Below(Range(buffer), Range(Arriving(k)))
         /\ 1..sent \subseteq 1..(sent + k) /\ Range(Arriving(k)) \subseteq 1..(sent + k)
         /\ 1..sent \cup Range(Arriving(k)) = 1..(sent + k) /\ 1..sent \cap Range(Arriving(k)) = {}
<1>1. sent \in Nat /\ k \in Nat /\ sent \in 0..MaxBytes
  BY BytesTyped DEF TypeOK
<1>2. Range(Arriving(k)) = (sent + 1)..(sent + k)
  BY <1>1, ArrivingBytes
<1>3. \A x \in 1..sent, y \in (sent + 1)..(sent + k) : x < y
  BY <1>1
<1>4. /\ 1..sent \subseteq 1..(sent + k) /\ (sent + 1)..(sent + k) \subseteq 1..(sent + k)
      /\ 1..sent \cup (sent + 1)..(sent + k) = 1..(sent + k) /\ 1..sent \cap (sent + 1)..(sent + k) = {}
  BY <1>1
<1>5. Range(delivered) \cup Range(filled) \cup Range(buffer) \subseteq 1..sent
  BY DEF BytesInv
<1> QED BY <1>2, <1>3, <1>4, <1>5 DEF Below

LEMMA ReaderDataExternal ==
  ASSUME ReaderInv, NEW k \in 1..MaxBytes, DataReceived(k), FillExternal(k)
  PROVE  ReaderInv'
<1>1. TypeOK /\ NoMissedWakeup /\ WritableBuffer /\ FutureInv /\ BytesInv /\ EofIsReal
  BY DEF ReaderInv
<1>2. /\ ~lost /\ ~eof /\ ~readPaused /\ sent + k <= MaxBytes /\ sent' = sent + k
      /\ external > 0 /\ external' = 0 /\ waiter' = Woken("filled")
      /\ UNCHANGED <<lost, failure, eof, reader, request, cancelling, delivered, outcome, buffer, readPaused>>
  BY DEF DataReceived, FillExternal, ExternalDone
<1>3. /\ Arriving(k) \in Seq(1..MaxBytes) /\ Arriving(k) # <<>>
      /\ Range(Arriving(k)) = (sent + 1)..(sent + k) /\ Increasing(Arriving(k))
  BY <1>1, <1>2, ArrivingBytes DEF TypeOK
<1>4. /\ sent \in Nat /\ MaxBytes \in Nat /\ k \in Nat \ {0} /\ sent' \in 0..MaxBytes
  BY <1>1, <1>2, BytesTyped
<1>5. ~failure /\ outcome # "eof"
  BY <1>1, <1>2 DEF TypeOK, EofIsReal
<1>6. reader = "waiting" /\ request.into
  BY <1>1, <1>2 DEF WritableBuffer
<1>7. CASE waiter = "pending"
  <2>1. filled' = Arriving(k) /\ dropped' = dropped /\ waiter' = "filled"
    BY <1>2, <1>7 DEF FillExternal, Woken
  <2>2. buffer = <<>> /\ filled = <<>>
    BY <1>1, <1>7 DEF NoMissedWakeup, TypeOK
  <2>3. TypeOK'
    BY <1>1, <1>2, <1>3, <1>4, <1>6, <2>1 DEF TypeOK
  <2>4. NoMissedWakeup' /\ WritableBuffer' /\ FutureInv' /\ EofIsReal'
    BY <1>1, <1>2, <1>5, <2>1 DEF NoMissedWakeup, WritableBuffer, RoomToRead, FutureInv, EofIsReal
  <2>5. BytesInv'
    <3>1. Range(buffer) = {} /\ Range(filled) = {}
      BY <2>2, NoBytes
    <3>2. /\ Below(Range(delivered), Range(Arriving(k)))
          /\ 1..sent \subseteq 1..(sent + k) /\ Range(Arriving(k)) \subseteq 1..(sent + k)
          /\ 1..sent \cup Range(Arriving(k)) = 1..(sent + k) /\ 1..sent \cap Range(Arriving(k)) = {}
      BY <1>1, <1>2, BytesBehind
    <3>3. /\ Increasing(delivered) /\ Increasing(buffer)
          /\ Range(delivered) \subseteq 1..sent /\ dropped \subseteq 1..sent /\ Range(delivered) \cap dropped = {}
          /\ Range(delivered) \cup dropped = 1..sent
      BY <1>1, <1>5, <3>1 DEF BytesInv
    <3> DEFINE A == Range(Arriving(k))
    <3> HIDE DEF A
    <3>4. /\ Range(delivered) \cup A \cup {} \subseteq 1..(sent + k) /\ dropped \subseteq 1..(sent + k)
          /\ (Range(delivered) \cup A \cup {}) \cap dropped = {}
          /\ Range(delivered) \cup A \cup {} \cup dropped = 1..(sent + k)
      BY <3>2, <3>3 DEF A
    <3>5. /\ Increasing(delivered') /\ Increasing(filled') /\ Increasing(buffer')
      BY <1>2, <1>3, <2>1, <3>3 DEF Increasing
    <3>6. Range(delivered') = Range(delivered) /\ Range(filled') = A /\ Range(buffer') = {} /\ sent' = sent + k /\ dropped' = dropped
      BY <1>2, <2>1, <3>1 DEF A
    <3>7. Below(Range(delivered'), Range(filled')) /\ Below(Range(delivered'), Range(buffer')) /\ Below(Range(filled'), Range(buffer'))
      BY <3>2, <3>6 DEF Below, A
    <3> QED BY <3>4, <3>5, <3>6, <3>7 DEF BytesInv
  <2> QED BY <2>3, <2>4, <2>5 DEF ReaderInv
<1>8. CASE waiter # "pending"
  <2>1. filled' = filled /\ dropped' = dropped \cup Range(Arriving(k)) /\ waiter' = waiter
    BY <1>2, <1>8 DEF FillExternal, Woken
  <2>2. dropped' \subseteq 1..MaxBytes
    <3>1. \A x \in (sent + 1)..(sent + k) : x \in 1..MaxBytes
      BY <1>2, <1>4
    <3> QED BY <1>1, <1>3, <2>1, <3>1 DEF TypeOK
  <2>3. TypeOK'
    BY <1>1, <1>2, <1>4, <2>1, <2>2 DEF TypeOK
  <2>4. NoMissedWakeup' /\ WritableBuffer' /\ FutureInv' /\ EofIsReal'
    BY <1>1, <1>2, <1>5, <1>8, <2>1 DEF NoMissedWakeup, WritableBuffer, RoomToRead, FutureInv, EofIsReal
  <2>5. BytesInv'
    <3> DEFINE D == Range(delivered)
               F == Range(filled)
               B == Range(buffer)
               A == Range(Arriving(k))
    <3>1. /\ 1..sent \subseteq 1..(sent + k) /\ A \subseteq 1..(sent + k)
          /\ 1..sent \cup A = 1..(sent + k) /\ 1..sent \cap A = {}
      BY <1>1, <1>2, BytesBehind
    <3>2. /\ D \cup F \cup B \subseteq 1..sent /\ dropped \subseteq 1..sent
          /\ (D \cup F \cup B) \cap dropped = {} /\ D \cup F \cup B \cup dropped = 1..sent
      BY <1>1, <1>5 DEF BytesInv
    <3>3. Range(delivered') = D /\ Range(filled') = F /\ Range(buffer') = B
      BY <1>2, <2>1
    <3>4. Increasing(delivered') /\ Increasing(filled') /\ Increasing(buffer')
      BY <1>1, <1>2, <2>1 DEF BytesInv, Increasing
    <3>5. Below(D, F) /\ Below(D, B) /\ Below(F, B)
      BY <1>1 DEF BytesInv
    <3> HIDE DEF A, D, F, B
    <3>6. /\ D \cup F \cup B \subseteq 1..(sent + k) /\ dropped \cup A \subseteq 1..(sent + k)
          /\ (D \cup F \cup B) \cap (dropped \cup A) = {} /\ D \cup F \cup B \cup (dropped \cup A) = 1..(sent + k)
      BY <3>1, <3>2
    <3>7. sent' = sent + k /\ dropped' = dropped \cup A
      BY <1>2, <2>1 DEF A
    <3> QED BY <3>3, <3>4, <3>5, <3>6, <3>7 DEF BytesInv
  <2> QED BY <2>3, <2>4, <2>5 DEF ReaderInv
<1> QED BY <1>7, <1>8

LEMMA ReaderDataInternal ==
  ASSUME ReaderInv, NEW k \in 1..MaxBytes, DataReceived(k), FillInternal(k)
  PROVE  ReaderInv'
<1>1. TypeOK /\ NoMissedWakeup /\ WritableBuffer /\ FutureInv /\ BytesInv /\ EofIsReal
  BY DEF ReaderInv
<1> DEFINE c == buffer \o Arriving(k)
<1>2. /\ ~lost /\ ~eof /\ ~readPaused /\ sent + k <= MaxBytes /\ sent' = sent + k
      /\ external = 0 /\ k <= MaxSize - Len(buffer) /\ buffer' = c /\ waiter' = Woken("data")
      /\ readPaused' = (readPaused \/ MustPause(Len(buffer')))
      /\ UNCHANGED <<lost, failure, eof, reader, request, cancelling, delivered, outcome, external, filled, dropped>>
  BY DEF DataReceived, FillInternal
<1>3. /\ Arriving(k) \in Seq(1..MaxBytes) /\ Arriving(k) # <<>> /\ Len(Arriving(k)) = k
      /\ Increasing(Arriving(k))
  BY <1>1, <1>2, ArrivingBytes DEF TypeOK
<1>4. /\ sent \in Nat /\ MaxBytes \in Nat /\ k \in Nat \ {0} /\ sent' \in 0..MaxBytes /\ Len(buffer) \in Nat
  BY <1>1, <1>2, BytesTyped
<1>5. ~failure /\ outcome # "eof"
  BY <1>1, <1>2 DEF TypeOK, EofIsReal
<1>6. c \in Seq(1..MaxBytes) /\ Len(c) = Len(buffer) + k /\ Range(c) = Range(buffer) \cup Range(Arriving(k))
  <2>1. buffer \in Seq(1..MaxBytes)
    BY <1>1 DEF TypeOK
  <2>2. PICK S : S = 1..MaxBytes
    OBVIOUS
  <2>3. buffer \in Seq(S) /\ Arriving(k) \in Seq(S)
    BY <1>3, <2>1, <2>2
  <2>4. c \in Seq(S) /\ Len(c) = Len(buffer) + Len(Arriving(k)) /\ Range(c) = Range(buffer) \cup Range(Arriving(k))
    BY <2>3, ConcatRange, Zenon
  <2> QED BY <1>3, <2>2, <2>4
<1>7. Below(Range(buffer), Range(Arriving(k)))
  BY <1>1, <1>2, BytesBehind
<1>8. Increasing(c)
  <2>1. buffer \in Seq(Nat) /\ Arriving(k) \in Seq(Nat)
    <3>1. Arriving(k) \in [1..k -> Nat]
      BY <1>4 DEF Arriving
    <3> QED BY <1>1, <1>4, <3>1, BytesTyped, SeqDef
  <2>2. Increasing(buffer)
    BY <1>1 DEF BytesInv
  <2> QED BY <1>3, <1>7, <2>1, <2>2, ConcatIncreasing
<1> HIDE DEF c
<1>9. Len(c) <= MaxSize /\ Len(c) \in Nat \ {0} /\ c # <<>>
  <2>1. Len(c) <= MaxSize /\ Len(c) \in Nat \ {0}
    BY <1>2, <1>4, <1>6, WaterMarks
  <2> QED BY <2>1, NoBytes
<1>10. TypeOK'
  <2>1. waiter' \in {waiter, "data"} /\ (waiter' = "none" <=> waiter = "none")
        /\ (waiter' = "filled" <=> waiter = "filled") /\ (waiter' = "cancelled" <=> waiter = "cancelled")
    BY <1>2 DEF Woken
  <2>2. readPaused' \in BOOLEAN
    BY <1>2 DEF MustPause
  <2> QED BY <1>1, <1>2, <1>4, <1>6, <1>9, <2>1, <2>2 DEF TypeOK
<1>11. NoMissedWakeup' /\ FutureInv' /\ EofIsReal'
  BY <1>1, <1>2, <1>5, <1>9 DEF NoMissedWakeup, FutureInv, EofIsReal, Woken
<1>12. WritableBuffer'
  <2>0. readPaused' <=> Len(c) >= HighWater
    BY <1>2 DEF MustPause
  <2>1. ~readPaused' => Len(buffer') < MaxSize
    BY <1>2, <1>9, <2>0, WaterMarks
  <2>2. readPaused' => Len(buffer') > LowWater
    BY <1>2, <1>9, <2>0, WaterMarks
  <2>3. ~(external' > 0)
    BY <1>2
  <2> QED BY <2>1, <2>2, <2>3 DEF WritableBuffer, RoomToRead
<1>13. BytesInv'
  <2> DEFINE D == Range(delivered)
             F == Range(filled)
             B == Range(buffer)
             A == Range(Arriving(k))
  <2>1. /\ Below(D, A) /\ Below(F, A) /\ Below(B, A)
        /\ 1..sent \subseteq 1..(sent + k) /\ A \subseteq 1..(sent + k)
        /\ 1..sent \cup A = 1..(sent + k) /\ 1..sent \cap A = {}
    BY <1>1, <1>2, BytesBehind
  <2>2. /\ D \cup F \cup B \subseteq 1..sent /\ dropped \subseteq 1..sent
        /\ (D \cup F \cup B) \cap dropped = {} /\ D \cup F \cup B \cup dropped = 1..sent
    BY <1>1, <1>5 DEF BytesInv
  <2>3. Range(delivered') = D /\ Range(filled') = F /\ Range(buffer') = B \cup A
    BY <1>2, <1>6
  <2>4. Increasing(delivered') /\ Increasing(filled') /\ Increasing(buffer')
    BY <1>1, <1>2, <1>8 DEF BytesInv, Increasing
  <2>5. Below(D, F) /\ Below(D, B) /\ Below(F, B)
    BY <1>1 DEF BytesInv
  <2> HIDE DEF A, D, F, B
  <2>6. /\ D \cup F \cup (B \cup A) \subseteq 1..(sent + k) /\ dropped \subseteq 1..(sent + k)
        /\ (D \cup F \cup (B \cup A)) \cap dropped = {} /\ D \cup F \cup (B \cup A) \cup dropped = 1..(sent + k)
    BY <2>1, <2>2
  <2>7. Below(D, F) /\ Below(D, B \cup A) /\ Below(F, B \cup A)
    BY <2>1, <2>5 DEF Below
  <2>8. sent' = sent + k /\ dropped' = dropped
    BY <1>2
  <2> QED BY <2>3, <2>4, <2>6, <2>7, <2>8 DEF BytesInv
<1> QED BY <1>10, <1>11, <1>12, <1>13 DEF ReaderInv

LEMMA ReaderEof ==
  ASSUME ReaderInv, EofReceived
  PROVE  ReaderInv'
<1>1. TypeOK /\ NoMissedWakeup /\ WritableBuffer /\ FutureInv /\ BytesInv /\ EofIsReal
  BY DEF ReaderInv
<1>2. /\ ~lost /\ ~eof /\ external' = 0 /\ eof' = TRUE /\ waiter' = Woken("data")
      /\ UNCHANGED <<buffer, filled, readPaused, lost, failure, reader, request, cancelling, sent, delivered, outcome, dropped>>
  BY DEF EofReceived, WokenByEof, history
<1>3. TypeOK'
  BY <1>1, <1>2 DEF TypeOK, Woken
<1>4. NoMissedWakeup' /\ WritableBuffer' /\ FutureInv' /\ EofIsReal'
  BY <1>1, <1>2 DEF NoMissedWakeup, WritableBuffer, RoomToRead, FutureInv, EofIsReal, Woken
<1>5. BytesInv'
  BY <1>1, <1>2, BytesKept
<1> QED BY <1>3, <1>4, <1>5 DEF ReaderInv

\* What is dropped with the buffer is reported as a failure.
LEMMA ReaderLost ==
  ASSUME ReaderInv, NEW error \in BOOLEAN, ConnectionLost(error)
  PROVE  ReaderInv'
<1>1. TypeOK /\ NoMissedWakeup /\ WritableBuffer /\ FutureInv /\ BytesInv /\ EofIsReal
  BY DEF ReaderInv
<1>2. /\ ~lost /\ lost' = TRUE /\ readPaused' = FALSE /\ failure' = LossIsFailure(error)
      /\ eof' = (eof \/ ~LossIsFailure(error)) /\ buffer' = <<>>
      /\ waiter' = Woken(IF LossIsFailure(error) THEN "failed" ELSE "data")
      /\ UNCHANGED <<external, filled, reader, request, cancelling, sent, delivered, outcome, dropped>>
  BY DEF ConnectionLost, history
<1>3. LossIsFailure(error) \in BOOLEAN /\ eof' \in BOOLEAN
  BY <1>2 DEF LossIsFailure
<1>4. TypeOK'
  <2>1. buffer' \in Seq(1..MaxBytes) /\ Len(buffer') <= MaxSize
    BY <1>2, NoBytes, WaterMarks
  <2>2. {readPaused', lost', failure', eof', cancelling'} \subseteq BOOLEAN
    BY <1>1, <1>2, <1>3 DEF TypeOK
  <2>3. /\ waiter' \in {waiter, "failed", "data"} /\ (waiter' = "none" <=> waiter = "none")
        /\ (waiter' = "filled" <=> waiter = "filled") /\ (waiter' = "cancelled" <=> waiter = "cancelled")
    BY <1>2 DEF Woken
  <2> QED BY <1>1, <1>2, <2>1, <2>2, <2>3 DEF TypeOK
<1>5. failure' \/ eof'
  BY <1>2
<1>6. NoMissedWakeup' /\ FutureInv'
  BY <1>1, <1>2, <1>5 DEF NoMissedWakeup, FutureInv, Woken
<1>7. WritableBuffer'
  BY <1>1, <1>2 DEF WritableBuffer, RoomToRead
<1>8. EofIsReal'
  BY <1>1, <1>2 DEF EofIsReal
<1>9. BytesInv'
  <2> DEFINE D == Range(delivered)
             F == Range(filled)
             B == Range(buffer)
  <2>1. ~failure' => ~failure /\ buffer = <<>>
    BY <1>1, <1>2 DEF TypeOK, LossIsFailure
  <2>2. Range(delivered') = D /\ Range(filled') = F /\ Range(buffer') = {} /\ sent' = sent /\ dropped' = dropped
    BY <1>2, NoBytes
  <2>3. Increasing(delivered') /\ Increasing(filled') /\ Increasing(buffer')
    BY <1>1, <1>2, NoBytes DEF BytesInv, Increasing
  <2>4. buffer = <<>> => B = {}
    BY NoBytes
  <2>5. /\ Below(D, F) /\ D \cup F \cup B \subseteq 1..sent /\ dropped \subseteq 1..sent
        /\ (D \cup F \cup B) \cap dropped = {} /\ (~failure => D \cup F \cup B \cup dropped = 1..sent)
    BY <1>1 DEF BytesInv
  <2> HIDE DEF D, F, B
  <2>6. /\ D \cup F \cup {} \subseteq 1..sent /\ (D \cup F \cup {}) \cap dropped = {}
        /\ ~failure' => D \cup F \cup {} \cup dropped = 1..sent
    BY <2>1, <2>4, <2>5
  <2>7. Below(D, {}) /\ Below(F, {})
    BY DEF Below
  <2> QED BY <2>2, <2>3, <2>5, <2>6, <2>7 DEF BytesInv
<1> QED BY <1>4, <1>6, <1>7, <1>8, <1>9 DEF ReaderInv

\* receive_data() waits only for a connection that is there and is read.
LEMMA ReaderReceives ==
  ASSUME ReaderInv, NEW q \in Requests, Receive(q)
  PROVE  ReaderInv'
<1>1. TypeOK /\ NoMissedWakeup /\ WritableBuffer /\ FutureInv /\ BytesInv /\ EofIsReal
  BY DEF ReaderInv
<1>2. UNCHANGED <<buffer, readPaused, lost, failure, eof, filled, cancelling, sent, delivered, dropped>>
  BY DEF Receive
<1>3. BytesInv'
  BY <1>1, <1>2, BytesKept
<1>4. reader = "idle" /\ waiter = "none" /\ filled = <<>> /\ external \in {0} \cup ReadSizes
  BY <1>1 DEF Receive, TypeOK
<1>5. ReadSizes \subseteq Nat \ {0} /\ q.size \in ReadSizes /\ q.into \in BOOLEAN
  BY SizesAndBound DEF Requests
<1>6. external = 0
  BY <1>1, <1>4, <1>5 DEF WritableBuffer
<1>7. CASE failure
  <2>1. outcome' = "error" /\ UNCHANGED <<external, waiter, reader, request>>
    BY <1>7 DEF Receive
  <2> QED BY <1>1, <1>2, <1>3, <2>1 DEF ReaderInv, TypeOK, NoMissedWakeup, WritableBuffer, RoomToRead, FutureInv, EofIsReal, Outcomes
<1>8. CASE ~failure
  <2>1. /\ request' = q /\ outcome' = "none"
        /\ IF buffer # <<>> \/ eof
             THEN waiter' = "data" /\ reader' = "yielding" /\ UNCHANGED external
             ELSE /\ waiter' = "pending" /\ reader' = "waiting"
                  /\ external' = IF q.into THEN q.size ELSE 0
    BY <1>8 DEF Receive
  <2>2. EofIsReal'
    BY <2>1 DEF EofIsReal
  <2>3. CASE buffer # <<>> \/ eof
    <3>1. TypeOK'
      BY <1>1, <1>2, <1>4, <1>6, <2>1, <2>3 DEF TypeOK, Outcomes
    <3>2. NoMissedWakeup' /\ FutureInv'
      BY <1>1, <1>2, <2>1, <2>3 DEF NoMissedWakeup, FutureInv
    <3>3. WritableBuffer'
      BY <1>1, <1>2, <1>6, <2>1, <2>3 DEF WritableBuffer, RoomToRead
    <3> QED BY <1>3, <2>2, <3>1, <3>2, <3>3 DEF ReaderInv
  <2>4. CASE buffer = <<>> /\ ~eof
    <3>1. external' \in {0} \cup ReadSizes
      BY <1>5, <2>1, <2>4
    <3>2. TypeOK'
      BY <1>1, <1>2, <1>4, <2>1, <2>4, <3>1 DEF TypeOK, Outcomes
    <3>3. ~lost
      BY <1>1, <1>8, <2>4 DEF FutureInv
    <3>4. ~readPaused
      <4>1. Len(buffer) = 0
        BY <2>4, NoBytes
      <4> QED BY <1>1, <4>1, WaterMarks DEF WritableBuffer, RoomToRead
    <3>5. NoMissedWakeup' /\ FutureInv'
      BY <1>1, <1>2, <2>1, <2>4, <3>3, <3>4 DEF NoMissedWakeup, FutureInv
    <3>6. WritableBuffer'
      BY <1>1, <1>2, <2>1, <2>4 DEF WritableBuffer, RoomToRead
    <3> QED BY <1>3, <2>2, <3>2, <3>5, <3>6 DEF ReaderInv
  <2> QED BY <2>3, <2>4
<1> QED BY <1>7, <1>8

\* What the return of a call leaves alone.
LEMMA ReaderResumes ==
  ASSUME ReaderInv, Resumed,
         buffer' \in Seq(1..MaxBytes), Len(buffer') <= MaxSize, delivered' \in Seq(1..MaxBytes),
         readPaused' \in BOOLEAN, outcome' \in Outcomes, RoomToRead'
  PROVE  TypeOK' /\ NoMissedWakeup' /\ WritableBuffer' /\ FutureInv'
<1>1. TypeOK /\ FutureInv
  BY DEF ReaderInv
<1>2. /\ waiter' = "none" /\ reader' = "idle" /\ external' = 0 /\ filled' = <<>>
      /\ UNCHANGED <<lost, failure, eof, request, cancelling, sent, dropped>>
  BY DEF Resumed
<1>3. TypeOK'
  BY <1>1, <1>2, NoBytes DEF TypeOK
<1>4. NoMissedWakeup' /\ FutureInv'
  BY <1>1, <1>2 DEF NoMissedWakeup, FutureInv
<1>5. WritableBuffer'
  BY <1>2 DEF WritableBuffer
<1> QED BY <1>3, <1>4, <1>5

LEMMA ReaderReturnsFilled ==
  ASSUME ReaderInv, ReturnFilled
  PROVE  ReaderInv'
<1>1. TypeOK /\ NoMissedWakeup /\ WritableBuffer /\ FutureInv /\ BytesInv /\ EofIsReal
  BY DEF ReaderInv
<1> DEFINE c == delivered \o filled
<1>2. /\ Resumed /\ waiter = "filled" /\ delivered' = c /\ outcome' = "data" /\ filled' = <<>>
      /\ UNCHANGED <<buffer, readPaused, sent, dropped, lost, failure>>
  BY DEF ReturnFilled, Resumed
<1>3. c \in Seq(1..MaxBytes) /\ Range(c) = Range(delivered) \cup Range(filled)
  BY <1>1, ConcatRange DEF TypeOK
<1>4. Increasing(c)
  BY <1>1, BytesTyped, ConcatIncreasing DEF BytesInv
<1> HIDE DEF c
<1>5. TypeOK' /\ NoMissedWakeup' /\ WritableBuffer' /\ FutureInv'
  <2>1. RoomToRead'
    BY <1>1, <1>2 DEF WritableBuffer, RoomToRead
  <2>2. readPaused' \in BOOLEAN /\ outcome' \in Outcomes /\ buffer' \in Seq(1..MaxBytes) /\ Len(buffer') <= MaxSize
    BY <1>1, <1>2 DEF TypeOK, Outcomes
  <2> QED BY <1>2, <1>3, <2>1, <2>2, ReaderResumes
<1>6. BytesInv'
  <2> DEFINE D == Range(delivered)
             F == Range(filled)
             B == Range(buffer)
  <2>1. Range(delivered') = D \cup F /\ Range(filled') = {} /\ Range(buffer') = B
    BY <1>2, <1>3, NoBytes
  <2>2. Increasing(delivered') /\ Increasing(filled') /\ Increasing(buffer')
    BY <1>1, <1>2, <1>4, NoBytes DEF BytesInv, Increasing
  <2>3. /\ Below(D, F) /\ Below(D, B) /\ Below(F, B)
        /\ D \cup F \cup B \subseteq 1..sent /\ dropped \subseteq 1..sent
        /\ (D \cup F \cup B) \cap dropped = {} /\ (~failure => D \cup F \cup B \cup dropped = 1..sent)
    BY <1>1 DEF BytesInv
  <2> HIDE DEF D, F, B
  <2>4. /\ (D \cup F) \cup {} \cup B = D \cup F \cup B
        /\ Below(D \cup F, {}) /\ Below(D \cup F, B) /\ Below({}, B)
    BY <2>3 DEF Below
  <2> QED BY <1>2, <2>1, <2>2, <2>3, <2>4 DEF BytesInv
<1>7. EofIsReal'
  BY <1>2 DEF EofIsReal
<1> QED BY <1>5, <1>6, <1>7 DEF ReaderInv

LEMMA MinOfTwo ==
  ASSUME NEW m \in Nat, NEW n \in Nat
  PROVE  Min({m, n}) \in {m, n} /\ Min({m, n}) <= m /\ Min({m, n}) <= n
<1>1. PICK x \in {m, n} : x <= m /\ x <= n
  OBVIOUS
<1> QED BY <1>1 DEF Min

LEMMA ReaderReturnsBuffered ==
  ASSUME ReaderInv, ReturnBuffered
  PROVE  ReaderInv'
<1>1. TypeOK /\ NoMissedWakeup /\ WritableBuffer /\ FutureInv /\ BytesInv /\ EofIsReal
  BY DEF ReaderInv
<1> DEFINE n == Min({request.size, Len(buffer)})
           l == SubSeq(buffer, 1, n)
           r == SubSeq(buffer, n + 1, Len(buffer))
           c == delivered \o l
<1>2. /\ Resumed /\ waiter = "data" /\ ~failure /\ delivered' = c /\ buffer' = r
      /\ outcome' = IF n = 0 THEN "eof" ELSE "data"
      /\ readPaused' = (readPaused /\ ~MustResume(Len(buffer')))
      /\ filled' = <<>> /\ UNCHANGED <<sent, dropped, lost, failure, eof>>
  BY DEF ReturnBuffered, Resumed, FailureSeen, Unused
<1>3. n \in Nat /\ n <= Len(buffer) /\ n <= request.size /\ Len(buffer) \in Nat /\ request.size \in Nat \ {0}
      /\ n \in {request.size, Len(buffer)}
  <2>1. Len(buffer) \in Nat /\ request.size \in Nat \ {0}
    BY <1>1, BytesTyped, SizesAndBound DEF TypeOK, Requests
  <2> QED BY <2>1, MinOfTwo
<1> HIDE DEF n
<1>4. /\ l \in Seq(1..MaxBytes) /\ Len(l) = n /\ r \in Seq(1..MaxBytes) /\ Len(r) = Len(buffer) - n /\ l \o r = buffer
  <2>1. n \in 0..Len(buffer) /\ buffer \in Seq(1..MaxBytes)
    BY <1>1, <1>3 DEF TypeOK
  <2> QED BY <2>1, CutBuffer
<1>5. l \in Seq(Nat) /\ r \in Seq(Nat)
  <2>1. n \in 0..Len(buffer) /\ buffer \in Seq(Nat)
    BY <1>1, <1>3, BytesTyped
  <2> QED BY <2>1, CutBuffer
<1> HIDE DEF l, r
<1>6. Range(buffer) = Range(l) \cup Range(r)
  <2>1. l \o r = buffer
    BY <1>4
  <2>2. Range(l \o r) = Range(l) \cup Range(r)
    BY <1>5, ConcatRange, Zenon
  <2> QED BY <2>1, <2>2, Zenon
<1>7. Increasing(l) /\ Increasing(r) /\ Below(Range(l), Range(r))
  <2>1. Increasing(l \o r)
    BY <1>1, <1>4 DEF BytesInv
  <2> QED BY <1>5, <2>1, ConcatIncreasing, Zenon
<1>8. c \in Seq(1..MaxBytes) /\ Range(c) = Range(delivered) \cup Range(l)
  <2>1. delivered \in Seq(1..MaxBytes)
    BY <1>1 DEF TypeOK
  <2>2. l \in Seq(1..MaxBytes)
    BY <1>4
  <2> QED BY <2>1, <2>2, ConcatRange, Zenon
<1>9. filled = <<>>
  BY <1>1, <1>2 DEF TypeOK
<1> DEFINE D == Range(delivered)
           L == Range(l)
           R == Range(r)
<1>10. /\ Below(D, L \cup R) /\ D \cup (L \cup R) \subseteq 1..sent /\ dropped \subseteq 1..sent
       /\ (D \cup (L \cup R)) \cap dropped = {} /\ D \cup (L \cup R) \cup dropped = 1..sent
       /\ Increasing(delivered)
  <2>1. Range(filled) = {}
    BY <1>9, NoBytes
  <2> QED BY <1>1, <1>2, <1>6, <2>1 DEF BytesInv
<1>11. Increasing(c)
  <2>1. Below(D, L)
    BY <1>10 DEF Below
  <2> QED BY <1>1, <1>5, <1>7, <1>10, <2>1, BytesTyped, ConcatIncreasing
<1> HIDE DEF c
<1>12. RoomToRead' /\ readPaused' \in BOOLEAN
  <2>0. readPaused' <=> readPaused /\ ~(Len(r) <= LowWater)
    BY <1>2 DEF MustResume
  <2>1. readPaused' \in BOOLEAN
    BY <1>2
  <2>2. Len(buffer') = Len(buffer) - n
    BY <1>2, <1>4
  <2>3. readPaused' => Len(buffer') > LowWater
    BY <1>2, <1>3, <1>4, <2>0, WaterMarks
  <2>4. ~lost' /\ ~readPaused' => Len(buffer') < MaxSize
    <3>1. CASE readPaused
      BY <1>2, <1>3, <1>4, <2>0, <3>1, WaterMarks
    <3>2. CASE ~readPaused
      BY <1>1, <1>2, <1>3, <2>2, <3>2, WaterMarks DEF WritableBuffer, RoomToRead
    <3> QED BY <3>1, <3>2
  <2> QED BY <2>1, <2>3, <2>4 DEF RoomToRead
<1>13. TypeOK' /\ NoMissedWakeup' /\ WritableBuffer' /\ FutureInv'
  <2>1. Len(buffer') <= MaxSize
    <3>1. Len(buffer) <= MaxSize
      BY <1>1 DEF TypeOK
    <3> QED BY <1>2, <1>3, <1>4, <3>1, WaterMarks
  <2>2. outcome' \in Outcomes
    BY <1>2 DEF Outcomes
  <2> QED BY <1>2, <1>4, <1>8, <1>12, <2>1, <2>2, ReaderResumes
<1>14. BytesInv'
  <2>1. Range(delivered') = D \cup L /\ Range(filled') = {} /\ Range(buffer') = R
    BY <1>2, <1>8, NoBytes
  <2>2. Increasing(delivered') /\ Increasing(filled') /\ Increasing(buffer')
    BY <1>2, <1>7, <1>11, NoBytes
  <2> HIDE DEF D, L, R
  <2>3. /\ (D \cup L) \cup {} \cup R = D \cup (L \cup R)
        /\ Below(D \cup L, {}) /\ Below(D \cup L, R) /\ Below({}, R)
    <3>1. Below(L, R)
      BY <1>7 DEF L, R
    <3> QED BY <1>10, <3>1 DEF Below
  <2> QED BY <1>2, <1>10, <2>1, <2>2, <2>3 DEF BytesInv
<1>15. EofIsReal'
  <2> SUFFICES ASSUME outcome' = "eof" PROVE eof' /\ Range(delivered') \cup dropped' = 1..sent'
    BY DEF EofIsReal
  <2>1. n = 0
    BY <1>2
  <2>2. Len(buffer) = 0 /\ Len(r) = 0
    BY <1>3, <1>4, <2>1
  <2>3. buffer = <<>> /\ r = <<>>
    BY <1>1, <1>4, <2>2, EmptySeq DEF TypeOK
  <2>4. R = {}
    BY <2>3, NoBytes
  <2>5. eof
    BY <1>1, <1>2, <2>3 DEF FutureInv
  <2>6. Range(delivered') = D \cup L
    BY <1>2, <1>8
  <2> HIDE DEF D, L, R
  <2> QED BY <1>2, <1>10, <2>4, <2>5, <2>6
<1> QED BY <1>13, <1>14, <1>15 DEF ReaderInv

LEMMA ReaderRaises ==
  ASSUME ReaderInv, RaiseFailure
  PROVE  ReaderInv'
<1>1. TypeOK /\ NoMissedWakeup /\ WritableBuffer /\ FutureInv /\ BytesInv /\ EofIsReal
  BY DEF ReaderInv
<1>2. /\ Resumed /\ FailureSeen /\ outcome' = "error" /\ filled' = <<>>
      /\ UNCHANGED <<buffer, readPaused, delivered, sent, dropped, lost, failure>>
  BY DEF RaiseFailure, Resumed
<1>3. filled' = filled
  BY <1>1, <1>2 DEF TypeOK, FailureSeen
<1>4. TypeOK' /\ NoMissedWakeup' /\ WritableBuffer' /\ FutureInv'
  <2>1. RoomToRead'
    BY <1>1, <1>2 DEF WritableBuffer, RoomToRead
  <2>2. /\ readPaused' \in BOOLEAN /\ outcome' \in Outcomes /\ buffer' \in Seq(1..MaxBytes)
        /\ Len(buffer') <= MaxSize /\ delivered' \in Seq(1..MaxBytes)
    BY <1>1, <1>2 DEF TypeOK, Outcomes
  <2> QED BY <1>2, <2>1, <2>2, ReaderResumes
<1>5. BytesInv'
  BY <1>1, <1>2, <1>3, BytesKept
<1>6. EofIsReal'
  BY <1>2 DEF EofIsReal
<1> QED BY <1>4, <1>5, <1>6 DEF ReaderInv

LEMMA ReaderCancelled ==
  ASSUME ReaderInv, Cancel
  PROVE  ReaderInv'
<1>1. TypeOK /\ NoMissedWakeup /\ WritableBuffer /\ FutureInv /\ BytesInv /\ EofIsReal
  BY DEF ReaderInv
<1>2. /\ reader # "idle" /\ cancelling' = TRUE /\ waiter' = Woken("cancelled")
      /\ UNCHANGED <<buffer, external, readPaused, lost, failure, eof, filled, reader, request, sent, delivered, outcome, dropped>>
  BY DEF Cancel, history
<1>3. TypeOK'
  BY <1>1, <1>2 DEF TypeOK, Woken
<1>4. NoMissedWakeup' /\ WritableBuffer' /\ FutureInv' /\ EofIsReal'
  BY <1>1, <1>2 DEF NoMissedWakeup, WritableBuffer, RoomToRead, FutureInv, EofIsReal, Woken
<1>5. BytesInv'
  BY <1>1, <1>2, BytesKept
<1> QED BY <1>3, <1>4, <1>5 DEF ReaderInv

LEMMA ReaderUnwinds ==
  ASSUME ReaderInv, Unwind
  PROVE  ReaderInv'
<1>1. TypeOK /\ NoMissedWakeup /\ WritableBuffer /\ FutureInv /\ BytesInv /\ EofIsReal
  BY DEF ReaderInv
<1>2. /\ cancelling' = FALSE /\ waiter' = "none" /\ reader' = "idle" /\ external' = 0
      /\ outcome' = "cancelled" /\ dropped' = dropped \cup Range(filled) /\ filled' = <<>>
      /\ UNCHANGED <<buffer, readPaused, lost, failure, eof, request, sent, delivered>>
  BY DEF Unwind, ExternalCleared
<1> DEFINE D == Range(delivered)
           F == Range(filled)
           B == Range(buffer)
<1>3. /\ Below(D, F) /\ Below(D, B) /\ Below(F, B)
      /\ D \cup F \cup B \subseteq 1..sent /\ dropped \subseteq 1..sent
      /\ (D \cup F \cup B) \cap dropped = {} /\ (~failure => D \cup F \cup B \cup dropped = 1..sent)
  BY <1>1 DEF BytesInv
<1>4. F \subseteq 1..sent /\ 1..sent \subseteq 1..MaxBytes
  BY <1>1, <1>3, BytesTyped DEF TypeOK
<1>5. TypeOK'
  <2>1. dropped' \subseteq 1..MaxBytes
    BY <1>2, <1>3, <1>4
  <2> QED BY <1>1, <1>2, <2>1, NoBytes DEF TypeOK, Outcomes
<1>6. NoMissedWakeup' /\ WritableBuffer' /\ FutureInv' /\ EofIsReal'
  BY <1>1, <1>2 DEF NoMissedWakeup, WritableBuffer, RoomToRead, FutureInv, EofIsReal
<1>7. BytesInv'
  <2>1. Range(delivered') = D /\ Range(filled') = {} /\ Range(buffer') = B /\ dropped' = dropped \cup F
    BY <1>2, NoBytes
  <2>2. Increasing(delivered') /\ Increasing(filled') /\ Increasing(buffer')
    BY <1>1, <1>2, NoBytes DEF BytesInv, Increasing
  <2>3. \A x \in D \cup F \cup B : x \in Nat
    BY <1>3
  <2> HIDE DEF D, F, B
  <2>4. D \cap F = {} /\ F \cap B = {}
    BY <1>3, <2>3 DEF Below
  <2>5. /\ D \cup {} \cup B \subseteq 1..sent /\ dropped \cup F \subseteq 1..sent
        /\ (D \cup {} \cup B) \cap (dropped \cup F) = {}
        /\ ~failure => D \cup {} \cup B \cup (dropped \cup F) = 1..sent
    BY <1>3, <2>4
  <2>6. Below(D, {}) /\ Below({}, B)
    BY DEF Below
  <2> QED BY <1>2, <1>3, <2>1, <2>2, <2>5, <2>6 DEF BytesInv
<1> QED BY <1>5, <1>6, <1>7 DEF ReaderInv

LEMMA ReaderStep == ReaderInv /\ [Next]_vars => ReaderInv'
<1> SUFFICES ASSUME ReaderInv, [Next]_vars PROVE ReaderInv'
  OBVIOUS
<1>1. CASE \E k \in 1..MaxBytes : DataReceived(k)
  BY <1>1, ReaderDataExternal, ReaderDataInternal DEF DataReceived
<1>2. CASE EofReceived
  BY <1>2, ReaderEof
<1>3. CASE \E error \in BOOLEAN : ConnectionLost(error)
  BY <1>3, ReaderLost
<1>4. CASE \E q \in Requests : Receive(q)
  BY <1>4, ReaderReceives
<1>5. CASE ReturnFilled
  BY <1>5, ReaderReturnsFilled
<1>6. CASE ReturnBuffered
  BY <1>6, ReaderReturnsBuffered
<1>7. CASE RaiseFailure
  BY <1>7, ReaderRaises
<1>8. CASE Cancel
  BY <1>8, ReaderCancelled
<1>9. CASE Unwind
  BY <1>9, ReaderUnwinds
<1>10. CASE UNCHANGED vars
  <2>1. UNCHANGED <<buffer, external, waiter, readPaused, lost, failure, eof, filled, reader, request, cancelling, sent,
                    delivered, outcome, dropped>>
    BY <1>10 DEF vars, protocol, history
  <2>2. BytesInv'
    BY <2>1, BytesKept DEF ReaderInv
  <2>3. TypeOK'
    BY <2>1 DEF ReaderInv, TypeOK
  <2> QED BY <2>1, <2>2, <2>3 DEF ReaderInv, NoMissedWakeup, WritableBuffer, RoomToRead, FutureInv, EofIsReal
<1> QED BY <1>1, <1>2, <1>3, <1>4, <1>5, <1>6, <1>7, <1>8, <1>9, <1>10 DEF Next

\* The three pieces of the stream follow each other.
LEMMA ReaderGetsTheStream == ReaderInv => StreamIntact
<1> SUFFICES ASSUME ReaderInv PROVE StreamIntact
  OBVIOUS
<1>1. TypeOK /\ BytesInv /\ EofIsReal
  BY DEF ReaderInv
<1> DEFINE D == Range(delivered)
           F == Range(filled)
           B == Range(buffer)
           early == delivered \o filled
           seen == early \o buffer
<1>2. delivered \in Seq(Nat) /\ filled \in Seq(Nat) /\ buffer \in Seq(Nat)
  BY <1>1, BytesTyped
<1>3. early \in Seq(Nat) /\ Range(early) = D \cup F
  BY <1>2, ConcatRange
<1>4. Increasing(early)
  BY <1>1, <1>2, ConcatIncreasing DEF BytesInv
<1> HIDE DEF early
<1>5. seen \in Seq(Nat) /\ Range(seen) = D \cup F \cup B
  BY <1>2, <1>3, ConcatRange
<1>6. Below(D \cup F, B)
  BY <1>1 DEF BytesInv, Below
<1>7. Increasing(seen)
  <2>1. Increasing(buffer)
    BY <1>1 DEF BytesInv
  <2>2. Below(Range(early), Range(buffer))
    BY <1>3, <1>6
  <2> QED BY <1>2, <1>3, <1>4, <2>1, <2>2, ConcatIncreasing, Zenon
<1>8. (D \cup F \cup B) \cap dropped = {} /\ (~failure => D \cup F \cup B \cup dropped = 1..sent)
  BY <1>1 DEF BytesInv
<1>9. ~lost => ~failure
  BY <1>1 DEF TypeOK
<1>10. seen = delivered \o filled \o buffer
  BY DEF early
<1> HIDE DEF seen, D, F, B
<1>11. Range(seen) \cap dropped = {} /\ (~lost => Range(seen) \cup dropped = 1..sent)
  BY <1>5, <1>8, <1>9
<1> QED BY <1>1, <1>7, <1>10, <1>11 DEF StreamIntact, Increasing


\* A buffer that was lent is filled for the call that lent it; when nobody waits for it
\* any longer, that call was cancelled, or the connection is lost.
LentInv ==
  /\ filled # <<>> => request.into
  /\ external > 0 => waiter \in {"pending", "cancelled"} \/ lost

LEMMA LentInit == Init => LentInv
BY DEF Init, LentInv

\* What each step does to the buffer that is lent, and the bytes it drops.
LEMMA LentStep ==
  ReaderInv /\ LentInv /\ [Next]_vars => LentInv' /\ (dropped' # dropped => cancelling /\ request.into)
<1> SUFFICES ASSUME ReaderInv, LentInv, [Next]_vars
             PROVE  LentInv' /\ (dropped' # dropped => cancelling /\ request.into)
  OBVIOUS
<1>0. /\ reader = "idle" => waiter = "none" /\ filled = <<>> /\ ~(external > 0)
      /\ external > 0 => reader = "waiting" /\ request.into
      /\ waiter = "cancelled" => cancelling
      /\ ~(0 > 0)
  <2>1. /\ waiter = "none" <=> reader = "idle"
        /\ filled # <<>> <=> waiter = "filled"
        /\ waiter = "cancelled" => cancelling
    BY DEF ReaderInv, TypeOK
  <2>2. external > 0 => reader = "waiting" /\ request.into
    BY DEF ReaderInv, WritableBuffer
  <2>3. ~(0 > 0)
    OBVIOUS
  <2> QED BY <2>1, <2>2, <2>3, Zenon
<1> USE DEF LentInv, Woken
<1>1. CASE \E k \in 1..MaxBytes : DataReceived(k)
  <2>1. PICK k \in 1..MaxBytes : DataReceived(k)
    BY <1>1
  <2>2. ~lost /\ UNCHANGED <<lost, request, cancelling>>
    BY <2>1 DEF DataReceived
  <2>3. CASE FillExternal(k)
    <3>1. external > 0 /\ external' = 0 /\ (waiter = "pending" => dropped' = dropped) /\ (waiter # "pending" => filled' = filled)
      BY <2>3 DEF FillExternal, ExternalDone
    <3> QED BY <1>0, <2>2, <3>1
  <2>4. CASE FillInternal(k)
    <3>1. external = 0 /\ UNCHANGED <<external, filled, dropped>>
      BY <2>4 DEF FillInternal
    <3> QED BY <1>0, <2>2, <3>1
  <2> QED BY <2>1, <2>3, <2>4 DEF DataReceived
<1>2. CASE EofReceived
  BY <1>0, <1>2 DEF EofReceived, history
<1>3. CASE \E error \in BOOLEAN : ConnectionLost(error)
  BY <1>0, <1>3 DEF ConnectionLost, history
<1>4. CASE \E q \in Requests : Receive(q)
  BY <1>0, <1>4 DEF Receive
<1>5. CASE ReturnFilled \/ ReturnBuffered \/ RaiseFailure
  <2>1. external' = 0 /\ filled' = <<>> /\ dropped' = dropped
    BY <1>5 DEF ReturnFilled, ReturnBuffered, RaiseFailure, Resumed
  <2> QED BY <1>0, <2>1
<1>6. CASE Cancel
  BY <1>0, <1>6 DEF Cancel, history
<1>7. CASE Unwind
  <2>1. cancelling /\ external' = 0 /\ filled' = <<>> /\ dropped' = dropped \cup Range(filled)
    BY <1>7 DEF Unwind, ExternalCleared
  <2>2. filled = <<>> => Range(filled) = {}
    BY NoBytes
  <2> QED BY <1>0, <2>1, <2>2
<1>8. CASE UNCHANGED vars
  BY <1>8 DEF vars, protocol, history
<1> QED BY <1>1, <1>2, <1>3, <1>4, <1>5, <1>6, <1>7, <1>8 DEF Next
-----------------------------------------------------------------------------
(* The writing side of a stream socket *)

\* What the transport is about to do: closed, it has data to send or the loss of the
\* connection to report; paused, it has data or is about to fail; lost, it has nothing.
FlowInv ==
  /\ scheduled => closing /\ outbox = <<>>
  /\ connLost => closing /\ ~scheduled /\ outbox = <<>>
  /\ closing => scheduled \/ connLost \/ outbox # <<>>
  /\ writePaused => outbox # <<>> \/ scheduled
  /\ \A t \in Tasks : future[t] = "pending" => writePaused

\* The chunk of a task that is still in send_all() went out, or waits in the transport,
\* or is lost with a connection whose loss the task will learn of.
SendInv ==
  \A t \in Tasks :
    /\ sendOutcome[t] = "sent" => flushed[t]
    /\ future[t] = "done" => flushed[t]
    /\ future[t] = "pending" => flushed[t] \/ t \in ToSet(outbox) \/ scheduled
    /\ pc[t] = "yielding" =>
         connLost \/ flushed[t] \/ (writePaused /\ (t \in ToSet(outbox) \/ scheduled))
    /\ pc[t] = "behind" => scheduled \/ connLost

WritingInv == Writing!TypeOK /\ FlowInv /\ SendInv

\* What the instance takes of the sequences is what is known of them.
LEMMA WritingOperators ==
  /\ \A q, x : Writing!RemoveFirst(q, x) = RemoveFirst(q, x)
  /\ \A q : Writing!IsInjective(q) = IsInjective(q)
  /\ \A q \in Seq(Tasks) : \A x : Writing!Contains(q, x) <=> x \in ToSet(q)
<1>1. \A q, x : Writing!RemoveFirst(q, x) = RemoveFirst(q, x)
  BY DEF Writing!RemoveFirst, RemoveFirst, Writing!RemoveAt, RemoveAt, Writing!SelectInSeq, SelectInSeq,
         Writing!Min, Min
<1>2. \A q : Writing!IsInjective(q) = IsInjective(q)
  BY DEF Writing!IsInjective, IsInjective
<1>3. \A q \in Seq(Tasks) : \A x : Writing!Contains(q, x) <=> x \in ToSet(q)
  BY LenProperties DEF Writing!Contains, ToSet
<1> QED BY <1>1, <1>2, <1>3

\* The types, with the members of the queue for what Contains says.
WritingTypes ==
  /\ writePaused \in BOOLEAN /\ connLost \in BOOLEAN /\ closing \in BOOLEAN /\ scheduled \in BOOLEAN
  /\ waiters \in Seq(Tasks) /\ IsInjective(waiters)
  /\ outbox \in Seq(Tasks)
  /\ future \in [Tasks -> {"none", "pending", "done", "failed", "cancelled"}]
  /\ pc \in [Tasks -> {"idle", "yielding", "behind", "waiting"}]
  /\ flushed \in [Tasks -> BOOLEAN]
  /\ sendOutcome \in [Tasks -> {"none", "sent", "error", "cancelled"}]

WaitersInv ==
  \A t \in Tasks : /\ future[t] # "none" <=> pc[t] = "waiting"
                   /\ future[t] = "pending" => t \in ToSet(waiters)
                   /\ t \in ToSet(waiters) => pc[t] = "waiting"

LEMMA WritingTyped == Writing!TypeOK <=> WritingTypes /\ WaitersInv
<1>1. {writePaused, connLost, closing, scheduled} \subseteq BOOLEAN
      <=> /\ writePaused \in BOOLEAN /\ connLost \in BOOLEAN
          /\ closing \in BOOLEAN /\ scheduled \in BOOLEAN
  OBVIOUS
<1>2. Writing!IsInjective(waiters) = IsInjective(waiters)
  BY WritingOperators
<1>3. {"none", "pending"} \cup Writing!Done = {"none", "pending", "done", "failed", "cancelled"}
  BY DEF Writing!Done
<1>4. waiters \in Seq(Tasks) => \A t \in Tasks : Writing!Contains(waiters, t) <=> t \in ToSet(waiters)
  BY WritingOperators
<1> QED BY <1>1, <1>2, <1>3, <1>4 DEF Writing!TypeOK, WritingTypes, WaitersInv

LEMMA WritingTypedNext == Writing!TypeOK' <=> WritingTypes' /\ WaitersInv'
BY WritingTyped, PTL

LEMMA WritingInit == Writing!Init => WritingInv
<1> SUFFICES ASSUME Writing!Init PROVE WritingInv
  OBVIOUS
<1>1. <<>> \in Seq(Tasks) /\ ToSet(<<>>) = {} /\ IsInjective(<<>>)
  BY EmptySeq DEF ToSet, IsInjective
<1>2. WritingTypes /\ WaitersInv
  BY <1>1 DEF Writing!Init, WritingTypes, WaitersInv
<1>3. FlowInv
  BY DEF Writing!Init, FlowInv
<1>4. SendInv
  BY DEF Writing!Init, SendInv
<1> QED BY <1>2, <1>3, <1>4, WritingTyped DEF WritingInv

\* What a write of t, or nothing at all, does to the transport: no chunk of another task
\* goes out or is lost, and nothing that was about to happen is called off.
Onward(t) ==
  /\ outbox' \in Seq(Tasks) /\ flushed' \in [Tasks -> BOOLEAN]
  /\ writePaused' \in BOOLEAN /\ closing' \in BOOLEAN /\ scheduled' \in BOOLEAN
  /\ scheduled' => closing' /\ outbox' = <<>>
  /\ connLost => closing' /\ ~scheduled' /\ outbox' = <<>>
  /\ closing' => scheduled' \/ connLost \/ outbox' # <<>>
  /\ writePaused' => outbox' # <<>> \/ scheduled'
  /\ writePaused => writePaused'
  /\ scheduled => scheduled'
  /\ ToSet(outbox) \subseteq ToSet(outbox')
  /\ \A u \in Tasks \ {t} : flushed'[u] = flushed[u]

LEMMA WriteGoesOn ==
  ASSUME WritingInv, NEW t \in Tasks, Writing!TransportWrite(t)
  PROVE  /\ Onward(t)
         /\ connLost \/ scheduled' \/ flushed'[t] \/ (t \in ToSet(outbox') /\ writePaused')
<1>1. WritingTypes /\ FlowInv
  BY WritingTyped DEF WritingInv
<1>2. CASE /\ scheduled \/ connLost
           /\ flushed' = [flushed EXCEPT ![t] = FALSE]
           /\ UNCHANGED <<writePaused, closing, outbox, scheduled>>
  BY <1>1, <1>2 DEF WritingTypes, FlowInv, Onward
<1>3. CASE /\ ~scheduled /\ ~connLost /\ outbox = <<>>
           /\ flushed' = [flushed EXCEPT ![t] = TRUE]
           /\ UNCHANGED <<writePaused, closing, outbox, scheduled>>
  BY <1>1, <1>3 DEF WritingTypes, FlowInv, Onward
<1>4. CASE /\ ~scheduled /\ ~connLost /\ outbox = <<>>
           /\ flushed' = [flushed EXCEPT ![t] = FALSE]
           /\ closing' = TRUE /\ scheduled' = TRUE
           /\ UNCHANGED <<writePaused, outbox>>
  BY <1>1, <1>4 DEF WritingTypes, FlowInv, Onward
<1>5. CASE /\ ~scheduled /\ ~connLost
           /\ flushed' = [flushed EXCEPT ![t] = FALSE]
           /\ outbox' = Append(outbox, t)
           /\ writePaused' = TRUE
           /\ UNCHANGED <<closing, scheduled>>
  <2>0. outbox \in Seq(Tasks) /\ outbox' = Append(outbox, t)
    BY <1>1, <1>5 DEF WritingTypes
  <2>1. outbox' \in Seq(Tasks) /\ outbox' # <<>>
    BY <2>0, AppendProperties
  <2>2. ToSet(outbox') = ToSet(outbox) \cup {t}
    BY <2>0, ToSetProperties
  <2> QED BY <1>1, <1>5, <2>1, <2>2 DEF WritingTypes, FlowInv, Onward
<1> QED BY <1>2, <1>3, <1>4, <1>5 DEF Writing!TransportWrite

\* drain() after that.
LEMMA WritingDrain ==
  ASSUME WritingInv, NEW t \in Tasks, Onward(t), Writing!DrainRest(t), UNCHANGED connLost,
         pc[t] # "waiting",
         ~connLost => flushed'[t] \/ (writePaused' /\ (t \in ToSet(outbox') \/ scheduled'))
  PROVE  WritingInv'
<1>1. WritingTypes /\ WaitersInv /\ FlowInv /\ SendInv
  BY WritingTyped DEF WritingInv
<1>2. t \notin ToSet(waiters) /\ future[t] = "none"
  BY <1>1 DEF WritingTypes, WaitersInv
<1>3. CASE connLost /\ Writing!Ends(t, "error") /\ UNCHANGED <<waiters, future>>
  <2>1. WritingTypes'
    BY <1>1, <1>3 DEF WritingTypes, Onward, Writing!Ends
  <2>2. WaitersInv'
    BY <1>1, <1>2, <1>3 DEF WritingTypes, WaitersInv, Writing!Ends
  <2>3. FlowInv'
    BY <1>1, <1>3 DEF FlowInv, Onward
  <2>4. SendInv'
    BY <1>1, <1>2, <1>3 DEF WritingTypes, SendInv, Onward, Writing!Ends
  <2> QED BY <2>1, <2>2, <2>3, <2>4, WritingTypedNext DEF WritingInv
<1>4. CASE ~connLost /\ ~writePaused' /\ Writing!Ends(t, "sent") /\ UNCHANGED <<waiters, future>>
  <2>1. WritingTypes'
    BY <1>1, <1>4 DEF WritingTypes, Onward, Writing!Ends
  <2>2. WaitersInv'
    BY <1>1, <1>2, <1>4 DEF WritingTypes, WaitersInv, Writing!Ends
  <2>3. FlowInv'
    BY <1>1, <1>4 DEF FlowInv, Onward
  <2>4. SendInv'
    BY <1>1, <1>2, <1>4 DEF WritingTypes, SendInv, Onward, Writing!Ends
  <2> QED BY <2>1, <2>2, <2>3, <2>4, WritingTypedNext DEF WritingInv
<1>5. CASE /\ ~connLost /\ writePaused'
           /\ waiters' = Append(waiters, t)
           /\ future' = [future EXCEPT ![t] = "pending"]
           /\ pc' = [pc EXCEPT ![t] = "waiting"]
           /\ sendOutcome' = [sendOutcome EXCEPT ![t] = "none"]
  <2>0. waiters \in Seq(Tasks) /\ IsInjective(waiters)
    BY <1>1 DEF WritingTypes
  <2>1. waiters' \in Seq(Tasks)
    BY <1>5, <2>0, AppendProperties
  <2>2. IsInjective(waiters')
    BY <1>2, <1>5, <2>0, AppendKeepsInjective
  <2>3. ToSet(waiters') = ToSet(waiters) \cup {t}
    BY <1>5, <2>0, ToSetProperties
  <2>4. WritingTypes'
    BY <1>1, <1>5, <2>1, <2>2 DEF WritingTypes, Onward
  <2>5. WaitersInv'
    BY <1>1, <1>5, <2>3 DEF WritingTypes, WaitersInv
  <2>6. FlowInv'
    BY <1>1, <1>5 DEF WritingTypes, FlowInv, Onward
  <2>7. SendInv'
    BY <1>1, <1>5 DEF WritingTypes, SendInv, Onward
  <2> QED BY <2>4, <2>5, <2>6, <2>7, WritingTypedNext DEF WritingInv
<1> QED BY <1>3, <1>4, <1>5 DEF Writing!DrainRest

LEMMA WritingSendAll ==
  ASSUME WritingInv, NEW t \in Tasks, Writing!SendAll(t)
  PROVE  WritingInv'
<1>1. WritingTypes /\ WaitersInv /\ FlowInv /\ SendInv
  BY WritingTyped DEF WritingInv
<1>2. pc[t] = "idle" /\ UNCHANGED connLost
  BY DEF Writing!SendAll
<1>3. Onward(t) /\ (connLost \/ scheduled' \/ flushed'[t] \/ (t \in ToSet(outbox') /\ writePaused'))
  BY WriteGoesOn DEF Writing!SendAll
<1>4. CASE closing'
  <2>1. /\ pc' = [pc EXCEPT ![t] = IF scheduled' THEN "behind" ELSE "yielding"]
        /\ sendOutcome' = [sendOutcome EXCEPT ![t] = "none"]
        /\ UNCHANGED <<waiters, future>>
    BY <1>4 DEF Writing!SendAll, Writing!MustYield
  <2>2. WritingTypes'
    BY <1>1, <1>2, <1>3, <2>1 DEF WritingTypes, Onward
  <2>3. WaitersInv'
    BY <1>1, <1>2, <2>1 DEF WritingTypes, WaitersInv
  <2>4. FlowInv'
    BY <1>1, <1>2, <1>3, <2>1 DEF FlowInv, Onward
  <2>5. SendInv'
    BY <1>1, <1>2, <1>3, <2>1 DEF WritingTypes, WaitersInv, SendInv, Onward
  <2> QED BY <2>2, <2>3, <2>4, <2>5, WritingTypedNext DEF WritingInv
<1>5. CASE ~closing'
  <2>1. Writing!DrainRest(t)
    BY <1>5 DEF Writing!SendAll, Writing!MustYield
  <2>2. ~connLost => flushed'[t] \/ (writePaused' /\ (t \in ToSet(outbox') \/ scheduled'))
    BY <1>3, <1>5 DEF Onward
  <2> QED BY <1>2, <1>3, <2>1, <2>2, WritingDrain
<1> QED BY <1>4, <1>5

LEMMA WritingAfterYield ==
  ASSUME WritingInv, NEW t \in Tasks, Writing!AfterYield(t)
  PROVE  WritingInv'
<1>1. WritingTypes /\ FlowInv /\ SendInv
  BY WritingTyped DEF WritingInv
<1>2. /\ pc[t] = "yielding" \/ (pc[t] = "behind" /\ ~scheduled)
      /\ UNCHANGED <<writePaused, connLost, closing, outbox, scheduled, flushed>> /\ Writing!DrainRest(t)
  BY DEF Writing!AfterYield, Writing!transport
<1>3. Onward(t)
  BY <1>1, <1>2 DEF WritingTypes, FlowInv, Onward
<1>4. ~connLost => flushed'[t] \/ (writePaused' /\ (t \in ToSet(outbox') \/ scheduled'))
  BY <1>1, <1>2 DEF SendInv
<1> QED BY <1>2, <1>3, <1>4, WritingDrain

LEMMA WritingForget ==
  ASSUME WritingInv, NEW t \in Tasks, Writing!Forget(t)
  PROVE  WritingInv'
<1>1. WritingTypes /\ WaitersInv /\ FlowInv /\ SendInv
  BY WritingTyped DEF WritingInv
<1>2. /\ future[t] \in Writing!Done /\ Writing!Contains(waiters, t) /\ waiters' = Writing!RemoveFirst(waiters, t)
      /\ UNCHANGED <<writePaused, connLost, future, pc, closing, outbox, scheduled, flushed, sendOutcome>>
  BY DEF Writing!Forget, Writing!Forgotten, Writing!transport
<1>3. waiters \in Seq(Tasks) /\ IsInjective(waiters)
  BY <1>1 DEF WritingTypes
<1>4. t \in ToSet(waiters) /\ waiters' = RemoveFirst(waiters, t)
  BY <1>2, <1>3, WritingOperators
<1>5. waiters' \in Seq(Tasks) /\ IsInjective(waiters') /\ ToSet(waiters') = ToSet(waiters) \ {t}
  BY <1>3, <1>4, RemoveFirstProperties
<1>6. future[t] # "pending"
  BY <1>2 DEF Writing!Done
<1>7. WritingTypes'
  BY <1>1, <1>2, <1>5 DEF WritingTypes
<1>8. WaitersInv'
  BY <1>1, <1>2, <1>5, <1>6 DEF WaitersInv
<1>9. FlowInv' /\ SendInv'
  BY <1>1, <1>2 DEF FlowInv, SendInv
<1> QED BY <1>7, <1>8, <1>9, WritingTypedNext DEF WritingInv

LEMMA WritingResume ==
  ASSUME WritingInv, NEW t \in Tasks, Writing!Resume(t)
  PROVE  WritingInv'
<1>1. WritingTypes /\ WaitersInv /\ FlowInv /\ SendInv
  BY WritingTyped DEF WritingInv
<1> DEFINE result == CASE future[t] = "done" -> "sent" [] future[t] = "failed" -> "error" [] OTHER -> "cancelled"
<1>2. /\ future[t] \in Writing!Done /\ ~Writing!Contains(waiters, t)
      /\ sendOutcome' = [sendOutcome EXCEPT ![t] = result] /\ pc' = [pc EXCEPT ![t] = "idle"]
      /\ future' = [future EXCEPT ![t] = "none"]
      /\ UNCHANGED <<writePaused, connLost, waiters, closing, outbox, scheduled, flushed>>
  BY DEF Writing!Resume, Writing!Ends, Writing!transport
<1>3. result = "sent" \/ result = "error" \/ result = "cancelled"
  BY Zenon
<1>4. result = "sent" => future[t] = "done"
  <2>1. future[t] # "done" => result = "error" \/ result = "cancelled"
    BY Zenon
  <2> HIDE DEF result
  <2> QED BY <2>1
<1> HIDE DEF result
<1>5. t \notin ToSet(waiters)
  <2>1. waiters \in Seq(Tasks)
    BY <1>1 DEF WritingTypes
  <2> QED BY <1>2, <2>1, WritingOperators
<1>6. WritingTypes'
  BY <1>1, <1>2, <1>3 DEF WritingTypes
<1>7. WaitersInv'
  BY <1>1, <1>2, <1>5 DEF WritingTypes, WaitersInv
<1>8. FlowInv'
  BY <1>1, <1>2 DEF WritingTypes, FlowInv
<1>9. SendInv'
  BY <1>1, <1>2, <1>4 DEF WritingTypes, SendInv
<1> QED BY <1>6, <1>7, <1>8, <1>9, WritingTypedNext DEF WritingInv

LEMMA WritingCancel ==
  ASSUME WritingInv, NEW t \in Tasks, Writing!Cancel(t)
  PROVE  WritingInv'
<1>1. WritingTypes /\ WaitersInv /\ FlowInv /\ SendInv
  BY WritingTyped DEF WritingInv
<1>2. UNCHANGED <<writePaused, connLost, waiters, closing, outbox, scheduled, flushed>>
  BY DEF Writing!Cancel, Writing!transport
<1>3. CASE /\ pc[t] = "waiting" /\ future[t] # "cancelled"
           /\ future' = [future EXCEPT ![t] = "cancelled"]
           /\ UNCHANGED <<pc, sendOutcome>>
  <2>1. WritingTypes' /\ WaitersInv'
    BY <1>1, <1>2, <1>3 DEF WritingTypes, WaitersInv
  <2>2. FlowInv' /\ SendInv'
    BY <1>1, <1>2, <1>3 DEF WritingTypes, FlowInv, SendInv
  <2> QED BY <2>1, <2>2, WritingTypedNext DEF WritingInv
<1>4. CASE pc[t] \in {"yielding", "behind"} /\ Writing!Ends(t, "cancelled") /\ UNCHANGED future
  <2>1. WritingTypes' /\ WaitersInv'
    BY <1>1, <1>2, <1>4 DEF WritingTypes, WaitersInv, Writing!Ends
  <2>2. FlowInv' /\ SendInv'
    BY <1>1, <1>2, <1>4 DEF WritingTypes, FlowInv, SendInv, Writing!Ends
  <2> QED BY <2>1, <2>2, WritingTypedNext DEF WritingInv
<1> QED BY <1>3, <1>4 DEF Writing!Cancel

\* The futures after the pending ones are completed.
LEMMA AllCompleted ==
  ASSUME WritingTypes, WaitersInv, NEW r \in {"done", "failed"}
  PROVE  /\ Writing!Completed(r) \in [Tasks -> {"none", "pending", "done", "failed", "cancelled"}]
         /\ \A t \in Tasks : Writing!Completed(r)[t] = IF future[t] = "pending" THEN r ELSE future[t]
<1>1. \A t \in Tasks : Writing!Contains(waiters, t) <=> t \in ToSet(waiters)
  BY WritingOperators DEF WritingTypes
<1> QED BY <1>1 DEF WritingTypes, WaitersInv, Writing!Completed

LEMMA WritingFlush ==
  ASSUME WritingInv, Writing!Flush
  PROVE  WritingInv'
<1>1. WritingTypes /\ WaitersInv /\ FlowInv /\ SendInv
  BY WritingTyped DEF WritingInv
<1> DEFINE h == Head(outbox)
<1>2. /\ outbox # <<>> /\ outbox' = Tail(outbox) /\ flushed' = [flushed EXCEPT ![h] = TRUE]
      /\ UNCHANGED <<connLost, waiters, pc, closing, sendOutcome>>
  BY DEF Writing!Flush
<1>3. outbox \in Seq(Tasks)
  BY <1>1 DEF WritingTypes
<1>4. outbox' \in Seq(Tasks) /\ h \in Tasks
  BY <1>2, <1>3, HeadTailProperties
<1>5. ToSet(outbox) = {h} \cup ToSet(outbox')
  BY <1>2, <1>3, ToSetProperties
<1>6. ~scheduled /\ ~connLost
  BY <1>1, <1>2 DEF FlowInv
<1> HIDE DEF h
<1>7. flushed' \in [Tasks -> BOOLEAN] /\ \A t \in Tasks : flushed'[t] <=> t = h \/ flushed[t]
  BY <1>1, <1>2, <1>4 DEF WritingTypes
<1>8. CASE Len(outbox) = 1
  <2>1. writePaused' = FALSE /\ future' = Writing!Completed("done") /\ scheduled' = closing
    BY <1>8 DEF Writing!Flush, Writing!Resumed
  <2>2. /\ future' \in [Tasks -> {"none", "pending", "done", "failed", "cancelled"}]
        /\ \A t \in Tasks : future'[t] = IF future[t] = "pending" THEN "done" ELSE future[t]
    BY <1>1, <2>1, AllCompleted
  <2>3. outbox' = <<>> /\ ToSet(outbox') = {}
    <3>1. Len(outbox') = 0
      BY <1>2, <1>3, <1>8, HeadTailProperties
    <3>2. outbox' = <<>>
      BY <1>4, <3>1, EmptySeq
    <3> QED BY <3>2, EmptySeq DEF ToSet
  <2>4. WritingTypes'
    BY <1>1, <1>2, <1>4, <1>7, <2>1, <2>2 DEF WritingTypes
  <2>5. WaitersInv'
    BY <1>1, <1>2, <2>2 DEF WritingTypes, WaitersInv
  <2>6. FlowInv'
    BY <1>1, <1>2, <1>6, <2>1, <2>2, <2>3 DEF WritingTypes, FlowInv
  <2>7. SendInv'
    BY <1>1, <1>2, <1>5, <1>6, <1>7, <2>1, <2>2, <2>3 DEF WritingTypes, SendInv
  <2> QED BY <2>4, <2>5, <2>6, <2>7, WritingTypedNext DEF WritingInv
<1>9. CASE Len(outbox) # 1
  <2>1. UNCHANGED <<writePaused, future, scheduled>>
    BY <1>9 DEF Writing!Flush
  <2>2. outbox' # <<>>
    <3>1. Len(outbox') = Len(outbox) - 1 /\ Len(outbox) \in Nat \ {0}
      BY <1>2, <1>3, HeadTailProperties, EmptySeq
    <3>2. Len(outbox') # 0
      BY <1>9, <3>1
    <3> QED BY <3>2, EmptySeq
  <2>3. WritingTypes'
    BY <1>1, <1>2, <1>4, <1>7, <2>1 DEF WritingTypes
  <2>4. WaitersInv'
    BY <1>1, <1>2, <2>1 DEF WaitersInv
  <2>5. FlowInv'
    BY <1>1, <1>2, <1>6, <2>1, <2>2 DEF FlowInv
  <2>6. SendInv'
    BY <1>1, <1>2, <1>5, <1>6, <1>7, <2>1 DEF SendInv
  <2> QED BY <2>3, <2>4, <2>5, <2>6, WritingTypedNext DEF WritingInv
<1> QED BY <1>8, <1>9

LEMMA WritingClose ==
  ASSUME WritingInv, Writing!Close
  PROVE  WritingInv'
<1>1. WritingTypes /\ WaitersInv /\ FlowInv /\ SendInv
  BY WritingTyped DEF WritingInv
<1>2. /\ ~closing /\ closing' = TRUE /\ scheduled' = (outbox = <<>>)
      /\ UNCHANGED <<writePaused, connLost, waiters, future, pc, outbox, flushed, sendOutcome>>
  BY DEF Writing!Close, Writing!flow
<1>3. ~scheduled /\ ~connLost /\ (scheduled' <=> outbox = <<>>) /\ scheduled' \in BOOLEAN
  BY <1>1, <1>2 DEF FlowInv
<1>4. WritingTypes' /\ WaitersInv'
  BY <1>1, <1>2, <1>3 DEF WritingTypes, WaitersInv
<1>5. FlowInv' /\ SendInv'
  BY <1>1, <1>2, <1>3 DEF FlowInv, SendInv
<1> QED BY <1>4, <1>5, WritingTypedNext DEF WritingInv

LEMMA WritingFatalError ==
  ASSUME WritingInv, Writing!FatalError
  PROVE  WritingInv'
<1>1. WritingTypes /\ WaitersInv /\ FlowInv /\ SendInv
  BY WritingTyped DEF WritingInv
<1>2. /\ ~scheduled /\ ~connLost /\ closing' = TRUE /\ scheduled' = TRUE /\ outbox' = <<>>
      /\ UNCHANGED <<writePaused, connLost, waiters, future, pc, flushed, sendOutcome>>
  BY DEF Writing!FatalError, Writing!flow
<1>3. WritingTypes' /\ WaitersInv'
  BY <1>1, <1>2 DEF WritingTypes, WaitersInv
<1>4. FlowInv' /\ SendInv'
  BY <1>1, <1>2 DEF FlowInv, SendInv
<1> QED BY <1>3, <1>4, WritingTypedNext DEF WritingInv

LEMMA WritingLost ==
  ASSUME WritingInv, Writing!ConnectionLost
  PROVE  WritingInv'
<1>1. WritingTypes /\ WaitersInv /\ FlowInv /\ SendInv
  BY WritingTyped DEF WritingInv
<1>2. /\ scheduled /\ scheduled' = FALSE /\ connLost' = TRUE /\ writePaused' = FALSE
      /\ future' = Writing!Completed("failed")
      /\ UNCHANGED <<waiters, pc, closing, outbox, flushed, sendOutcome>>
  BY DEF Writing!ConnectionLost, Writing!Failed
<1>3. /\ future' \in [Tasks -> {"none", "pending", "done", "failed", "cancelled"}]
      /\ \A t \in Tasks : future'[t] = IF future[t] = "pending" THEN "failed" ELSE future[t]
  BY <1>1, <1>2, AllCompleted
<1>4. WritingTypes' /\ WaitersInv'
  BY <1>1, <1>2, <1>3 DEF WritingTypes, WaitersInv
<1>5. FlowInv' /\ SendInv'
  BY <1>1, <1>2, <1>3 DEF FlowInv, SendInv
<1> QED BY <1>4, <1>5, WritingTypedNext DEF WritingInv

LEMMA WritingStep == WritingInv /\ [Writing!Next]_writingVars => WritingInv'
<1> SUFFICES ASSUME WritingInv, [Writing!Next]_writingVars PROVE WritingInv'
  OBVIOUS
<1>1. ASSUME NEW t \in Tasks, Writing!SendAll(t) PROVE WritingInv'
  BY <1>1, WritingSendAll
<1>2. ASSUME NEW t \in Tasks, Writing!AfterYield(t) PROVE WritingInv'
  BY <1>2, WritingAfterYield
<1>3. ASSUME NEW t \in Tasks, Writing!Forget(t) PROVE WritingInv'
  BY <1>3, WritingForget
<1>4. ASSUME NEW t \in Tasks, Writing!Resume(t) PROVE WritingInv'
  BY <1>4, WritingResume
<1>5. ASSUME NEW t \in Tasks, Writing!Cancel(t) PROVE WritingInv'
  BY <1>5, WritingCancel
<1>6. CASE Writing!Flush
  BY <1>6, WritingFlush
<1>7. CASE Writing!Close
  BY <1>7, WritingClose
<1>8. CASE Writing!FatalError
  BY <1>8, WritingFatalError
<1>9. CASE Writing!ConnectionLost
  BY <1>9, WritingLost
<1>10. CASE UNCHANGED writingVars
  <2>1. WritingTypes /\ WaitersInv /\ FlowInv /\ SendInv
    BY WritingTyped DEF WritingInv
  <2>2. UNCHANGED <<writePaused, connLost, waiters, future, pc, closing, outbox, scheduled, flushed, sendOutcome>>
    BY <1>10 DEF writingVars
  <2>3. WritingTypes' /\ WaitersInv' /\ FlowInv' /\ SendInv'
    BY <2>1, <2>2 DEF WritingTypes, WaitersInv, FlowInv, SendInv
  <2> QED BY <2>3, WritingTypedNext DEF WritingInv
<1> QED BY <1>1, <1>2, <1>3, <1>4, <1>5, <1>6, <1>7, <1>8, <1>9, <1>10 DEF Writing!Next

\* The two properties of the part.
LEMMA WritersAreAnswered == WritingInv => Writing!SentIsFlushed /\ Writing!NobodyForgotten
BY DEF WritingInv, FlowInv, SendInv, Writing!SentIsFlushed, Writing!NobodyForgotten

-----------------------------------------------------------------------------
(* The TLS transport *)

Handing == {"sending first", "sending"}
Calling == {"idle", "call", "flush first", "sending first", "receive", "flush", "sending", "close"}
Messages == {"hello", "data", "notify", "bad"}

TLSTypes ==
  /\ tlsLost \in BOOLEAN /\ tlsEof \in BOOLEAN /\ waiting \in BOOLEAN
  /\ written \subseteq TLS!Callers /\ sending \subseteq TLS!Callers
  /\ phase \in {"handshake", "open", "closing", "closed"} /\ transport \in {"open", "closed"}
  /\ tlsPc \in [TLS!Callers -> Calling]
  /\ sendq \in Seq(TLS!Callers) /\ recvq \in Seq(TLS!Callers)

\* The records are those of the peer, wherever they are.
TLSCounts ==
  /\ peer \in Seq(Messages) /\ incoming \in Seq(Messages) /\ readBio \in Seq(Messages)
  /\ Len(peer) + Len(incoming) + Len(readBio) <= Records + 2 /\ Len(incoming) <= 1
  /\ unsent \in 0..1 /\ toWrite \in 0..Records

\* The task whose send_all() is under way is the holder of the send lock, and while what
\* it was handed is not gone there is such a task: no other can find the write BIO empty
\* and take its own records for sent.
TLSHandover ==
  /\ overtaken = FALSE
  /\ \A t \in TLS!Callers : tlsPc[t] \in Handing => TLS!Holds(sendq, t)
  /\ sending # {} => unsent # 0 /\ \E t \in TLS!Callers : tlsPc[t] \in Handing

\* Only the owner calls before the handshake is over, and it makes no call between that
\* and its aclose().
TLSPhases ==
  /\ phase = "handshake" => \A t \in TLS!Callers : t # "owner" => tlsPc[t] = "idle"
  /\ phase = "open" => tlsPc["owner"] = "idle"

TLSInv == TLSTypes /\ TLSCounts /\ TLSHandover /\ TLSPhases

LEMMA TLSOperators == \A q, x : TLS!RemoveFirst(q, x) = RemoveFirst(q, x)
BY DEF TLS!RemoveFirst, RemoveFirst, TLS!RemoveAt, RemoveAt, TLS!SelectInSeq, SelectInSeq, TLS!Min, Min

LEMMA OwnerIsCaller == "owner" \in TLS!Callers
BY DEF TLS!Callers

\* The queue of a lock when a task comes, or leaves: another one that holds the lock
\* keeps it.
LEMMA TLSQueues ==
  ASSUME NEW q \in Seq(TLS!Callers), NEW t \in TLS!Callers
  PROVE  /\ Append(q, t) \in Seq(TLS!Callers) /\ TLS!RemoveFirst(q, t) \in Seq(TLS!Callers)
         /\ \A u \in TLS!Callers : TLS!Holds(q, u) => TLS!Holds(Append(q, t), u)
         /\ \A u \in TLS!Callers \ {t} : TLS!Holds(q, u) => TLS!Holds(TLS!RemoveFirst(q, t), u)
<1>1. Append(q, t) \in Seq(TLS!Callers) /\ RemoveFirst(q, t) \in Seq(TLS!Callers)
  BY AppendProperties, RemoveFirstType
<1>2. ASSUME NEW u \in TLS!Callers, TLS!Holds(q, u) PROVE TLS!Holds(Append(q, t), u)
  <2>1. Head(Append(q, t)) = IF q = <<>> THEN t ELSE Head(q)
    BY HeadTailAppend
  <2>2. Append(q, t) # <<>>
    BY AppendProperties
  <2> QED BY <1>2, <2>1, <2>2 DEF TLS!Holds
<1>3. ASSUME NEW u \in TLS!Callers \ {t}, TLS!Holds(q, u) PROVE TLS!Holds(RemoveFirst(q, t), u)
  <2> DEFINE s == RemoveFirst(q, t)
  <2>1. Len(q) \in Nat \ {0} /\ Head(q) = q[1] /\ q[1] # t
    BY <1>3, EmptySeq, HeadTailProperties DEF TLS!Holds
  <2>2. CASE t \in ToSet(q)
    <3>1. s \in Seq(TLS!Callers) /\ Len(s) = Len(q) - 1
      BY <2>2, RemoveFirstPlaces
    <3>2. PICK m \in 1..Len(q) :
            q[m] = t /\ \A i \in 1..(Len(q) - 1) : s[i] = IF i < m THEN q[i] ELSE q[i + 1]
      BY <2>2, RemoveFirstPlaces
    <3> HIDE DEF s
    <3>3. m # 1
      BY <2>1, <3>2
    <3>4. 1 < m /\ 1 \in 1..(Len(q) - 1) /\ Len(s) # 0
      BY <2>1, <3>1, <3>3
    <3>5. s[1] = q[1] /\ s # <<>>
      BY <3>1, <3>2, <3>4, EmptySeq
    <3>6. Head(s) = s[1]
      BY <3>1, <3>5, HeadTailProperties
    <3> QED BY <1>3, <2>1, <3>5, <3>6 DEF TLS!Holds, s
  <2>3. CASE t \notin ToSet(q)
    <3>1. ~ \E i \in 1..Len(q) : q[i] = t
      BY <2>3, LenProperties DEF ToSet
    <3>2. s = q
      BY <3>1 DEF RemoveFirst
    <3> QED BY <1>3, <3>2
  <2> QED BY <2>2, <2>3
<1> QED BY <1>1, <1>2, <1>3, TLSOperators

LEMMA CountsKept ==
  ASSUME TLSCounts, UNCHANGED <<peer, incoming, readBio, toWrite>>, unsent' \in 0..1
  PROVE  TLSCounts'
BY DEF TLSCounts

\* One task moves: what it may do to the handover.
LEMMA HandoverKept ==
  ASSUME TLSHandover, NEW t \in TLS!Callers, overtaken' = FALSE,
         \A u \in TLS!Callers \ {t} : tlsPc'[u] = tlsPc[u] /\ (TLS!Holds(sendq, u) => TLS!Holds(sendq', u)),
         tlsPc'[t] \notin Handing,
         \/ sending' = {}
         \/ sending' = sending /\ unsent' = unsent /\ tlsPc[t] \notin Handing
  PROVE  TLSHandover'
<1>1. overtaken' = FALSE
  OBVIOUS
<1>2. ASSUME NEW u \in TLS!Callers, tlsPc'[u] \in Handing PROVE TLS!Holds(sendq', u)
  BY <1>2 DEF TLSHandover
<1>3. sending' # {} => unsent' # 0 /\ \E u \in TLS!Callers : tlsPc'[u] \in Handing
  BY DEF TLSHandover
<1>4. \A u \in TLS!Callers : tlsPc'[u] \in Handing => TLS!Holds(sendq', u)
  BY <1>2
<1>5. (\A u \in TLS!Callers : tlsPc[u] \in Handing => TLS!Holds(sendq, u))'
  BY <1>4 DEF TLS!Holds
<1> QED BY <1>1, <1>3, <1>5 DEF TLSHandover

LEMMA PhasesKept ==
  ASSUME TLSPhases, NEW t \in TLS!Callers, tlsPc[t] # "idle", phase' = phase,
         \A u \in TLS!Callers \ {t} : tlsPc'[u] = tlsPc[u]
  PROVE  TLSPhases'
BY OwnerIsCaller DEF TLSPhases

\* The call of a task ends.
LEMMA EndedProperties ==
  ASSUME TLSTypes, NEW t \in TLS!Callers
  PROVE  /\ TLS!Ended(t) \in [TLS!Callers -> Calling] /\ TLS!Ended(t)[t] \notin Handing
         /\ \A u \in TLS!Callers \ {t} : TLS!Ended(t)[u] = tlsPc[u]
         /\ phase # "closing" => TLS!Ended(t)[t] = "idle"
BY DEF TLSTypes, TLS!Ended, Calling, Handing

LEMMA PhasesEnded ==
  ASSUME TLSTypes, TLSPhases, NEW t \in TLS!Callers, tlsPc[t] # "idle", tlsPc' = TLS!Ended(t),
         phase' = IF phase = "handshake" THEN phase' ELSE phase, phase' \in {"open", "closing", "closed"}
  PROVE  TLSPhases'
<1>1. \A u \in TLS!Callers \ {t} : tlsPc'[u] = tlsPc[u]
  BY EndedProperties
<1>2. phase = "handshake" => tlsPc'["owner"] = "idle"
  <2>1. phase = "handshake" => t = "owner"
    BY DEF TLSPhases
  <2> QED BY <2>1, EndedProperties
<1>3. phase = "open" => tlsPc'["owner"] = "idle"
  BY <1>1, OwnerIsCaller DEF TLSPhases
<1>4. phase' # "handshake"
  OBVIOUS
<1>5. phase' = "open" => phase \in {"handshake", "open"}
  OBVIOUS
<1> QED BY <1>2, <1>3, <1>4, <1>5 DEF TLSPhases

LEMMA TLSInit == ASSUME TLS!TLSParameters PROVE TLS!Init => TLSInv
<1> SUFFICES ASSUME TLS!Init PROVE TLSInv
  OBVIOUS
<1>0. Records \in Nat
  BY DEF TLS!TLSParameters
<1>1. TLSTypes
  BY EmptySeq DEF TLS!Init, TLSTypes, TLS!Callers, Calling
<1>2. TLSHandover
  BY DEF TLS!Init, TLSHandover, Handing
<1>3. TLSPhases
  BY DEF TLS!Init, TLSPhases
<1>4. incoming = <<>> /\ readBio = <<>> /\ unsent = 0 /\ toWrite = Records
  BY DEF TLS!Init
<1>5. peer \in Seq(Messages) /\ Len(peer) <= Records + 2
  <2> DEFINE d == TLS!DataOf(Records)
             h == <<"hello">>
             n == <<"notify">>
  <2>1. d \in Seq(Messages) /\ Len(d) = Records
    BY <1>0, SeqDef, LenProperties DEF TLS!DataOf, Messages
  <2>2. /\ h \in Seq(Messages) /\ n \in Seq(Messages) /\ <<"bad">> \in Seq(Messages)
        /\ Len(h) = 1 /\ Len(n) = 1 /\ Len(<<"bad">>) = 1
    BY DEF Messages
  <2> HIDE DEF d, h, n
  <2>3. h \o d \in Seq(Messages) /\ Len(h \o d) = Records + 1
    <3>1. h \o d \in Seq(Messages) /\ Len(h \o d) = Len(h) + Len(d)
      BY <2>1, <2>2, ConcatProperties
    <3> QED BY <1>0, <2>1, <2>2, <3>1
  <2> DEFINE c == h \o d
  <2> HIDE DEF c
  <2>4. c \in Seq(Messages) /\ Len(c) = Records + 1
    BY <2>3 DEF c
  <2>6. c \o n \in Seq(Messages) /\ Len(c \o n) = Records + 2
    <3>1. c \o n \in Seq(Messages) /\ Len(c \o n) = Len(c) + Len(n)
      BY <2>2, <2>4, ConcatProperties
    <3> QED BY <1>0, <2>2, <2>4, <3>1
  <2>5. peer = c \o n \/ peer = <<"bad">> \/ peer = c
    BY DEF TLS!Init, c, d, h, n
  <2>7. CASE peer = <<"bad">>
    BY <1>0, <2>2, <2>7
  <2>8. CASE peer # <<"bad">>
    <3>1. peer \in Seq(Messages) /\ (Len(peer) = Records + 1 \/ Len(peer) = Records + 2)
      BY <2>4, <2>5, <2>6, <2>8
    <3> QED BY <1>0, <3>1
  <2> QED BY <2>7, <2>8
<1>6. <<>> \in Seq(Messages) /\ Len(<<>>) = 0
  BY EmptySeq
<1>7. TLSCounts
  BY <1>0, <1>4, <1>5, <1>6 DEF TLSCounts
<1> QED BY <1>1, <1>2, <1>3, <1>7 DEF TLSInv

LEMMA TLSPeer ==
  ASSUME TLSInv, TLS!PeerSends \/ TLS!PeerReads \/ TLS!ConnectionLost
  PROVE  TLSInv'
<1>1. TLSTypes /\ TLSCounts /\ TLSHandover /\ TLSPhases
  BY DEF TLSInv
<1>2. CASE TLS!PeerSends
  <2>1. /\ peer # <<>> /\ incoming = <<>> /\ incoming' = <<Head(peer)>> /\ peer' = Tail(peer)
        /\ UNCHANGED <<tlsLost, readBio, tlsEof, written, unsent, sending, toWrite, phase, waiting, transport,
                       tlsPc, sendq, recvq, overtaken>>
    BY <1>2 DEF TLS!PeerSends, TLS!bios
  <2>2. TLSCounts'
    <3>1. peer \in Seq(Messages) /\ readBio \in Seq(Messages)
      BY <1>1 DEF TLSCounts
    <3>2. /\ Head(peer) \in Messages /\ peer' \in Seq(Messages) /\ Len(peer') = Len(peer) - 1
          /\ Len(peer) \in Nat \ {0}
      BY <2>1, <3>1, HeadTailProperties, EmptySeq
    <3>3. incoming' \in Seq(Messages) /\ Len(incoming') = 1
      BY <2>1, <3>2
    <3>4. Len(incoming) = 0 /\ Len(readBio) \in Nat
      BY <2>1, <3>1, EmptySeq, LenProperties
    <3> QED BY <1>1, <2>1, <3>2, <3>3, <3>4 DEF TLSCounts
  <2>3. TLSTypes' /\ TLSHandover' /\ TLSPhases'
    BY <1>1, <2>1 DEF TLSTypes, TLSHandover, TLSPhases, TLS!Holds
  <2> QED BY <2>2, <2>3 DEF TLSInv
<1>3. CASE TLS!PeerReads
  <2>1. /\ unsent' = 0 /\ sending' = {}
        /\ UNCHANGED <<peer, incoming, tlsLost, readBio, tlsEof, written, toWrite, phase, waiting, transport,
                       tlsPc, sendq, recvq, overtaken>>
    BY <1>3 DEF TLS!PeerReads, TLS!net, TLS!bios
  <2>2. TLSCounts'
    <3>1. unsent' \in 0..1
      BY <2>1
    <3> QED BY <1>1, <2>1, <3>1, CountsKept
  <2>3. TLSTypes' /\ TLSHandover' /\ TLSPhases'
    BY <1>1, <2>1 DEF TLSTypes, TLSHandover, TLSPhases, TLS!Holds
  <2> QED BY <2>2, <2>3 DEF TLSInv
<1>4. CASE TLS!ConnectionLost
  <2>1. /\ tlsLost' = TRUE
        /\ UNCHANGED <<peer, incoming, readBio, tlsEof, written, unsent, sending, toWrite, phase, waiting, transport,
                       tlsPc, sendq, recvq, overtaken>>
    BY <1>4 DEF TLS!ConnectionLost, TLS!bios
  <2>2. TLSCounts'
    BY <1>1, <2>1 DEF TLSCounts
  <2>3. TLSTypes' /\ TLSHandover' /\ TLSPhases'
    BY <1>1, <2>1 DEF TLSTypes, TLSHandover, TLSPhases, TLS!Holds
  <2> QED BY <2>2, <2>3 DEF TLSInv
<1> QED BY <1>2, <1>3, <1>4

\* A method of the SSL object.
LEMMA TLSCall ==
  ASSUME TLSInv, NEW t \in TLS!Callers, TLS!Call(t)
  PROVE  TLSInv'
<1>1. TLSTypes /\ TLSCounts /\ TLSHandover /\ TLSPhases
  BY DEF TLSInv
<1>2. /\ tlsPc[t] = "call"
      /\ UNCHANGED <<peer, incoming, tlsLost, unsent, sending, toWrite, waiting, recvq, overtaken>>
  BY DEF TLS!Call, TLS!net
<1>3. tlsPc[t] # "idle" /\ tlsPc[t] \notin Handing /\ sendq \in Seq(TLS!Callers) /\ overtaken' = FALSE
  BY <1>1, <1>2 DEF TLSTypes, TLSHandover, Handing
<1>4. unsent' \in 0..1
  BY <1>1, <1>2 DEF TLSCounts
<1>5. ASSUME TLS!Outcome(TLS!Method(t)) = "result",
             tlsPc' = [tlsPc EXCEPT ![t] = "flush"], sendq' = Append(sendq, t),
             readBio' = IF t = "writer" \/ Head(readBio) = "notify" THEN readBio ELSE Tail(readBio),
             written' = IF t = "writer" THEN written \cup {t} ELSE written,
             UNCHANGED <<tlsEof, phase, transport>>
      PROVE  TLSInv'
  <2>1. /\ sendq' \in Seq(TLS!Callers)
        /\ \A u \in TLS!Callers : TLS!Holds(sendq, u) => TLS!Holds(sendq', u)
    BY <1>3, <1>5, TLSQueues
  <2>2. /\ tlsPc' \in [TLS!Callers -> Calling] /\ tlsPc'[t] \notin Handing
        /\ \A u \in TLS!Callers \ {t} : tlsPc'[u] = tlsPc[u]
    BY <1>1, <1>5 DEF TLSTypes, Calling, Handing
  <2>3. written' \subseteq TLS!Callers
    BY <1>1, <1>5 DEF TLSTypes
  <2>4. TLSTypes'
    BY <1>1, <1>2, <1>5, <2>1, <2>2, <2>3 DEF TLSTypes
  <2>5. TLSCounts'
    <3>1. readBio' # readBio => readBio # <<>> /\ readBio' = Tail(readBio)
      <4>1. t # "writer" => TLS!Method(t) # "write"
        BY DEF TLS!Method, TLS!Callers
      <4>2. t # "writer" => readBio # <<>>
        BY <1>5, <4>1 DEF TLS!Outcome
      <4> QED BY <1>5, <4>2
    <3>2. readBio' \in Seq(Messages) /\ Len(readBio') <= Len(readBio) /\ Len(readBio) \in Nat /\ Len(readBio') \in Nat
      <4>0. readBio \in Seq(Messages)
        BY <1>1 DEF TLSCounts
      <4>1. CASE readBio' = readBio
        BY <4>0, <4>1, LenProperties
      <4>2. CASE readBio' # readBio
        <5>1. readBio' \in Seq(Messages) /\ Len(readBio') = Len(readBio) - 1 /\ Len(readBio) \in Nat \ {0}
          BY <3>1, <4>0, <4>2, HeadTailProperties, EmptySeq
        <5> QED BY <5>1
      <4> QED BY <4>1, <4>2
    <3>3. UNCHANGED <<peer, incoming, unsent, toWrite>>
      BY <1>2
    <3>4. Len(peer) \in Nat /\ Len(incoming) \in Nat
      BY <1>1, LenProperties DEF TLSCounts
    <3> QED
      <4> HIDE <1>5
      <4> QED BY <1>1, <3>2, <3>3, <3>4, TLSAssumption DEF TLSCounts, TLS!TLSParameters
  <2>6. TLSHandover'
    BY <1>1, <1>2, <1>3, <2>1, <2>2, HandoverKept
  <2>7. TLSPhases'
    BY <1>1, <1>3, <1>5, <2>2, PhasesKept
  <2> QED BY <2>4, <2>5, <2>6, <2>7 DEF TLSInv
<1>6. ASSUME tlsPc' = [tlsPc EXCEPT ![t] = "flush first"], sendq' = Append(sendq, t),
             UNCHANGED <<readBio, tlsEof, written, phase, transport>>
      PROVE  TLSInv'
  <2>1. /\ sendq' \in Seq(TLS!Callers)
        /\ \A u \in TLS!Callers : TLS!Holds(sendq, u) => TLS!Holds(sendq', u)
    BY <1>3, <1>6, TLSQueues
  <2>2. /\ tlsPc' \in [TLS!Callers -> Calling] /\ tlsPc'[t] \notin Handing
        /\ \A u \in TLS!Callers \ {t} : tlsPc'[u] = tlsPc[u]
    BY <1>1, <1>6 DEF TLSTypes, Calling, Handing
  <2>3. TLSTypes'
    BY <1>1, <1>2, <1>6, <2>1, <2>2 DEF TLSTypes
  <2>4. TLSCounts'
    BY <1>1, <1>2, <1>4, <1>6, CountsKept
  <2>5. TLSHandover'
    BY <1>1, <1>2, <1>3, <2>1, <2>2, HandoverKept
  <2>6. TLSPhases'
    BY <1>1, <1>3, <1>6, <2>2, PhasesKept
  <2> QED BY <2>3, <2>4, <2>5, <2>6 DEF TLSInv
<1>7. ASSUME tlsEof' = TRUE, tlsPc' = TLS!Ended(t),
             phase' = IF phase = "handshake" THEN "closed" ELSE phase,
             transport' = IF phase = "handshake" THEN "closed" ELSE transport,
             UNCHANGED <<readBio, written, sendq>>
      PROVE  TLSInv'
  <2>1. /\ tlsPc' \in [TLS!Callers -> Calling] /\ tlsPc'[t] \notin Handing
        /\ \A u \in TLS!Callers \ {t} : tlsPc'[u] = tlsPc[u]
    BY <1>1, <1>7, EndedProperties
  <2>2. TLSTypes'
    BY <1>1, <1>2, <1>7, <2>1 DEF TLSTypes
  <2>3. TLSCounts'
    BY <1>1, <1>2, <1>4, <1>7, CountsKept
  <2>4. TLSHandover'
    <3>1. \A u \in TLS!Callers : TLS!Holds(sendq, u) => TLS!Holds(sendq', u)
      BY <1>7
    <3> QED BY <1>1, <1>2, <1>3, <2>1, <3>1, HandoverKept
  <2>5. TLSPhases'
    <3>1. phase' \in {"open", "closing", "closed"} /\ phase' = IF phase = "handshake" THEN phase' ELSE phase
      BY <1>1, <1>7 DEF TLSTypes
    <3> QED BY <1>1, <1>3, <1>7, <3>1, PhasesEnded
  <2> QED BY <2>2, <2>3, <2>4, <2>5 DEF TLSInv
<1> QED BY <1>5, <1>6, <1>7 DEF TLS!Call, TLS!bios

\* A task leaves the send lock with an empty write BIO, and nothing of its own is under way.
LEMMA TLSFlushed ==
  ASSUME TLSInv, NEW t \in TLS!Callers, TLS!Flushed(t), UNCHANGED <<written, unsent, sending>>,
         tlsPc[t] # "idle", t \notin sending, tlsPc[t] \in Handing => sending = {}
  PROVE  TLSInv'
<1>1. TLSTypes /\ TLSCounts /\ TLSHandover /\ TLSPhases
  BY DEF TLSInv
<1>2. /\ sendq' = TLS!RemoveFirst(sendq, t)
      /\ UNCHANGED <<peer, incoming, tlsLost, readBio, tlsEof, toWrite, waiting, transport>>
  BY DEF TLS!Flushed, TLS!net
<1>3. /\ sendq' \in Seq(TLS!Callers)
      /\ \A u \in TLS!Callers \ {t} : TLS!Holds(sendq, u) => TLS!Holds(sendq', u)
  BY <1>1, <1>2, TLSQueues DEF TLSTypes
<1>4. TLSCounts'
  <2>1. unsent' \in 0..1
    BY <1>1 DEF TLSCounts
  <2> QED BY <1>1, <1>2, <2>1, CountsKept
<1>5. sending' = {} \/ (sending' = sending /\ unsent' = unsent /\ tlsPc[t] \notin Handing)
  OBVIOUS
<1>6. CASE tlsPc[t] \in {"flush", "sending"}
  <2>1. tlsPc' = TLS!Ended(t) /\ phase' = TLS!Opened /\ overtaken' = (overtaken \/ t \in sending) /\ UNCHANGED recvq
    BY <1>6 DEF TLS!Flushed
  <2>2. /\ tlsPc' \in [TLS!Callers -> Calling] /\ tlsPc'[t] \notin Handing
        /\ \A u \in TLS!Callers \ {t} : tlsPc'[u] = tlsPc[u]
    BY <1>1, <2>1, EndedProperties
  <2>3. overtaken' = FALSE
    BY <1>1, <2>1 DEF TLSHandover
  <2>4. phase' = IF phase = "handshake" THEN "open" ELSE phase
    BY <2>1 DEF TLS!Opened
  <2>5. TLSTypes'
    BY <1>1, <1>2, <1>3, <2>1, <2>2, <2>4 DEF TLSTypes
  <2>6. TLSHandover'
    BY <1>1, <1>3, <1>5, <2>2, <2>3, HandoverKept
  <2>7. TLSPhases'
    <3>1. phase' \in {"open", "closing", "closed"} /\ phase' = IF phase = "handshake" THEN phase' ELSE phase
      BY <1>1, <2>4 DEF TLSTypes
    <3> QED BY <1>1, <2>1, <3>1, PhasesEnded
  <2> QED BY <1>4, <2>5, <2>6, <2>7 DEF TLSInv
<1>7. CASE tlsPc[t] \notin {"flush", "sending"}
  <2>1. tlsPc' = [tlsPc EXCEPT ![t] = "receive"] /\ recvq' = Append(recvq, t) /\ UNCHANGED <<phase, overtaken>>
    BY <1>7 DEF TLS!Flushed
  <2>2. /\ tlsPc' \in [TLS!Callers -> Calling] /\ tlsPc'[t] \notin Handing
        /\ \A u \in TLS!Callers \ {t} : tlsPc'[u] = tlsPc[u]
    BY <1>1, <2>1 DEF TLSTypes, Calling, Handing
  <2>3. recvq' \in Seq(TLS!Callers)
    BY <1>1, <2>1, TLSQueues DEF TLSTypes
  <2>4. overtaken' = FALSE
    BY <1>1, <2>1 DEF TLSHandover
  <2>5. TLSTypes'
    BY <1>1, <1>2, <1>3, <2>1, <2>2, <2>3 DEF TLSTypes
  <2>6. TLSHandover'
    BY <1>1, <1>3, <1>5, <2>2, <2>4, HandoverKept
  <2>7. TLSPhases'
    BY <1>1, <2>1, <2>2, PhasesKept
  <2> QED BY <1>4, <2>5, <2>6, <2>7 DEF TLSInv
<1> QED BY <1>6, <1>7

\* Under the send lock: nobody else has a send_all() under way.
LEMMA TLSFlush ==
  ASSUME TLSInv, NEW t \in TLS!Callers, TLS!Flush(t)
  PROVE  TLSInv'
<1>1. TLSTypes /\ TLSCounts /\ TLSHandover /\ TLSPhases
  BY DEF TLSInv
<1>2. tlsPc[t] \in {"flush first", "flush"} /\ TLS!Holds(sendq, t)
  BY DEF TLS!Flush, TLS!MayFlush
<1>3. tlsPc[t] # "idle" /\ tlsPc[t] \notin Handing
  BY <1>2 DEF Handing
<1>4. \A u \in TLS!Callers : tlsPc[u] \notin Handing
  BY <1>1, <1>2, <1>3 DEF TLSHandover, TLS!Holds
<1>5. sending = {}
  BY <1>1, <1>4 DEF TLSHandover
<1>6. CASE written = {} /\ TLS!Flushed(t) /\ UNCHANGED <<written, unsent, sending>>
  BY <1>3, <1>5, <1>6, TLSFlushed
<1>7. CASE /\ tlsPc' = [tlsPc EXCEPT ![t] = IF tlsPc[t] = "flush" THEN "sending" ELSE "sending first"]
           /\ written' = {} /\ sending' = sending \cup written /\ unsent' = 1
           /\ UNCHANGED <<peer, incoming, tlsLost, readBio, tlsEof, toWrite, phase, waiting, transport, sendq, recvq,
                          overtaken>>
  <2>0. unsent' = 1 /\ UNCHANGED <<overtaken, sendq>>
    BY <1>7, Zenon
  <2>1. /\ tlsPc' \in [TLS!Callers -> Calling] /\ tlsPc'[t] \in Handing
        /\ \A u \in TLS!Callers \ {t} : tlsPc'[u] = tlsPc[u]
    BY <1>1, <1>7 DEF TLSTypes, Calling, Handing
  <2>2. TLSTypes'
    BY <1>1, <1>7, <2>1 DEF TLSTypes
  <2>3. TLSCounts'
    <3>1. unsent' \in 0..1
      BY <2>0
    <3> QED BY <1>1, <1>7, <3>1, CountsKept
  <2>4. TLSHandover'
    <3>1. unsent' # 0 /\ overtaken' = FALSE /\ sendq' = sendq
      BY <1>1, <2>0 DEF TLSHandover
    <3>2. (\A u \in TLS!Callers : tlsPc[u] \in Handing => TLS!Holds(sendq, u))'
      BY <1>2, <1>4, <2>1, <3>1 DEF TLS!Holds
    <3> QED BY <2>1, <3>1, <3>2 DEF TLSHandover
  <2>5. TLSPhases'
    BY <1>1, <1>3, <1>7, <2>1, PhasesKept
  <2> QED BY <2>2, <2>3, <2>4, <2>5 DEF TLSInv
<1> QED BY <1>6, <1>7 DEF TLS!Flush, TLS!net

LEMMA TLSSent ==
  ASSUME TLSInv, NEW t \in TLS!Callers, TLS!Sent(t)
  PROVE  TLSInv'
<1>1. tlsPc[t] \in {"sending first", "sending"} /\ unsent = 0 /\ TLS!Flushed(t) /\ UNCHANGED <<written, unsent, sending>>
  BY DEF TLS!Sent
<1>2. sending = {}
  BY <1>1 DEF TLSInv, TLSHandover
<1>3. tlsPc[t] # "idle"
  BY <1>1
<1> QED BY <1>1, <1>2, <1>3, TLSFlushed

LEMMA TLSReceive ==
  ASSUME TLSInv, NEW t \in TLS!Callers, TLS!Receive(t)
  PROVE  TLSInv'
<1>1. TLSTypes /\ TLSCounts /\ TLSHandover /\ TLSPhases
  BY DEF TLSInv
<1>2. /\ TLS!Holds(recvq, t) /\ tlsPc[t] = "receive" /\ recvq' = Tail(recvq)
      /\ tlsPc' = [tlsPc EXCEPT ![t] = "call"]
      /\ UNCHANGED <<peer, tlsLost, written, unsent, sending, toWrite, phase, waiting, transport, sendq, overtaken>>
  BY DEF TLS!Receive
<1>3. /\ tlsPc' \in [TLS!Callers -> Calling] /\ tlsPc'[t] \notin Handing /\ tlsPc[t] \notin Handing
      /\ \A u \in TLS!Callers \ {t} : tlsPc'[u] = tlsPc[u]
  BY <1>1, <1>2 DEF TLSTypes, Calling, Handing
<1>4. recvq' \in Seq(TLS!Callers)
  <2>1. recvq # <<>> /\ recvq \in Seq(TLS!Callers)
    BY <1>1, <1>2 DEF TLS!Holds, TLSTypes
  <2> QED BY <1>2, <2>1, HeadTailProperties
<1>5. \/ readBio' = readBio \o incoming /\ incoming' = <<>> /\ tlsEof' = tlsEof
      \/ tlsEof' = TRUE /\ UNCHANGED <<readBio, incoming>>
  BY DEF TLS!Receive
<1>6. TLSTypes'
  BY <1>1, <1>2, <1>3, <1>4, <1>5 DEF TLSTypes
<1>7. TLSCounts'
  <2>0. /\ readBio \in Seq(Messages) /\ incoming \in Seq(Messages) /\ Len(readBio) \in Nat /\ Len(incoming) \in Nat
        /\ Len(peer) \in Nat
    BY <1>1, LenProperties DEF TLSCounts
  <2>1. CASE readBio' = readBio \o incoming /\ incoming' = <<>>
    <3>1. readBio' \in Seq(Messages) /\ Len(readBio') = Len(readBio) + Len(incoming)
      BY <2>0, <2>1, ConcatProperties
    <3>2. incoming' \in Seq(Messages) /\ Len(incoming') = 0
      BY <2>1, EmptySeq
    <3>3. UNCHANGED <<peer, unsent, toWrite>>
      BY <1>2
    <3>4. Len(peer') + Len(incoming') + Len(readBio') <= Records + 2 /\ Len(incoming') <= 1
      <4>1. Len(peer) + Len(incoming) + Len(readBio) <= Records + 2
        BY <1>1 DEF TLSCounts
      <4>2. Len(peer') = Len(peer)
        BY <3>3
      <4> QED BY <2>0, <3>1, <3>2, <4>1, <4>2, TLSAssumption DEF TLS!TLSParameters
    <3> QED BY <1>1, <3>1, <3>2, <3>3, <3>4 DEF TLSCounts
  <2>2. CASE UNCHANGED <<readBio, incoming>>
    <3>1. UNCHANGED <<peer, incoming, readBio, unsent, toWrite>>
      BY <1>2, <2>2
    <3> QED BY <1>1, <3>1 DEF TLSCounts
  <2> QED BY <1>5, <2>1, <2>2
<1>8. TLSHandover'
  <2>1. overtaken' = FALSE /\ \A u \in TLS!Callers : TLS!Holds(sendq, u) => TLS!Holds(sendq', u)
    BY <1>1, <1>2 DEF TLSHandover
  <2> QED BY <1>1, <1>2, <1>3, <2>1, HandoverKept
<1>9. TLSPhases'
  <2>1. tlsPc[t] # "idle" /\ phase' = phase
    BY <1>2
  <2> QED BY <1>1, <1>3, <2>1, PhasesKept
<1> QED BY <1>6, <1>7, <1>8, <1>9 DEF TLSInv

\* A call that ends with an exception gives back its locks.
LEMMA TLSLeave ==
  ASSUME TLSInv, NEW t \in TLS!Callers, TLS!Leave(t), tlsEof' \in BOOLEAN, tlsPc[t] # "idle"
  PROVE  TLSInv'
<1>1. TLSTypes /\ TLSCounts /\ TLSHandover /\ TLSPhases
  BY DEF TLSInv
<1>2. /\ sendq' = TLS!RemoveFirst(sendq, t) /\ recvq' = TLS!RemoveFirst(recvq, t)
      /\ sending' = IF tlsPc[t] \in Handing THEN {} ELSE sending
      /\ tlsPc' = TLS!Ended(t)
      /\ phase' = IF phase = "handshake" THEN "closed" ELSE phase
      /\ transport' = IF phase = "handshake" THEN "closed" ELSE transport
      /\ UNCHANGED <<peer, incoming, tlsLost, readBio, written, unsent, toWrite, waiting, overtaken>>
  BY DEF TLS!Leave, TLS!net, Handing
<1>3. /\ sendq' \in Seq(TLS!Callers) /\ recvq' \in Seq(TLS!Callers)
      /\ \A u \in TLS!Callers \ {t} : TLS!Holds(sendq, u) => TLS!Holds(sendq', u)
  BY <1>1, <1>2, TLSQueues DEF TLSTypes
<1>4. /\ tlsPc' \in [TLS!Callers -> Calling] /\ tlsPc'[t] \notin Handing
      /\ \A u \in TLS!Callers \ {t} : tlsPc'[u] = tlsPc[u]
  BY <1>1, <1>2, EndedProperties
<1>5. TLSTypes'
  BY <1>1, <1>2, <1>3, <1>4 DEF TLSTypes
<1>6. TLSCounts'
  BY <1>1, <1>2 DEF TLSCounts
<1>7. TLSHandover'
  <2>1. overtaken' = FALSE
    BY <1>1, <1>2 DEF TLSHandover
  <2> QED BY <1>1, <1>2, <1>3, <1>4, <2>1, HandoverKept
<1>8. TLSPhases'
  <2>1. phase' \in {"open", "closing", "closed"} /\ phase' = IF phase = "handshake" THEN phase' ELSE phase
    BY <1>1, <1>2 DEF TLSTypes
  <2> QED BY <1>1, <1>2, <2>1, PhasesEnded
<1> QED BY <1>5, <1>6, <1>7, <1>8 DEF TLSInv

LEMMA TLSRaises ==
  ASSUME TLSInv, NEW t \in TLS!Callers, TLS!SendFails(t) \/ TLS!Cancelled(t)
  PROVE  TLSInv'
<1>1. TLS!Leave(t) /\ tlsPc[t] # "idle"
  BY DEF TLS!SendFails, TLS!Cancelled
<1>2. tlsEof' \in BOOLEAN
  <2>1. tlsEof \in BOOLEAN
    BY DEF TLSInv, TLSTypes
  <2>2. tlsEof' = tlsEof \/ tlsEof' = (tlsEof \/ tlsPc[t] \in {"flush first", "sending first"})
    BY DEF TLS!SendFails, TLS!Cancelled
  <2> QED BY <2>1, <2>2
<1> QED BY <1>1, <1>2, TLSLeave

LEMMA TLSBegin ==
  ASSUME TLSInv, TLS!Recv \/ TLS!SendAll
  PROVE  TLSInv'
<1>1. TLSTypes /\ TLSCounts /\ TLSHandover /\ TLSPhases
  BY DEF TLSInv
<1>2. PICK t \in {"reader", "writer"} :
        /\ tlsPc[t] = "idle" /\ tlsPc' = [tlsPc EXCEPT ![t] = "call"] /\ phase = "open"
        /\ UNCHANGED <<peer, incoming, tlsLost, readBio, tlsEof, written, unsent, sending, phase, waiting, transport,
                       sendq, recvq, overtaken>>
  BY DEF TLS!Recv, TLS!SendAll, TLS!net, TLS!bios
<1>3. t \in TLS!Callers /\ t # "owner"
  BY <1>2 DEF TLS!Callers
<1>4. toWrite' = toWrite \/ (toWrite > 0 /\ toWrite' = toWrite - 1)
  BY DEF TLS!Recv, TLS!SendAll
<1>5. TLSCounts'
  <2>1. toWrite' \in 0..Records
    BY <1>1, <1>4, TLSAssumption DEF TLSCounts, TLS!TLSParameters
  <2>2. UNCHANGED <<peer, incoming, readBio, unsent>>
    BY <1>2
  <2> QED BY <1>1, <2>1, <2>2 DEF TLSCounts
<1>6. /\ tlsPc' \in [TLS!Callers -> Calling] /\ tlsPc'[t] \notin Handing /\ tlsPc[t] \notin Handing
      /\ \A u \in TLS!Callers \ {t} : tlsPc'[u] = tlsPc[u]
  BY <1>1, <1>2, <1>3 DEF TLSTypes, Calling, Handing
<1>7. TLSTypes'
  BY <1>1, <1>2, <1>6 DEF TLSTypes
<1>8. TLSHandover'
  <2>1. overtaken' = FALSE /\ \A u \in TLS!Callers : TLS!Holds(sendq, u) => TLS!Holds(sendq', u)
    BY <1>1, <1>2 DEF TLSHandover
  <2> QED BY <1>1, <1>2, <1>3, <1>6, <2>1, HandoverKept
<1>9. TLSPhases'
  BY <1>1, <1>2, <1>3, <1>6, OwnerIsCaller DEF TLSPhases
<1> QED BY <1>5, <1>7, <1>8, <1>9 DEF TLSInv

LEMMA TLSClose ==
  ASSUME TLSInv, TLS!Close
  PROVE  TLSInv'
<1>1. TLSTypes /\ TLSCounts /\ TLSHandover /\ TLSPhases
  BY DEF TLSInv
<1>2. PICK c \in {"call", "close"} :
        /\ phase = "open" /\ phase' = "closing" /\ tlsPc' = [tlsPc EXCEPT !["owner"] = c]
        /\ (written' = written \cup {"owner"} \/ UNCHANGED written)
        /\ UNCHANGED <<peer, incoming, tlsLost, readBio, tlsEof, unsent, sending, toWrite, waiting, transport,
                       sendq, recvq, overtaken>>
  BY DEF TLS!Close, TLS!net
<1>3. tlsPc["owner"] = "idle"
  BY <1>1, <1>2 DEF TLSPhases
<1>4. /\ tlsPc' \in [TLS!Callers -> Calling] /\ tlsPc'["owner"] \notin Handing /\ tlsPc["owner"] \notin Handing
      /\ \A u \in TLS!Callers \ {"owner"} : tlsPc'[u] = tlsPc[u]
  BY <1>1, <1>2, <1>3, OwnerIsCaller DEF TLSTypes, Calling, Handing
<1>5. TLSTypes'
  BY <1>1, <1>2, <1>4, OwnerIsCaller DEF TLSTypes
<1>6. TLSCounts'
  BY <1>1, <1>2 DEF TLSCounts
<1>7. TLSHandover'
  <2>1. overtaken' = FALSE /\ \A u \in TLS!Callers : TLS!Holds(sendq, u) => TLS!Holds(sendq', u)
    BY <1>1, <1>2 DEF TLSHandover
  <2> QED BY <1>1, <1>2, <1>4, <2>1, OwnerIsCaller, HandoverKept
<1>8. TLSPhases'
  BY <1>2 DEF TLSPhases
<1> QED BY <1>5, <1>6, <1>7, <1>8 DEF TLSInv

\* The end of aclose(): what was being sent is the transport's.
LEMMA TLSClosed ==
  ASSUME TLSInv, TLS!CloseTransport \/ TLS!ShutdownTimeout
  PROVE  TLSInv'
<1>1. TLSTypes /\ TLSCounts /\ TLSHandover /\ TLSPhases
  BY DEF TLSInv
<1>2. /\ transport' = "closed" /\ phase' = "closed" /\ tlsPc' = [tlsPc EXCEPT !["owner"] = "idle"]
      /\ sendq' = TLS!RemoveFirst(sendq, "owner") /\ recvq' = TLS!RemoveFirst(recvq, "owner") /\ sending' = {}
      /\ UNCHANGED <<peer, incoming, tlsLost, readBio, written, unsent, toWrite, overtaken>>
  BY DEF TLS!CloseTransport, TLS!ShutdownTimeout, TLS!Closed, TLS!net, TLS!bios
<1>3. waiting' \in BOOLEAN /\ tlsEof' \in BOOLEAN
  BY <1>1 DEF TLS!CloseTransport, TLS!ShutdownTimeout, TLS!Closed, TLS!Releases, TLS!bios, TLSTypes
<1>4. /\ sendq' \in Seq(TLS!Callers) /\ recvq' \in Seq(TLS!Callers)
      /\ \A u \in TLS!Callers \ {"owner"} : TLS!Holds(sendq, u) => TLS!Holds(sendq', u)
  BY <1>1, <1>2, OwnerIsCaller, TLSQueues DEF TLSTypes
<1>5. /\ tlsPc' \in [TLS!Callers -> Calling] /\ tlsPc'["owner"] \notin Handing
      /\ \A u \in TLS!Callers \ {"owner"} : tlsPc'[u] = tlsPc[u]
  BY <1>1, <1>2, OwnerIsCaller DEF TLSTypes, Calling, Handing
<1>6. TLSTypes'
  BY <1>1, <1>2, <1>3, <1>4, <1>5 DEF TLSTypes
<1>7. TLSCounts'
  BY <1>1, <1>2 DEF TLSCounts
<1>8. TLSHandover'
  <2>1. overtaken' = FALSE
    BY <1>1, <1>2 DEF TLSHandover
  <2> QED BY <1>1, <1>2, <1>4, <1>5, <2>1, OwnerIsCaller, HandoverKept
<1>9. TLSPhases'
  BY <1>2 DEF TLSPhases
<1> QED BY <1>6, <1>7, <1>8, <1>9 DEF TLSInv

LEMMA TLSStep == TLSInv /\ [TLS!Next]_tlsVars => TLSInv'
<1> SUFFICES ASSUME TLSInv, [TLS!Next]_tlsVars PROVE TLSInv'
  OBVIOUS
<1>1. CASE TLS!PeerSends \/ TLS!PeerReads \/ TLS!ConnectionLost
  BY <1>1, TLSPeer
<1>2. ASSUME NEW t \in TLS!Callers, TLS!Retry(t) \/ TLS!Cancelled(t) PROVE TLSInv'
  BY <1>2, TLSCall, TLSFlush, TLSSent, TLSReceive, TLSRaises DEF TLS!Retry
<1>3. CASE TLS!Recv \/ TLS!SendAll
  BY <1>3, TLSBegin
<1>4. CASE TLS!Close
  BY <1>4, TLSClose
<1>5. CASE TLS!CloseTransport \/ TLS!ShutdownTimeout
  BY <1>5, TLSClosed
<1>6. CASE TLS!CloseAgain \/ UNCHANGED tlsVars
  <2>1. /\ waiting' = TRUE \/ waiting' = waiting
        /\ UNCHANGED <<peer, incoming, tlsLost, readBio, tlsEof, written, unsent, sending, toWrite, phase, transport,
                       tlsPc, sendq, recvq, overtaken>>
    BY <1>6 DEF TLS!CloseAgain, TLS!net, TLS!bios, tlsVars
  <2>2. TLSTypes'
    BY <2>1 DEF TLSInv, TLSTypes
  <2>3. TLSCounts'
    BY <2>1 DEF TLSInv, TLSCounts
  <2>4. TLSHandover' /\ TLSPhases'
    BY <2>1 DEF TLSInv, TLSHandover, TLSPhases, TLS!Holds
  <2> QED BY <2>2, <2>3, <2>4 DEF TLSInv
<1> QED BY <1>1, <1>2, <1>3, <1>4, <1>5, <1>6 DEF TLS!Next

\* The types of the part, and that its sends are not overtaken.
LEMMA TLSIsSafe == TLSInv => TLS!TypeOK /\ TLS!SentIsGone
<1> SUFFICES ASSUME TLSInv PROVE TLS!TypeOK /\ TLS!SentIsGone
  OBVIOUS
<1>1. TLSTypes /\ TLSCounts /\ TLSHandover
  BY DEF TLSInv
<1>2. TLS!SentIsGone /\ overtaken \in BOOLEAN
  BY <1>1 DEF TLSHandover, TLS!SentIsGone
<1>3. Len(peer) <= Records + 2 /\ Len(incoming) <= 1 /\ Len(readBio) <= Records + 2
  <2>1. Len(peer) \in Nat /\ Len(incoming) \in Nat /\ Len(readBio) \in Nat
    BY <1>1, LenProperties DEF TLSCounts
  <2>2. Len(peer) + Len(incoming) + Len(readBio) <= Records + 2 /\ Len(incoming) <= 1
    BY <1>1 DEF TLSCounts
  <2> QED BY <2>1, <2>2, TLSAssumption DEF TLS!TLSParameters
<1>4. unsent \in 0..1 /\ toWrite \in 0..Records
  BY <1>1 DEF TLSCounts
<1>5. {tlsLost, tlsEof, waiting, overtaken} \subseteq BOOLEAN
  BY <1>1, <1>2 DEF TLSTypes
<1>6. written \cup sending \subseteq TLS!Callers
  BY <1>1 DEF TLSTypes
<1>7. /\ phase \in {"handshake", "open", "closing", "closed"} /\ transport \in {"open", "closed"}
      /\ tlsPc \in [TLS!Callers -> Calling]
  BY <1>1 DEF TLSTypes
<1> QED BY <1>2, <1>3, <1>4, <1>5, <1>6, <1>7 DEF TLS!TypeOK, Calling

-----------------------------------------------------------------------------
(* The transports on a socket of the event loop *)

Items == [run : {"step", "unwatch"}, of : Raw!Callers]

Ahead(q, a, b) == \A i, j \in 1..Len(q) : q[i] = a /\ q[j] = b => i < j

\* A queue of the event loop, and the tasks that are to run: each has one step in it,
\* behind the done callback of its future if that one has still to run.
Orderly(q, W) ==
  /\ q \in Seq(Items) /\ IsInjective(q)
  /\ \A t \in Raw!Callers : /\ Raw!Step(t) \in ToSet(q) <=> t \in W
                            /\ Raw!Unwatch(t) \in ToSet(q) => t \in W
                            /\ Ahead(q, Raw!Unwatch(t), Raw!Step(t))

RawTypes ==
  /\ rawPc \in [Raw!Callers -> {"idle", "waiting", "yielding", "draining", "drained"}]
  /\ thrown \subseteq woken /\ woken \subseteq {t \in Raw!Callers : rawPc[t] # "idle"}
  /\ watched \subseteq {t \in Raw!Callers \ {"closer"} : rawPc[t] = "waiting"}
  /\ taken \in BOOLEAN /\ descriptor \in {"open", "closed"} /\ cut \in {"no", "yielding", "draining", "drained"}

\* A task that is to run and is still in the selector will be taken off it.
RawQueue == Orderly(ready, woken) /\ \A t \in watched \cap woken : Raw!Unwatch(t) \in ToSet(ready)

\* Where aclose() is: while it yields, the receiver it cancelled is ahead of it in the
\* queue; it waits for the sender, and nobody waits for the socket when it goes on.
RawClosing ==
  /\ rawPc["closer"] # "waiting"
  /\ ~taken => rawPc["closer"] = "idle" /\ descriptor = "open"
  /\ rawPc["closer"] = "yielding" =>
       /\ "closer" \in woken
       /\ rawPc["receiver"] = "idle" \/ "receiver" \in thrown
       /\ Ahead(ready, Raw!Step("receiver"), Raw!Step("closer"))
  /\ rawPc["closer"] \in {"draining", "drained"} => rawPc["receiver"] = "idle"
  /\ rawPc["closer"] = "draining" => rawPc["sender"] # "idle" /\ ("closer" \in woken => "closer" \in thrown)
  /\ rawPc["closer"] = "drained" => rawPc["sender"] # "waiting"
  /\ descriptor = "closed" => rawPc["closer"] = "idle"

RawInv == RawTypes /\ RawQueue /\ RawClosing /\ Raw!NoneWatchedClosed

LEMMA RawCallers == Raw!Callers = {"receiver", "sender", "closer"}
BY DEF Raw!Callers

LEMMA RawItems ==
  /\ \A t \in Raw!Callers : Raw!Step(t) \in Items /\ Raw!Unwatch(t) \in Items
  /\ \A t, u \in Raw!Callers : /\ Raw!Step(t) # Raw!Unwatch(u)
                               /\ Raw!Step(t) = Raw!Step(u) => t = u
                               /\ Raw!Unwatch(t) = Raw!Unwatch(u) => t = u
  /\ \A t \in Raw!Callers : /\ Raw!Step(t).run = "step" /\ Raw!Step(t).of = t
                            /\ Raw!Unwatch(t).run = "unwatch" /\ Raw!Unwatch(t).of = t
  /\ \A x \in Items : \E t \in Raw!Callers : x = Raw!Step(t) \/ x = Raw!Unwatch(t)
BY DEF Items, Raw!Step, Raw!Unwatch

\* What is ahead of what, when an item is added behind or taken in front.
LEMMA AheadAppend ==
  ASSUME NEW S, NEW q \in Seq(S), NEW e \in S, NEW a, NEW b,
         \/ Ahead(q, a, b) /\ a # e
         \/ b \notin ToSet(q) /\ b # e
  PROVE  Ahead(Append(q, e), a, b)
<1> DEFINE s == Append(q, e)
<1>1. /\ Len(q) \in Nat /\ Len(s) = Len(q) + 1
      /\ \A i \in 1..Len(q) : s[i] = q[i]
      /\ s[Len(q) + 1] = e
  BY LenProperties, AppendProperties
<1>2. \A i \in 1..Len(q) : q[i] \in ToSet(q)
  BY LenProperties DEF ToSet
<1> HIDE DEF s
<1>3. ASSUME NEW i \in 1..Len(s), NEW j \in 1..Len(s), s[i] = a, s[j] = b PROVE i < j
  <2>1. CASE j = Len(q) + 1
    <3>1. i # Len(q) + 1
      BY <1>1, <1>3, <2>1
    <3> QED BY <1>1, <2>1, <3>1
  <2>2. CASE j # Len(q) + 1
    <3>1. j \in 1..Len(q) /\ q[j] = b
      BY <1>1, <1>3, <2>2
    <3>2. Ahead(q, a, b) /\ a # e
      BY <1>2, <3>1
    <3>3. i \in 1..Len(q) /\ q[i] = a
      BY <1>1, <1>3, <3>2
    <3> QED BY <3>1, <3>2, <3>3 DEF Ahead
  <2> QED BY <2>1, <2>2
<1> QED BY <1>3 DEF Ahead, s

LEMMA AheadTail ==
  ASSUME NEW S, NEW q \in Seq(S), q # <<>>
  PROVE  /\ \A a, b : Ahead(q, a, b) => Ahead(Tail(q), a, b)
         /\ \A a : Ahead(q, a, Head(q)) => a \notin ToSet(q)
<1>1. /\ Len(q) \in Nat \ {0} /\ Head(q) = q[1] /\ Len(Tail(q)) = Len(q) - 1
      /\ \A i \in 1..(Len(q) - 1) : Tail(q)[i] = q[i + 1]
  BY EmptySeq, HeadTailProperties
<1>2. ASSUME NEW a, NEW b, Ahead(q, a, b) PROVE Ahead(Tail(q), a, b)
  <2>1. ASSUME NEW i \in 1..(Len(q) - 1), NEW j \in 1..(Len(q) - 1), Tail(q)[i] = a, Tail(q)[j] = b PROVE i < j
    <3>1. i + 1 \in 1..Len(q) /\ j + 1 \in 1..Len(q) /\ q[i + 1] = a /\ q[j + 1] = b
      BY <1>1, <2>1
    <3>2. i + 1 < j + 1
      BY <1>2, <3>1 DEF Ahead
    <3> QED BY <1>1, <3>2
  <2> QED BY <1>1, <2>1 DEF Ahead
<1>3. ASSUME NEW a, Ahead(q, a, Head(q)) PROVE a \notin ToSet(q)
  <2>1. \A i \in 1..Len(q) : q[i] = a => i < 1
    BY <1>1, <1>3 DEF Ahead
  <2>2. \A i \in 1..Len(q) : q[i] # a
    BY <1>1, <2>1
  <2> QED BY <2>2, LenProperties DEF ToSet
<1> QED BY <1>2, <1>3

\* One more step at the end of the queue.
LEMMA QueueStep ==
  ASSUME NEW q, NEW W, Orderly(q, W), NEW t \in Raw!Callers, t \notin W
  PROVE  /\ Orderly(Append(q, Raw!Step(t)), W \cup {t})
         /\ q \o <<Raw!Step(t)>> = Append(q, Raw!Step(t))
         /\ ToSet(Append(q, Raw!Step(t))) = ToSet(q) \cup {Raw!Step(t)}
         /\ \A a, b : Ahead(q, a, b) /\ a # Raw!Step(t) => Ahead(Append(q, Raw!Step(t)), a, b)
<1> DEFINE e == Raw!Step(t)
           s == Append(q, e)
<1>1. q \in Seq(Items) /\ IsInjective(q) /\ e \in Items /\ e \notin ToSet(q)
  BY RawItems DEF Orderly
<1>2. \A u \in Raw!Callers : Raw!Unwatch(u) # e /\ (Raw!Step(u) = e => u = t)
  BY RawItems
<1> HIDE DEF e
<1>3. s \in Seq(Items) /\ IsInjective(s)
  BY <1>1, AppendProperties, AppendKeepsInjective
<1>4. ToSet(s) = ToSet(q) \cup {e}
  BY <1>1, ToSetProperties
<1>5. q \o <<e>> = s
  BY <1>1, AppendIsConcat
<1>6. \A a, b : Ahead(q, a, b) /\ a # e => Ahead(s, a, b)
  BY <1>1, AheadAppend
<1> HIDE DEF s
<1>7. Orderly(s, W \cup {t})
  <2>1. ASSUME NEW u \in Raw!Callers
        PROVE /\ Raw!Step(u) \in ToSet(s) <=> u \in W \cup {t}
              /\ Raw!Unwatch(u) \in ToSet(s) => u \in W \cup {t}
              /\ Ahead(s, Raw!Unwatch(u), Raw!Step(u))
    <3>1. Raw!Step(u) \in ToSet(s) <=> u \in W \cup {t}
      BY <1>2, <1>4 DEF Orderly, e
    <3>2. Raw!Unwatch(u) \in ToSet(s) => u \in W \cup {t}
      BY <1>2, <1>4 DEF Orderly
    <3>3. Ahead(s, Raw!Unwatch(u), Raw!Step(u))
      BY <1>2, <1>6 DEF Orderly
    <3> QED BY <3>1, <3>2, <3>3
  <2> QED BY <1>3, <2>1 DEF Orderly
<1> QED BY <1>4, <1>5, <1>6, <1>7 DEF e, s

\* What is queued when a future is done.
LEMMA QueueDone ==
  ASSUME NEW q, NEW W, Orderly(q, W), NEW t \in Raw!Callers, t \notin W
  PROVE  /\ Orderly(q \o Raw!DoneOf(t), W \cup {t})
         /\ ToSet(q) \subseteq ToSet(q \o Raw!DoneOf(t))
         /\ rawPc[t] = "waiting" => Raw!Unwatch(t) \in ToSet(q \o Raw!DoneOf(t))
         /\ \A a, b : Ahead(q, a, b) /\ a \notin {Raw!Step(t), Raw!Unwatch(t)} => Ahead(q \o Raw!DoneOf(t), a, b)
<1>1. CASE rawPc[t] # "waiting"
  <2>1. Raw!DoneOf(t) = <<Raw!Step(t)>>
    BY <1>1 DEF Raw!DoneOf
  <2>2. q \o Raw!DoneOf(t) = Append(q, Raw!Step(t))
    BY <2>1, QueueStep
  <2> QED BY <1>1, <2>2, QueueStep
<1>2. CASE rawPc[t] = "waiting"
  <2> DEFINE e == Raw!Step(t)
             w == Raw!Unwatch(t)
             p == Append(q, w)
             s == Append(p, e)
  <2>1. /\ q \in Seq(Items) /\ IsInjective(q) /\ e \in Items /\ w \in Items /\ e # w
        /\ e \notin ToSet(q) /\ w \notin ToSet(q)
    BY RawItems DEF Orderly
  <2>2. \A u \in Raw!Callers : /\ Raw!Unwatch(u) # e /\ Raw!Step(u) # w
                               /\ Raw!Step(u) = e => u = t
                               /\ Raw!Unwatch(u) = w => u = t
    BY RawItems
  <2>3. q \o Raw!DoneOf(t) = s
    <3>1. Raw!DoneOf(t) = <<w, e>>
      BY <1>2 DEF Raw!DoneOf
    <3> HIDE DEF e, w
    <3>2. <<w>> \o <<e>> = <<w, e>>
      <4>1. <<w>> \in Seq(Items)
        BY <2>1
      <4>2. <<w>> \o <<e>> = Append(<<w>>, e)
        BY <2>1, <4>1, AppendIsConcat
      <4>3. Append(<<w>>, e) = <<w, e>>
        <5> DEFINE a == Append(<<w>>, e)
                   b == <<w, e>>
        <5>1. <<w>> \in Seq(Items) /\ Len(<<w>>) = 1 /\ <<w>>[1] = w
          BY <2>1
        <5>2. a \in Seq(Items) /\ Len(a) = 2 /\ a[1] = w /\ a[2] = e
          <6>1. a \in Seq(Items) /\ Len(a) = Len(<<w>>) + 1 /\ a[Len(<<w>>) + 1] = e
                /\ \A i \in 1..Len(<<w>>) : a[i] = <<w>>[i]
            BY <2>1, <5>1, AppendProperties
          <6> QED BY <5>1, <6>1
        <5>3. b \in Seq(Items) /\ Len(b) = 2 /\ b[1] = w /\ b[2] = e
          BY <2>1
        <5> HIDE DEF a, b
        <5>4. \A i \in 1..Len(a) : a[i] = b[i]
          BY <5>2, <5>3
        <5>5. a = b
          BY <5>2, <5>3, <5>4, SeqEqual
        <5> QED BY <5>5 DEF a, b
      <4> QED BY <4>2, <4>3
    <3>3. q \o <<w>> = p /\ p \in Seq(Items)
      BY <2>1, AppendIsConcat, AppendProperties
    <3>4. p \o <<e>> = s
      <4> HIDE DEF p
      <4> QED BY <2>1, <3>3, AppendIsConcat
    <3>5. (q \o <<w>>) \o <<e>> = q \o (<<w>> \o <<e>>)
      BY <2>1, ConcatAssociative
    <3> QED BY <3>1, <3>2, <3>3, <3>4, <3>5
  <2> HIDE DEF e, w
  <2>4. p \in Seq(Items) /\ IsInjective(p) /\ ToSet(p) = ToSet(q) \cup {w}
    <3>1. p \in Seq(Items)
      BY <2>1, AppendProperties
    <3>2. IsInjective(p)
      BY <2>1, AppendKeepsInjective
    <3> QED BY <2>1, <3>1, <3>2, ToSetProperties
  <2>5. \A a, b : (Ahead(q, a, b) /\ a # w) \/ (b \notin ToSet(q) /\ b # w) => Ahead(p, a, b)
    BY <2>1, AheadAppend
  <2> HIDE DEF p
  <2>6. s \in Seq(Items) /\ IsInjective(s) /\ ToSet(s) = ToSet(p) \cup {e}
    <3>1. s \in Seq(Items)
      BY <2>1, <2>4, AppendProperties
    <3>2. IsInjective(s)
      BY <2>1, <2>4, AppendKeepsInjective
    <3> QED BY <2>1, <2>4, <3>1, <3>2, ToSetProperties
  <2>7. \A a, b : Ahead(p, a, b) /\ a # e => Ahead(s, a, b)
    BY <2>1, <2>4, AheadAppend
  <2> HIDE DEF s
  <2>8. Orderly(s, W \cup {t})
    <3>1. ASSUME NEW u \in Raw!Callers
          PROVE /\ Raw!Step(u) \in ToSet(s) <=> u \in W \cup {t}
                /\ Raw!Unwatch(u) \in ToSet(s) => u \in W \cup {t}
                /\ Ahead(s, Raw!Unwatch(u), Raw!Step(u))
      <4>1. Raw!Step(u) \in ToSet(s) <=> u \in W \cup {t}
        BY <2>2, <2>4, <2>6 DEF Orderly, e
      <4>2. Raw!Unwatch(u) \in ToSet(s) => u \in W \cup {t}
        BY <2>2, <2>4, <2>6 DEF Orderly
      <4>3. Ahead(s, Raw!Unwatch(u), Raw!Step(u))
        <5>1. CASE u = t
          <6>1. Ahead(p, w, e)
            BY <2>1, <2>5
          <6> QED BY <2>1, <2>7, <5>1, <6>1 DEF e, w
        <5>2. CASE u # t
          <6>1. Ahead(q, Raw!Unwatch(u), Raw!Step(u)) /\ Raw!Unwatch(u) # w /\ Raw!Unwatch(u) # e
            BY <2>2, <5>2 DEF Orderly
          <6> QED BY <2>5, <2>7, <6>1
        <5> QED BY <5>1, <5>2
      <4> QED BY <4>1, <4>2, <4>3
    <3> QED BY <2>6, <3>1 DEF Orderly
  <2>9. \A a, b : Ahead(q, a, b) /\ a \notin {e, w} => Ahead(s, a, b)
    BY <2>5, <2>7
  <2>10. ToSet(q) \subseteq ToSet(s) /\ w \in ToSet(s)
    BY <2>4, <2>6
  <2> QED BY <2>3, <2>8, <2>9, <2>10 DEF e, w
<1> QED BY <1>1, <1>2

\* The event loop takes the first item.
LEMMA QueueRuns ==
  ASSUME NEW q, NEW W, Orderly(q, W), q # <<>>
  PROVE  /\ Head(q) \in Items /\ ToSet(Tail(q)) = ToSet(q) \ {Head(q)}
         /\ \A a, b : Ahead(q, a, b) => Ahead(Tail(q), a, b)
         /\ \A a : Ahead(q, a, Head(q)) => a \notin ToSet(q)
         /\ \A t \in Raw!Callers :
              /\ Head(q) = Raw!Step(t) => t \in W /\ Raw!Unwatch(t) \notin ToSet(q) /\ Orderly(Tail(q), W \ {t})
              /\ Head(q) = Raw!Unwatch(t) => Orderly(Tail(q), W)
<1>1. q \in Seq(Items) /\ IsInjective(q)
  BY DEF Orderly
<1>2. Head(q) \in Items /\ Tail(q) \in Seq(Items) /\ Head(q) \in ToSet(q)
  BY <1>1, HeadTailProperties, ToSetProperties
<1>3. /\ \A a, b : Ahead(q, a, b) => Ahead(Tail(q), a, b)
      /\ \A a : Ahead(q, a, Head(q)) => a \notin ToSet(q)
  BY <1>1, AheadTail
<1>4. ToSet(Tail(q)) = ToSet(q) \ {Head(q)} /\ IsInjective(Tail(q))
  <2>1. /\ Len(q) \in Nat \ {0} /\ Head(q) = q[1] /\ DOMAIN q = 1..Len(q) /\ DOMAIN Tail(q) = 1..(Len(q) - 1)
        /\ \A i \in 1..(Len(q) - 1) : Tail(q)[i] = q[i + 1]
    BY <1>1, EmptySeq, HeadTailProperties, LenProperties
  <2>2. \A i, j \in 1..Len(q) : q[i] = q[j] => i = j
    BY <1>1, <2>1 DEF IsInjective
  <2>3. IsInjective(Tail(q))
    <3>1. ASSUME NEW i \in 1..(Len(q) - 1), NEW j \in 1..(Len(q) - 1), Tail(q)[i] = Tail(q)[j] PROVE i = j
      <4>1. i + 1 \in 1..Len(q) /\ j + 1 \in 1..Len(q) /\ q[i + 1] = q[j + 1]
        BY <2>1, <3>1
      <4>2. i + 1 = j + 1
        BY <2>2, <4>1
      <4> QED BY <2>1, <4>2
    <3> QED BY <2>1, <3>1 DEF IsInjective
  <2>4. Head(q) \notin ToSet(Tail(q))
    <3>1. ASSUME NEW i \in 1..(Len(q) - 1), Tail(q)[i] = Head(q) PROVE FALSE
      <4>1. i + 1 \in 1..Len(q) /\ 1 \in 1..Len(q) /\ q[i + 1] = q[1]
        BY <2>1, <3>1
      <4>2. i + 1 = 1
        BY <2>2, <4>1
      <4> QED BY <2>1, <4>2
    <3> QED BY <2>1, <3>1 DEF ToSet
  <2>5. ToSet(q) = {Head(q)} \cup ToSet(Tail(q))
    BY <1>1, ToSetProperties
  <2> QED BY <2>3, <2>4, <2>5
<1>5. ASSUME NEW t \in Raw!Callers, Head(q) = Raw!Step(t)
      PROVE  t \in W /\ Raw!Unwatch(t) \notin ToSet(q) /\ Orderly(Tail(q), W \ {t})
  <2>1. t \in W
    BY <1>2, <1>5 DEF Orderly
  <2>2. Raw!Unwatch(t) \notin ToSet(q)
    BY <1>3, <1>5 DEF Orderly
  <2>3. \A u \in Raw!Callers : /\ Raw!Step(u) \in ToSet(Tail(q)) <=> u \in W \ {t}
                               /\ Raw!Unwatch(u) \in ToSet(Tail(q)) => u \in W \ {t}
                               /\ Ahead(Tail(q), Raw!Unwatch(u), Raw!Step(u))
    BY <1>3, <1>4, <1>5, <2>2, RawItems DEF Orderly
  <2> QED BY <1>2, <1>4, <2>1, <2>2, <2>3 DEF Orderly
<1>6. ASSUME NEW t \in Raw!Callers, Head(q) = Raw!Unwatch(t) PROVE Orderly(Tail(q), W)
  <2>1. \A u \in Raw!Callers : /\ Raw!Step(u) \in ToSet(Tail(q)) <=> u \in W
                               /\ Raw!Unwatch(u) \in ToSet(Tail(q)) => u \in W
                               /\ Ahead(Tail(q), Raw!Unwatch(u), Raw!Step(u))
    BY <1>3, <1>4, <1>6, RawItems DEF Orderly
  <2> QED BY <1>2, <1>4, <2>1 DEF Orderly
<1> QED BY <1>2, <1>3, <1>4, <1>5, <1>6

LEMMA RawInit == Raw!Init => RawInv
<1> SUFFICES ASSUME Raw!Init PROVE RawInv
  OBVIOUS
<1>1. /\ rawPc = [t \in Raw!Callers |-> "idle"] /\ thrown = {} /\ woken = {} /\ watched = {}
      /\ taken = FALSE /\ descriptor = "open" /\ cut = "no" /\ ready = <<>>
  BY DEF Raw!Init
<1>2. ready \in Seq(Items) /\ Len(ready) = 0 /\ ToSet(ready) = {} /\ IsInjective(ready)
  BY <1>1, EmptySeq DEF ToSet, IsInjective
<1>3. RawTypes
  BY <1>1, RawCallers DEF RawTypes
<1>4. RawQueue
  BY <1>1, <1>2 DEF RawQueue, Orderly, Ahead
<1>5. RawClosing /\ Raw!NoneWatchedClosed
  BY <1>1, RawCallers DEF RawClosing, Raw!NoneWatchedClosed
<1> QED BY <1>3, <1>4, <1>5 DEF RawInv

LEMMA RawWait ==
  ASSUME RawInv, NEW t \in Raw!Callers, Raw!Wait(t)
  PROVE  RawInv'
<1>1. RawTypes /\ RawQueue /\ RawClosing /\ Raw!NoneWatchedClosed
  BY DEF RawInv
<1>2. /\ t # "closer" /\ rawPc[t] = "idle" /\ ~taken
      /\ rawPc' = [rawPc EXCEPT ![t] = "waiting"] /\ watched' = watched \cup {t}
      /\ UNCHANGED <<thrown, woken, taken, descriptor, cut, ready>>
  BY DEF Raw!Wait
<1>3. t \notin woken /\ rawPc["closer"] = "idle" /\ descriptor = "open"
  BY <1>1, <1>2 DEF RawTypes, RawClosing
<1>4. RawTypes'
  BY <1>1, <1>2 DEF RawTypes
<1>5. RawQueue'
  BY <1>1, <1>2, <1>3 DEF RawQueue, Orderly, Ahead
<1>6. RawClosing' /\ Raw!NoneWatchedClosed'
  BY <1>1, <1>2, <1>3, RawCallers DEF RawTypes, RawClosing, Raw!NoneWatchedClosed
<1> QED BY <1>4, <1>5, <1>6 DEF RawInv

LEMMA RawSendEof ==
  ASSUME RawInv, Raw!SendEof
  PROVE  RawInv'
<1>1. RawTypes /\ RawQueue /\ RawClosing /\ Raw!NoneWatchedClosed
  BY DEF RawInv
<1>2. /\ rawPc["sender"] = "idle" /\ rawPc' = [rawPc EXCEPT !["sender"] = "yielding"] /\ woken' = woken \cup {"sender"}
      /\ ready' = Append(ready, Raw!Step("sender"))
      /\ UNCHANGED <<thrown, watched, taken, descriptor, cut>>
  BY DEF Raw!SendEof
<1>3. "sender" \in Raw!Callers /\ "receiver" \in Raw!Callers /\ "closer" \in Raw!Callers
  BY RawCallers
<1>4. "sender" \notin woken /\ "sender" \notin watched
  BY <1>1, <1>2 DEF RawTypes
<1>5. /\ Orderly(ready', woken') /\ ToSet(ready) \subseteq ToSet(ready')
      /\ \A a, b : Ahead(ready, a, b) /\ a # Raw!Step("sender") => Ahead(ready', a, b)
  BY <1>1, <1>2, <1>3, <1>4, QueueStep DEF RawQueue
<1>6. RawTypes'
  BY <1>1, <1>2, <1>3, <1>4 DEF RawTypes
<1>7. RawQueue'
  BY <1>1, <1>2, <1>4, <1>5 DEF RawQueue, Orderly, Ahead
<1>8. RawClosing'
  <2>1. Raw!Step("receiver") # Raw!Step("sender")
    BY <1>3, RawItems
  <2>2. rawPc["closer"] = "yielding" => Ahead(ready', Raw!Step("receiver"), Raw!Step("closer"))
    BY <1>1, <1>5, <2>1 DEF RawClosing
  <2>3. (rawPc["closer"] = "yielding" => Ahead(ready, Raw!Step("receiver"), Raw!Step("closer")))'
    BY <1>1, <1>2, <1>3, <2>2 DEF RawTypes, Ahead
  <2> QED BY <1>1, <1>2, <1>3, <2>3 DEF RawTypes, RawClosing
<1>9. Raw!NoneWatchedClosed'
  BY <1>1, <1>2 DEF Raw!NoneWatchedClosed
<1> QED BY <1>6, <1>7, <1>8, <1>9 DEF RawInv

\* The future of a task is done, whoever does it.
LEMMA RawWakes ==
  ASSUME RawInv, NEW t \in Raw!Callers, t \notin woken, rawPc[t] # "idle",
         woken' = woken \cup {t}, ready' = ready \o Raw!DoneOf(t),
         thrown' = thrown \/ thrown' = thrown \cup {t},
         t = "closer" => t \in thrown',
         UNCHANGED <<rawPc, watched, taken, descriptor, cut>>
  PROVE  RawInv'
<1>1. RawTypes /\ RawQueue /\ RawClosing /\ Raw!NoneWatchedClosed
  BY DEF RawInv
<1>2. "sender" \in Raw!Callers /\ "receiver" \in Raw!Callers /\ "closer" \in Raw!Callers
  BY RawCallers
<1>3. /\ Orderly(ready', woken') /\ ToSet(ready) \subseteq ToSet(ready')
      /\ rawPc[t] = "waiting" => Raw!Unwatch(t) \in ToSet(ready')
      /\ \A a, b : Ahead(ready, a, b) /\ a \notin {Raw!Step(t), Raw!Unwatch(t)} => Ahead(ready', a, b)
  BY <1>1, QueueDone DEF RawQueue
<1>4. RawTypes'
  BY <1>1 DEF RawTypes
<1>5. RawQueue'
  <2>1. \A u \in watched' \cap woken' : Raw!Unwatch(u) \in ToSet(ready')
    BY <1>1, <1>3 DEF RawQueue, RawTypes
  <2> QED BY <1>3, <2>1 DEF RawQueue, Orderly, Ahead
<1>6. RawClosing'
  <2>1. rawPc["closer"] = "yielding" => Ahead(ready', Raw!Step("receiver"), Raw!Step("closer"))
    <3> SUFFICES ASSUME rawPc["closer"] = "yielding" PROVE Ahead(ready', Raw!Step("receiver"), Raw!Step("closer"))
      OBVIOUS
    <3>1. t # "receiver"
      BY <1>1 DEF RawClosing, RawTypes
    <3>2. Raw!Step("receiver") \notin {Raw!Step(t), Raw!Unwatch(t)}
      BY <1>2, <3>1, RawItems
    <3> QED BY <1>1, <1>3, <3>2 DEF RawClosing
  <2>2. (rawPc["closer"] = "yielding" => Ahead(ready, Raw!Step("receiver"), Raw!Step("closer")))'
    BY <2>1 DEF Ahead
  <2> QED BY <1>1, <1>2, <2>2 DEF RawTypes, RawClosing
<1>7. Raw!NoneWatchedClosed'
  BY <1>1 DEF Raw!NoneWatchedClosed
<1> QED BY <1>4, <1>5, <1>6, <1>7 DEF RawInv

LEMMA RawReady ==
  ASSUME RawInv, NEW t \in Raw!Callers, Raw!SocketIsReady(t) \/ Raw!CancelTask(t)
  PROVE  RawInv'
<1>1. RawTypes /\ RawQueue /\ RawClosing /\ Raw!NoneWatchedClosed
  BY DEF RawInv
<1>2. CASE Raw!SocketIsReady(t)
  <2>1. /\ t \in watched /\ t \notin woken /\ woken' = woken \cup {t} /\ ready' = ready \o Raw!DoneOf(t)
        /\ UNCHANGED <<rawPc, thrown, watched, taken, descriptor, cut>>
    BY <1>2 DEF Raw!SocketIsReady
  <2>2. rawPc[t] # "idle" /\ t # "closer"
    BY <1>1, <2>1 DEF RawTypes
  <2> QED BY <2>1, <2>2, RawWakes
<1>3. CASE Raw!CancelTask(t)
  <2>1. /\ rawPc[t] # "idle" /\ t \notin thrown /\ thrown' = thrown \cup {t} /\ woken' = woken \cup {t}
        /\ ready' = IF t \in woken THEN ready ELSE ready \o Raw!DoneOf(t)
        /\ UNCHANGED <<rawPc, watched, taken, descriptor, cut>>
    BY <1>3 DEF Raw!CancelTask, Raw!Cancel
  <2>2. CASE t \notin woken
    BY <2>1, <2>2, RawWakes
  <2>3. CASE t \in woken
    <3>1. woken' = woken /\ ready' = ready
      BY <2>1, <2>3
    <3>2. RawTypes'
      BY <1>1, <2>1, <2>3, <3>1 DEF RawTypes
    <3>3. RawQueue'
      BY <1>1, <2>1, <3>1 DEF RawQueue, Orderly, Ahead
    <3>4. RawClosing' /\ Raw!NoneWatchedClosed'
      BY <1>1, <2>1, <3>1 DEF RawClosing, Raw!NoneWatchedClosed, Ahead
    <3> QED BY <3>2, <3>3, <3>4 DEF RawInv
  <2> QED BY <2>2, <2>3
<1> QED BY <1>2, <1>3

\* aclose() after the receiver is gone: it waits for the sender, or closes.
LEMMA RawWaitForSender ==
  ASSUME RawInv, NEW q, Raw!WaitForSender(q), Orderly(q, woken \ {"closer"}), descriptor = "open",
         \A t \in watched \cap woken : Raw!Unwatch(t) \in ToSet(q), rawPc["receiver"] = "idle",
         taken' = TRUE, UNCHANGED <<watched, cut>>
  PROVE  RawInv'
<1>1. RawTypes /\ RawQueue /\ RawClosing
  BY DEF RawInv
<1>2. "sender" \in Raw!Callers /\ "receiver" \in Raw!Callers /\ "closer" \in Raw!Callers
  BY RawCallers
<1>3. ready' = q /\ thrown' = thrown \ {"closer"} /\ woken' = woken \ {"closer"}
  BY DEF Raw!WaitForSender, Raw!Leaves
<1>4. RawQueue'
  <2>1. \A t \in watched' \cap woken' : Raw!Unwatch(t) \in ToSet(ready')
    BY <1>3
  <2> QED BY <1>3, <2>1 DEF RawQueue, Orderly, Ahead
<1>5. CASE /\ rawPc["sender"] # "idle"
           /\ rawPc' = [rawPc EXCEPT !["closer"] = "draining"] /\ descriptor' = descriptor
  <2>1. RawTypes'
    BY <1>1, <1>2, <1>3, <1>5 DEF RawTypes
  <2>2. RawClosing' /\ Raw!NoneWatchedClosed'
    BY <1>1, <1>2, <1>3, <1>5 DEF RawTypes, RawClosing, Raw!NoneWatchedClosed
  <2> QED BY <1>4, <2>1, <2>2 DEF RawInv
<1>6. CASE /\ rawPc["sender"] = "idle"
           /\ rawPc' = [rawPc EXCEPT !["closer"] = "idle"] /\ descriptor' = "closed"
  <2>1. watched = {}
    BY <1>1, <1>6, RawCallers DEF RawTypes
  <2>2. RawTypes'
    BY <1>1, <1>2, <1>3, <1>6, <2>1 DEF RawTypes
  <2>3. RawClosing' /\ Raw!NoneWatchedClosed'
    BY <1>1, <1>2, <1>3, <1>6, <2>1 DEF RawTypes, RawClosing, Raw!NoneWatchedClosed
  <2> QED BY <1>4, <2>2, <2>3 DEF RawInv
<1> QED BY <1>5, <1>6 DEF Raw!WaitForSender, Raw!Leaves

LEMMA RawClose ==
  ASSUME RawInv, Raw!Close
  PROVE  RawInv'
<1>1. RawTypes /\ RawQueue /\ RawClosing /\ Raw!NoneWatchedClosed
  BY DEF RawInv
<1>2. "sender" \in Raw!Callers /\ "receiver" \in Raw!Callers /\ "closer" \in Raw!Callers
  BY RawCallers
<1>3. rawPc["closer"] = "idle" /\ ~taken /\ taken' = TRUE /\ UNCHANGED <<watched, cut>>
  BY DEF Raw!Close
<1>4. descriptor = "open" /\ "closer" \notin woken /\ "closer" \notin watched
  BY <1>1, <1>3 DEF RawTypes, RawClosing
<1>5. CASE rawPc["receiver"] = "idle"
  <2>1. Raw!WaitForSender(ready)
    BY <1>5 DEF Raw!Close, Raw!YieldsToReceiver
  <2>2. woken \ {"closer"} = woken
    BY <1>4
  <2> QED BY <1>1, <1>3, <1>4, <1>5, <2>1, <2>2, RawWaitForSender DEF RawQueue
<1>6. CASE rawPc["receiver"] # "idle"
  <2> DEFINE q == IF "receiver" \in woken THEN ready ELSE ready \o Raw!DoneOf("receiver")
             W == woken \cup {"receiver"}
  <2>1. /\ rawPc' = [rawPc EXCEPT !["closer"] = "yielding"]
        /\ thrown' = thrown \cup {"receiver"} /\ woken' = woken \cup {"receiver", "closer"}
        /\ ready' = q \o <<Raw!Step("closer")>> /\ descriptor' = descriptor
    BY <1>6 DEF Raw!Close, Raw!YieldsToReceiver
  <2>2. Orderly(q, W) /\ \A t \in watched \cap W : Raw!Unwatch(t) \in ToSet(q)
    <3>1. CASE "receiver" \in woken
      BY <1>1, <3>1 DEF RawQueue
    <3>2. CASE "receiver" \notin woken
      <4>1. /\ Orderly(q, W) /\ ToSet(ready) \subseteq ToSet(q)
            /\ rawPc["receiver"] = "waiting" => Raw!Unwatch("receiver") \in ToSet(q)
        BY <1>1, <1>2, <3>2, QueueDone DEF RawQueue
      <4> QED BY <1>1, <4>1 DEF RawQueue, RawTypes
    <3> QED BY <3>1, <3>2
  <2> HIDE DEF q
  <2>3. "closer" \notin W
    BY <1>4
  <2>4. /\ Orderly(ready', W \cup {"closer"}) /\ ToSet(ready') = ToSet(q) \cup {Raw!Step("closer")}
        /\ \A a, b : Ahead(q, a, b) /\ a # Raw!Step("closer") => Ahead(ready', a, b)
    <3> HIDE DEF W
    <3>1. ready' = Append(q, Raw!Step("closer"))
      BY <1>2, <2>1, <2>2, <2>3, QueueStep
    <3> QED BY <1>2, <2>2, <2>3, <3>1, QueueStep
  <2>5. Ahead(ready', Raw!Step("receiver"), Raw!Step("closer"))
    <3>1. Raw!Step("closer") \notin ToSet(q) /\ q \in Seq(Items)
      BY <1>2, <2>2, <2>3 DEF Orderly
    <3>2. Ahead(q, Raw!Step("receiver"), Raw!Step("closer"))
      BY <3>1, LenProperties DEF Ahead, ToSet
    <3>3. Raw!Step("receiver") # Raw!Step("closer")
      BY <1>2, RawItems
    <3> QED BY <2>4, <3>2, <3>3
  <2>6. W \cup {"closer"} = woken'
    BY <2>1
  <2>7. RawTypes'
    BY <1>1, <1>2, <1>3, <1>4, <1>6, <2>1 DEF RawTypes
  <2>8. RawQueue'
    <3>1. \A t \in watched' \cap woken' : Raw!Unwatch(t) \in ToSet(ready')
      BY <1>3, <1>4, <2>1, <2>2, <2>4
    <3> QED BY <2>4, <2>6, <3>1 DEF RawQueue, Orderly, Ahead
  <2>9. RawClosing'
    <3>1. (Ahead(ready, Raw!Step("receiver"), Raw!Step("closer")))'
      BY <2>5 DEF Ahead
    <3> QED BY <1>1, <1>2, <1>3, <1>4, <2>1, <3>1 DEF RawTypes, RawClosing
  <2>10. Raw!NoneWatchedClosed'
    BY <1>4, <2>1 DEF Raw!NoneWatchedClosed
  <2> QED BY <2>7, <2>8, <2>9, <2>10 DEF RawInv
<1> QED BY <1>5, <1>6

\* The step of the task in aclose().
LEMMA RawCloserSteps ==
  ASSUME RawInv, ready # <<>>, Head(ready) = Raw!Step("closer"), Raw!CloserSteps(Tail(ready)),
         UNCHANGED <<watched, taken>>
  PROVE  RawInv'
<1> DEFINE q == Tail(ready)
<1>1. RawTypes /\ RawQueue /\ RawClosing
  BY DEF RawInv
<1>2. "sender" \in Raw!Callers /\ "receiver" \in Raw!Callers /\ "closer" \in Raw!Callers
  BY RawCallers
<1>3. /\ "closer" \in woken /\ Orderly(q, woken \ {"closer"}) /\ ToSet(q) = ToSet(ready) \ {Raw!Step("closer")}
      /\ \A a : Ahead(ready, a, Raw!Step("closer")) => a \notin ToSet(ready)
  BY <1>1, <1>2, QueueRuns DEF RawQueue
<1>4. rawPc["closer"] \in {"yielding", "draining", "drained"} /\ taken = TRUE /\ descriptor = "open"
  BY <1>1, <1>2, <1>3 DEF RawTypes, RawClosing
<1>5. rawPc["receiver"] = "idle"
  <2>1. CASE rawPc["closer"] = "yielding"
    <3>1. Raw!Step("receiver") \notin ToSet(ready)
      BY <1>1, <1>3, <2>1 DEF RawClosing
    <3>2. "receiver" \notin woken
      BY <1>1, <1>2, <3>1 DEF RawQueue, Orderly
    <3> QED BY <1>1, <2>1, <3>2 DEF RawTypes, RawClosing
  <2>2. CASE rawPc["closer"] # "yielding"
    BY <1>1, <1>4, <2>2 DEF RawClosing
  <2> QED BY <2>1, <2>2
<1>6. \A t \in watched \cap woken : Raw!Unwatch(t) \in ToSet(q)
  BY <1>1, <1>2, <1>3, RawItems DEF RawQueue, RawTypes
<1> HIDE DEF q
<1>7. watched \subseteq {"sender"}
  BY <1>1, <1>5, RawCallers DEF RawTypes
<1>8. CASE "closer" \in thrown
  <2>1. /\ descriptor' = "closed" /\ cut' = rawPc["closer"] /\ rawPc' = [rawPc EXCEPT !["closer"] = "idle"]
        /\ IF rawPc["closer"] = "draining"
           THEN /\ thrown' = (thrown \cup {"sender"}) \ {"closer"}
                /\ woken' = (woken \cup {"sender"}) \ {"closer"}
                /\ ready' = IF "sender" \in woken THEN q ELSE q \o Raw!DoneOf("sender")
           ELSE thrown' = thrown \ {"closer"} /\ woken' = woken \ {"closer"} /\ ready' = q
    BY <1>8 DEF Raw!CloserSteps, Raw!CancelsSender, q
  <2>2. RawTypes'
    BY <1>1, <1>2, <1>4, <2>1 DEF RawTypes, RawClosing
  <2>3. RawClosing' /\ Raw!NoneWatchedClosed'
    BY <1>1, <1>2, <1>4, <1>7, <2>1 DEF RawTypes, RawClosing, Raw!NoneWatchedClosed
  <2>4. Orderly(ready', woken') /\ \A t \in watched \cap woken' : Raw!Unwatch(t) \in ToSet(ready')
    <3>1. CASE rawPc["closer"] = "draining" /\ "sender" \notin woken
      <4>1. woken' = (woken \ {"closer"}) \cup {"sender"} /\ "sender" \notin woken \ {"closer"}
        BY <2>1, <3>1
      <4>2. ready' = q \o Raw!DoneOf("sender")
        BY <2>1, <3>1
      <4>3. /\ Orderly(ready', woken') /\ ToSet(q) \subseteq ToSet(ready')
            /\ rawPc["sender"] = "waiting" => Raw!Unwatch("sender") \in ToSet(ready')
        BY <1>2, <1>3, <4>1, <4>2, QueueDone
      <4> QED BY <1>1, <1>6, <4>1, <4>3 DEF RawTypes
    <3>2. CASE ~(rawPc["closer"] = "draining" /\ "sender" \notin woken)
      <4>1. woken' = woken \ {"closer"} /\ ready' = q
        BY <2>1, <3>2
      <4> QED BY <1>3, <1>6, <4>1
    <3> QED BY <3>1, <3>2
  <2>5. RawQueue'
    BY <2>4 DEF RawQueue, Orderly, Ahead
  <2> QED BY <2>2, <2>3, <2>5 DEF RawInv
<1>9. CASE "closer" \notin thrown /\ rawPc["closer"] = "yielding"
  <2>1. Raw!WaitForSender(q) /\ cut' = cut
    BY <1>9 DEF Raw!CloserSteps, q
  <2> QED BY <1>3, <1>4, <1>5, <1>6, <2>1, RawWaitForSender
<1>10. CASE "closer" \notin thrown /\ rawPc["closer"] # "yielding"
  <2>1. /\ cut' = cut /\ rawPc' = [rawPc EXCEPT !["closer"] = "idle"]
        /\ thrown' = thrown \ {"closer"} /\ woken' = woken \ {"closer"} /\ descriptor' = "closed" /\ ready' = q
    BY <1>10 DEF Raw!CloserSteps, Raw!Leaves, q
  <2>2. rawPc["sender"] # "waiting"
    BY <1>1, <1>3, <1>4, <1>10 DEF RawClosing
  <2>3. watched = {}
    BY <1>1, <1>7, <2>2 DEF RawTypes
  <2>4. RawTypes'
    BY <1>1, <1>2, <2>1, <2>3 DEF RawTypes
  <2>5. RawQueue'
    BY <1>3, <2>1, <2>3 DEF RawQueue, Orderly, Ahead
  <2>6. RawClosing' /\ Raw!NoneWatchedClosed'
    BY <1>1, <1>2, <1>4, <2>1, <2>3 DEF RawTypes, RawClosing, Raw!NoneWatchedClosed
  <2> QED BY <2>4, <2>5, <2>6 DEF RawInv
<1> QED BY <1>8, <1>9, <1>10

\* The step of another task: it waits again for the socket, or its call ends.
LEMMA RawTaskSteps ==
  ASSUME RawInv, ready # <<>>, NEW t \in Raw!Callers, t # "closer", Head(ready) = Raw!Step(t),
         Raw!TaskSteps(t, Tail(ready)), UNCHANGED <<descriptor, cut, taken>>
  PROVE  RawInv'
<1> DEFINE q == Tail(ready)
<1>1. RawTypes /\ RawQueue /\ RawClosing /\ Raw!NoneWatchedClosed
  BY DEF RawInv
<1>2. "sender" \in Raw!Callers /\ "receiver" \in Raw!Callers /\ "closer" \in Raw!Callers
  BY RawCallers
<1>3. /\ t \in woken /\ Raw!Unwatch(t) \notin ToSet(ready) /\ Orderly(q, woken \ {t})
      /\ ToSet(q) = ToSet(ready) \ {Raw!Step(t)}
      /\ \A a, b : Ahead(ready, a, b) => Ahead(q, a, b)
  BY <1>1, <1>2, QueueRuns DEF RawQueue
<1>4. t \notin watched
  BY <1>1, <1>3 DEF RawQueue
<1>5. \A u \in watched \cap woken : Raw!Unwatch(u) \in ToSet(q)
  BY <1>1, <1>2, <1>3, RawItems DEF RawQueue, RawTypes
<1>6. rawPc["closer"] = "yielding" => Ahead(q, Raw!Step("receiver"), Raw!Step("closer"))
  BY <1>1, <1>3 DEF RawClosing
<1> HIDE DEF q
<1>7. CASE /\ t \notin thrown /\ rawPc[t] = "waiting" /\ descriptor = "open"
           /\ woken' = woken \ {t} /\ watched' = watched \cup {t} /\ ready' = q
           /\ UNCHANGED <<rawPc, thrown>>
  <2>1. RawTypes'
    BY <1>1, <1>7 DEF RawTypes
  <2>2. RawQueue'
    <3>1. \A u \in watched' \cap woken' : Raw!Unwatch(u) \in ToSet(ready')
      BY <1>5, <1>7
    <3> QED BY <1>3, <1>7, <3>1 DEF RawQueue, Orderly, Ahead
  <2>3. RawClosing'
    <3>1. (rawPc["closer"] = "yielding" => Ahead(ready, Raw!Step("receiver"), Raw!Step("closer")))'
      BY <1>6, <1>7 DEF Ahead
    <3> QED BY <1>1, <1>7, <3>1 DEF RawClosing
  <2>4. Raw!NoneWatchedClosed'
    BY <1>7 DEF Raw!NoneWatchedClosed
  <2> QED BY <2>1, <2>2, <2>3, <2>4 DEF RawInv
<1>8. CASE /\ rawPc' = [rawPc EXCEPT ![t] = "idle",
                          !["closer"] = IF Raw!WakesCloser(t) THEN "drained" ELSE rawPc["closer"]]
           /\ thrown' = thrown \ {t} /\ watched' = watched
           /\ IF Raw!WakesCloser(t) /\ "closer" \notin woken
              THEN woken' = (woken \ {t}) \cup {"closer"} /\ ready' = Append(q, Raw!Step("closer"))
              ELSE woken' = woken \ {t} /\ ready' = q
  <2>1. /\ rawPc'[t] = "idle" /\ rawPc'["closer"] = IF Raw!WakesCloser(t) THEN "drained" ELSE rawPc["closer"]
        /\ \A u \in Raw!Callers \ {t, "closer"} : rawPc'[u] = rawPc[u]
        /\ rawPc' \in [Raw!Callers -> {"idle", "waiting", "yielding", "draining", "drained"}]
    BY <1>1, <1>2, <1>8 DEF RawTypes
  <2>2. Raw!WakesCloser(t) => t = "sender" /\ rawPc["closer"] = "draining"
    BY DEF Raw!WakesCloser
  <2>3. RawTypes'
    <3>1. woken' \subseteq {u \in Raw!Callers : rawPc'[u] # "idle"}
      BY <1>1, <1>2, <1>8, <2>1, <2>2 DEF RawTypes
    <3>2. watched' \subseteq {u \in Raw!Callers \ {"closer"} : rawPc'[u] = "waiting"}
      BY <1>1, <1>4, <1>8, <2>1 DEF RawTypes
    <3>3. thrown' \subseteq woken'
      BY <1>1, <1>8 DEF RawTypes
    <3> QED BY <1>1, <2>1, <3>1, <3>2, <3>3 DEF RawTypes
  <2>4. Orderly(ready', woken') /\ \A u \in watched \cap woken' : Raw!Unwatch(u) \in ToSet(ready')
    <3>1. CASE Raw!WakesCloser(t) /\ "closer" \notin woken
      <4>1. woken' = (woken \ {t}) \cup {"closer"} /\ "closer" \notin woken \ {t} /\ ready' = Append(q, Raw!Step("closer"))
        BY <1>8, <3>1
      <4>2. Orderly(ready', woken') /\ ToSet(ready') = ToSet(q) \cup {Raw!Step("closer")}
        BY <1>2, <1>3, <4>1, QueueStep
      <4>3. "closer" \notin watched
        BY <1>1 DEF RawTypes
      <4> QED BY <1>5, <4>1, <4>2, <4>3
    <3>2. CASE ~(Raw!WakesCloser(t) /\ "closer" \notin woken)
      BY <1>3, <1>5, <1>8, <3>2
    <3> QED BY <3>1, <3>2
  <2>5. RawQueue'
    BY <1>8, <2>4 DEF RawQueue, Orderly, Ahead
  <2>6. RawClosing'
    <3>1. rawPc'["closer"] = "yielding" =>
            /\ "closer" \in woken' /\ (rawPc'["receiver"] = "idle" \/ "receiver" \in thrown')
            /\ Ahead(ready', Raw!Step("receiver"), Raw!Step("closer"))
      <4> SUFFICES ASSUME rawPc'["closer"] = "yielding"
                   PROVE  /\ "closer" \in woken' /\ (rawPc'["receiver"] = "idle" \/ "receiver" \in thrown')
                          /\ Ahead(ready', Raw!Step("receiver"), Raw!Step("closer"))
        OBVIOUS
      <4>1. ~Raw!WakesCloser(t) /\ rawPc["closer"] = "yielding"
        BY <2>1
      <4>2. ready' = q /\ woken' = woken \ {t} /\ thrown' = thrown \ {t}
        BY <1>8, <4>1
      <4>3. "closer" \in woken' /\ (rawPc'["receiver"] = "idle" \/ "receiver" \in thrown')
        BY <1>1, <1>2, <2>1, <4>1, <4>2 DEF RawClosing
      <4> QED BY <1>6, <4>1, <4>2, <4>3
    <3>2. (rawPc["closer"] = "yielding" => Ahead(ready, Raw!Step("receiver"), Raw!Step("closer")))'
      BY <3>1 DEF Ahead
    <3>3. rawPc'["closer"] \in {"draining", "drained"} => rawPc'["receiver"] = "idle"
      BY <1>1, <1>2, <2>1, <2>2 DEF RawClosing
    <3>4. rawPc'["closer"] = "draining" => rawPc'["sender"] # "idle" /\ ("closer" \in woken' => "closer" \in thrown')
      <4> SUFFICES ASSUME rawPc'["closer"] = "draining"
                   PROVE  rawPc'["sender"] # "idle" /\ ("closer" \in woken' => "closer" \in thrown')
        OBVIOUS
      <4>1. ~Raw!WakesCloser(t) /\ rawPc["closer"] = "draining"
        BY <2>1
      <4>2. t # "sender"
        BY <4>1 DEF Raw!WakesCloser
      <4> QED BY <1>1, <1>2, <1>8, <2>1, <4>1, <4>2 DEF RawClosing
    <3>5. rawPc'["closer"] = "drained" => rawPc'["sender"] # "waiting"
      BY <1>1, <1>2, <2>1, <2>2 DEF RawClosing
    <3>6. /\ rawPc'["closer"] # "waiting"
          /\ ~taken' => rawPc'["closer"] = "idle" /\ descriptor' = "open"
          /\ descriptor' = "closed" => rawPc'["closer"] = "idle"
      BY <1>1, <2>1, <2>2 DEF RawClosing
    <3> QED BY <3>1, <3>2, <3>3, <3>4, <3>5, <3>6 DEF RawClosing
  <2>7. Raw!NoneWatchedClosed'
    BY <1>1, <1>8 DEF Raw!NoneWatchedClosed
  <2> QED BY <2>3, <2>5, <2>6, <2>7 DEF RawInv
<1> QED BY <1>7, <1>8 DEF Raw!TaskSteps, q

LEMMA RawLoopRuns ==
  ASSUME RawInv, Raw!LoopRuns
  PROVE  RawInv'
<1>1. RawTypes /\ RawQueue /\ RawClosing /\ Raw!NoneWatchedClosed
  BY DEF RawInv
<1>2. ready # <<>> /\ UNCHANGED taken
  BY DEF Raw!LoopRuns
<1>3. PICK t \in Raw!Callers : Head(ready) = Raw!Step(t) \/ Head(ready) = Raw!Unwatch(t)
  BY <1>1, <1>2, QueueRuns, RawItems DEF RawQueue
<1>4. CASE Head(ready) = Raw!Unwatch(t)
  <2>0. "closer" \in Raw!Callers
    BY RawCallers
  <2>1. Head(ready).run = "unwatch" /\ Head(ready).of = t /\ Head(ready) # Raw!Step("closer")
    BY <1>4, <2>0, RawItems
  <2>2. /\ watched' = watched \ {t} /\ ready' = Tail(ready)
        /\ UNCHANGED <<rawPc, thrown, woken, descriptor, cut>>
    BY <2>1 DEF Raw!LoopRuns
  <2>3. /\ Orderly(ready', woken) /\ ToSet(ready') = ToSet(ready) \ {Raw!Unwatch(t)}
        /\ \A a, b : Ahead(ready, a, b) => Ahead(ready', a, b)
    BY <1>1, <1>2, <1>4, <2>2, QueueRuns DEF RawQueue
  <2>4. RawTypes'
    BY <1>1, <1>2, <2>2 DEF RawTypes
  <2>5. RawQueue'
    <3>1. \A u \in watched' \cap woken' : Raw!Unwatch(u) \in ToSet(ready')
      BY <1>1, <2>2, <2>3, RawItems DEF RawQueue, RawTypes
    <3> QED BY <2>2, <2>3, <3>1 DEF RawQueue, Orderly, Ahead
  <2>6. RawClosing'
    <3>1. rawPc["closer"] = "yielding" => Ahead(ready', Raw!Step("receiver"), Raw!Step("closer"))
      BY <1>1, <2>3 DEF RawClosing
    <3>2. (rawPc["closer"] = "yielding" => Ahead(ready, Raw!Step("receiver"), Raw!Step("closer")))'
      BY <2>2, <3>1 DEF Ahead
    <3> QED BY <1>1, <1>2, <2>2, <3>2 DEF RawClosing
  <2>7. Raw!NoneWatchedClosed'
    BY <1>1, <2>2 DEF Raw!NoneWatchedClosed
  <2> QED BY <2>4, <2>5, <2>6, <2>7 DEF RawInv
<1>5. CASE Head(ready) = Raw!Step(t)
  <2>1. Head(ready).run = "step" /\ Head(ready).of = t /\ (Head(ready) = Raw!Step("closer") => t = "closer")
    BY <1>5, RawItems, RawCallers
  <2>2. CASE t = "closer"
    <3>1. Raw!CloserSteps(Tail(ready)) /\ UNCHANGED watched
      BY <2>1, <2>2 DEF Raw!LoopRuns
    <3> QED BY <1>2, <1>5, <2>2, <3>1, RawCloserSteps
  <2>3. CASE t # "closer"
    <3>1. Raw!TaskSteps(t, Tail(ready)) /\ UNCHANGED <<descriptor, cut>>
      BY <2>1, <2>3 DEF Raw!LoopRuns
    <3> QED BY <1>2, <1>5, <2>3, <3>1, RawTaskSteps
  <2> QED BY <2>2, <2>3
<1> QED BY <1>3, <1>4, <1>5

LEMMA RawStep == RawInv /\ [Raw!Next]_rawVars => RawInv'
<1> SUFFICES ASSUME RawInv, [Raw!Next]_rawVars PROVE RawInv'
  OBVIOUS
<1>1. ASSUME NEW t \in Raw!Callers, Raw!Wait(t) \/ Raw!SocketIsReady(t) \/ Raw!CancelTask(t) PROVE RawInv'
  BY <1>1, RawWait, RawReady
<1>2. CASE Raw!SendEof
  BY <1>2, RawSendEof
<1>3. CASE Raw!Close
  BY <1>3, RawClose
<1>4. CASE Raw!LoopRuns
  BY <1>4, RawLoopRuns
<1>5. CASE UNCHANGED rawVars
  <2>1. UNCHANGED <<rawPc, thrown, woken, watched, taken, descriptor, cut, ready>>
    BY <1>5 DEF rawVars
  <2>2. RawTypes' /\ RawQueue'
    BY <2>1 DEF RawInv, RawTypes, RawQueue, Orderly, Ahead
  <2>3. RawClosing' /\ Raw!NoneWatchedClosed'
    BY <2>1 DEF RawInv, RawClosing, Raw!NoneWatchedClosed, Ahead
  <2> QED BY <2>2, <2>3 DEF RawInv
<1> QED BY <1>1, <1>2, <1>3, <1>4, <1>5 DEF Raw!Next

\* The types of the part, as the runs state them.
LEMMA RawIsTyped == RawInv => Raw!TypeOK
<1> SUFFICES ASSUME RawInv PROVE Raw!TypeOK
  OBVIOUS
<1>1. RawTypes /\ RawQueue
  BY DEF RawInv
<1>2. ASSUME NEW t \in Raw!Callers PROVE t \in woken <=> \E i \in 1..Len(ready) : ready[i] = Raw!Step(t)
  <2>1. ready \in Seq(Items) /\ (t \in woken <=> Raw!Step(t) \in ToSet(ready))
    BY <1>1 DEF RawQueue, Orderly
  <2>2. Raw!Step(t) \in ToSet(ready) <=> \E i \in 1..Len(ready) : ready[i] = Raw!Step(t)
    BY <2>1, ToSetProperties
  <2> QED BY <2>1, <2>2
<1> QED BY <1>1, <1>2 DEF RawTypes, Raw!TypeOK

-----------------------------------------------------------------------------
(* The receiving side of a datagram endpoint *)

Events == 1..(MaxEvents + 1)
Nones(q, n) == Cardinality({j \in 1..n : q[j] = 0})

\* The queues, when the n-th None is for the n-th error, and the last None may be for
\* the loss of the endpoint alone.
Alone(q, x) == q # <<>> /\ q[Len(q)] = 0 /\ Nones(q, Len(q)) = Len(x) + 1
Matched(q, x) ==
  /\ q \in Seq(0..MaxEvents) /\ x \in Seq(Events)
  /\ Nones(q, Len(q)) = Len(x) \/ Alone(q, x)

\* Pending of DatagramEndpoint, for any two queues.
EventOf(q, x, i) == IF q[i] # 0 THEN q[i] ELSE IF Nones(q, i) <= Len(x) THEN x[Nones(q, i)] ELSE 0
PendingOf(q, x) ==
  [i \in 1..(IF q # <<>> /\ EventOf(q, x, Len(q)) = 0 THEN Len(q) - 1 ELSE Len(q)) |-> EventOf(q, x, i)]

LEMMA PendingIsPending == Endpoint!Pending = PendingOf(recvQueue, excQueue)
<1>1. \A S : Endpoint!Cardinality(S) = Cardinality(S)
  BY DEF Endpoint!Cardinality, Cardinality
<1>2. \A i : Endpoint!NonesUpTo(i) = Nones(recvQueue, i)
  BY <1>1 DEF Endpoint!NonesUpTo, Nones
<1>3. \A i : Endpoint!Event(i) = EventOf(recvQueue, excQueue, i)
  BY <1>2 DEF Endpoint!Event, EventOf
<1> QED BY <1>3 DEF Endpoint!Pending, PendingOf

\* How the count of the Nones goes along a queue.
LEMMA NonesCount ==
  ASSUME NEW q
  PROVE  /\ \A n \in Nat : Nones(q, n) \in Nat
         /\ Nones(q, 0) = 0
         /\ \A n \in Nat : Nones(q, n + 1) = IF q[n + 1] = 0 THEN Nones(q, n) + 1 ELSE Nones(q, n)
         /\ \A m, n \in Nat : m <= n => Nones(q, m) <= Nones(q, n)
<1> DEFINE Z(n) == {j \in 1..n : q[j] = 0}
<1>1. ASSUME NEW n \in Nat PROVE IsFiniteSet(Z(n)) /\ Cardinality(Z(n)) \in Nat
  <2>1. IsFiniteSet(1..n)
    BY FS_Interval
  <2>2. Z(n) \in SUBSET (1..n)
    OBVIOUS
  <2> HIDE DEF Z
  <2>3. IsFiniteSet(Z(n))
    BY <2>1, <2>2, FS_Subset
  <2> QED BY <2>3, FS_CardinalityType
<1>2. Cardinality(Z(0)) = 0
  <2>1. Z(0) = {}
    OBVIOUS
  <2> HIDE DEF Z
  <2> QED BY <2>1, FS_EmptySet
<1>3. ASSUME NEW n \in Nat
      PROVE  Cardinality(Z(n + 1)) = IF q[n + 1] = 0 THEN Cardinality(Z(n)) + 1 ELSE Cardinality(Z(n))
  <2>1. CASE q[n + 1] = 0
    <3>1. Z(n + 1) = Z(n) \cup {n + 1} /\ n + 1 \notin Z(n)
      BY <2>1
    <3> HIDE DEF Z
    <3>2. Cardinality(Z(n + 1)) = Cardinality(Z(n)) + 1
      BY <1>1, <3>1, FS_AddElement
    <3> QED BY <2>1, <3>2
  <2>2. CASE q[n + 1] # 0
    <3>1. Z(n + 1) = Z(n)
      BY <2>2
    <3> HIDE DEF Z
    <3> QED BY <2>2, <3>1
  <2> QED BY <2>1, <2>2
<1>4. ASSUME NEW m \in Nat, NEW n \in Nat, m <= n PROVE Cardinality(Z(m)) <= Cardinality(Z(n))
  <2>1. Z(m) \in SUBSET Z(n)
    BY <1>4
  <2> HIDE DEF Z
  <2> QED BY <1>1, <2>1, FS_Subset
<1>5. \A n : Nones(q, n) = Cardinality(Z(n))
  BY DEF Nones
<1> HIDE DEF Z
<1> QED BY <1>1, <1>2, <1>3, <1>4, <1>5

\* The count depends on what it goes along only.
LEMMA NonesSame ==
  ASSUME NEW q, NEW s, NEW n \in Nat, \A i \in 1..n : s[i] = q[i]
  PROVE  Nones(s, n) = Nones(q, n)
<1>1. {j \in 1..n : s[j] = 0} = {j \in 1..n : q[j] = 0}
  OBVIOUS
<1> QED BY <1>1 DEF Nones

\* The count without the first place.
LEMMA NonesTail ==
  ASSUME NEW S, NEW q \in Seq(S), q # <<>>, NEW n \in 0..(Len(q) - 1)
  PROVE  Nones(Tail(q), n) = IF q[1] = 0 THEN Nones(q, n + 1) - 1 ELSE Nones(q, n + 1)
<1> DEFINE A == {j \in 1..n : Tail(q)[j] = 0}
           B == {j \in 2..(n + 1) : q[j] = 0}
           Z == {j \in 1..(n + 1) : q[j] = 0}
           f == [j \in A |-> j + 1]
<1>1. Len(q) \in Nat \ {0} /\ \A i \in 1..(Len(q) - 1) : Tail(q)[i] = q[i + 1]
  BY EmptySeq, HeadTailProperties
<1>2. n \in Nat /\ n <= Len(q) - 1
  BY <1>1
<1>3. f \in Bijection(A, B)
  <2>1. \A j \in A : j \in Nat /\ j + 1 \in B
    <3> TAKE j \in A
    <3>1. j \in 1..n /\ Tail(q)[j] = 0
      OBVIOUS
    <3>2. j \in Nat /\ j + 1 \in 2..(n + 1) /\ q[j + 1] = 0
      BY <1>1, <1>2, <3>1
    <3> QED BY <3>2
  <2>2. \A k \in B : k - 1 \in A /\ (k - 1) + 1 = k
    <3> TAKE k \in B
    <3>1. k \in 2..(n + 1) /\ q[k] = 0
      OBVIOUS
    <3>2. k - 1 \in 1..n /\ (k - 1) + 1 = k /\ k - 1 \in 1..(Len(q) - 1)
      BY <1>1, <1>2, <3>1
    <3>3. Tail(q)[k - 1] = q[k]
      BY <1>1, <3>2
    <3> QED BY <3>1, <3>2, <3>3
  <2> HIDE DEF A, B
  <2>3. f \in [A -> B]
    BY <2>1
  <2>4. \A a, b \in A : f[a] = f[b] => a = b
    BY <2>1
  <2>5. \A k \in B : \E a \in A : f[a] = k
    BY <2>2
  <2> HIDE DEF f
  <2> QED BY <2>3, <2>4, <2>5, Fun_IsBij
<1>4. IsFiniteSet(A) /\ IsFiniteSet(B) /\ IsFiniteSet(Z)
  <2>1. IsFiniteSet(1..n) /\ IsFiniteSet(2..(n + 1)) /\ IsFiniteSet(1..(n + 1))
    BY <1>2, FS_Interval
  <2>2. A \in SUBSET (1..n) /\ B \in SUBSET (2..(n + 1)) /\ Z \in SUBSET (1..(n + 1))
    OBVIOUS
  <2> HIDE DEF A, B, Z
  <2> QED BY <2>1, <2>2, FS_Subset
<1>5. Cardinality(A) = Cardinality(B)
  <2> HIDE DEF A, B
  <2>1. ExistsBijection(A, B)
    BY <1>3 DEF ExistsBijection
  <2> QED BY <1>4, <2>1, FS_Bijection
<1>6. Cardinality(Z) = IF q[1] = 0 THEN Cardinality(B) + 1 ELSE Cardinality(B)
  <2>1. CASE q[1] = 0
    <3>1. Z = B \cup {1} /\ 1 \notin B
      BY <1>2, <2>1
    <3> HIDE DEF B, Z
    <3>2. Cardinality(Z) = Cardinality(B) + 1
      BY <1>4, <3>1, FS_AddElement
    <3> QED BY <2>1, <3>2
  <2>2. CASE q[1] # 0
    <3>1. Z = B
      BY <1>2, <2>2
    <3> HIDE DEF B, Z
    <3> QED BY <2>2, <3>1
  <2> QED BY <2>1, <2>2
<1>7. Nones(Tail(q), n) = Cardinality(A) /\ Nones(q, n + 1) = Cardinality(Z)
  BY DEF Nones
<1> HIDE DEF A, B, Z
<1>8. Cardinality(B) \in Nat
  BY <1>4, FS_CardinalityType
<1> QED BY <1>5, <1>6, <1>7, <1>8

\* The events that wait: each None has its error, but for the one of the loss.
LEMMA PendingProperties ==
  ASSUME NEW q, NEW x, Matched(q, x)
  PROVE  /\ Len(q) \in Nat /\ Len(x) \in Nat
         /\ \A i \in 1..(IF Alone(q, x) THEN Len(q) - 1 ELSE Len(q)) :
              IF q[i] # 0 THEN q[i] \in Events ELSE Nones(q, i) \in 1..Len(x) /\ x[Nones(q, i)] \in Events
         /\ PendingOf(q, x) \in Seq(Events)
         /\ Len(PendingOf(q, x)) = IF Alone(q, x) THEN Len(q) - 1 ELSE Len(q)
         /\ \A i \in 1..(IF Alone(q, x) THEN Len(q) - 1 ELSE Len(q)) :
              PendingOf(q, x)[i] = IF q[i] # 0 THEN q[i] ELSE x[Nones(q, i)]
<1> DEFINE N == Len(q)
           M == IF Alone(q, x) THEN N - 1 ELSE N
<1>0. MaxEvents \in Nat
  BY EndpointAssumption DEF Endpoint!EndpointParameters
<1>1. /\ N \in Nat /\ Len(x) \in Nat /\ \A i \in 1..N : q[i] \in 0..MaxEvents
      /\ \A i \in 1..Len(x) : x[i] \in Events
      /\ q # <<>> <=> N # 0
  BY LenProperties, ElementOfSeq, EmptySeq DEF Matched
<1>2. M \in Nat /\ M <= N
  BY <1>1 DEF Alone
<1>3. Nones(q, M) <= Len(x)
  <2>1. CASE Alone(q, x)
    <3>1. N \in Nat \ {0} /\ q[N] = 0 /\ Nones(q, N) = Len(x) + 1 /\ M = N - 1
      BY <1>1, <2>1 DEF Alone
    <3>2. N - 1 \in Nat /\ (N - 1) + 1 = N
      BY <3>1
    <3> HIDE DEF N, M
    <3>3. Nones(q, (N - 1) + 1) = Nones(q, N - 1) + 1 /\ Nones(q, N - 1) \in Nat
      BY <3>1, <3>2, NonesCount
    <3> QED BY <1>1, <3>1, <3>2, <3>3
  <2>2. CASE ~Alone(q, x)
    BY <1>1, <2>2 DEF Matched
  <2> QED BY <2>1, <2>2
<1>4. ASSUME NEW i \in 1..M
      PROVE  IF q[i] # 0 THEN q[i] \in Events ELSE Nones(q, i) \in 1..Len(x) /\ x[Nones(q, i)] \in Events
  <2>1. i \in 1..N
    BY <1>1, <1>2
  <2>2. CASE q[i] # 0
    BY <1>0, <1>1, <2>1, <2>2 DEF Events
  <2>3. CASE q[i] = 0
    <3>1. i \in Nat /\ i - 1 \in Nat /\ (i - 1) + 1 = i /\ i <= M
      BY <1>2
    <3> HIDE DEF N, M
    <3>2. Nones(q, (i - 1) + 1) = Nones(q, i - 1) + 1 /\ Nones(q, i - 1) \in Nat
      BY <2>3, <3>1, NonesCount
    <3>3. Nones(q, i) \in Nat /\ Nones(q, i) >= 1
      BY <3>1, <3>2
    <3>4. Nones(q, i) <= Nones(q, M) /\ Nones(q, M) \in Nat
      BY <1>2, <3>1, NonesCount
    <3>5. Nones(q, i) \in 1..Len(x)
      BY <1>1, <1>3, <3>3, <3>4
    <3> QED BY <1>1, <2>3, <3>5
  <2> QED BY <2>2, <2>3
<1>5. \A i \in 1..M : EventOf(q, x, i) = (IF q[i] # 0 THEN q[i] ELSE x[Nones(q, i)]) /\ EventOf(q, x, i) \in Events
  <2> TAKE i \in 1..M
  <2>1. q[i] = 0 => Nones(q, i) <= Len(x)
    BY <1>1, <1>4
  <2> HIDE DEF N, M
  <2> QED BY <1>4, <2>1 DEF EventOf
<1>6. (q # <<>> /\ EventOf(q, x, N) = 0) <=> Alone(q, x)
  <2>1. CASE Alone(q, x)
    <3>1. q # <<>> /\ q[N] = 0 /\ Nones(q, N) = Len(x) + 1
      BY <2>1 DEF Alone
    <3> HIDE DEF N, M
    <3>2. ~(Nones(q, N) <= Len(x))
      BY <1>1, <3>1
    <3> QED BY <2>1, <3>1, <3>2 DEF EventOf
  <2>2. CASE ~Alone(q, x)
    <3>1. M = N
      BY <2>2
    <3>2. q # <<>> => N \in 1..M
      BY <1>1, <3>1
    <3> HIDE DEF N, M
    <3>3. q # <<>> => EventOf(q, x, N) \in Events
      BY <1>5, <3>2
    <3>4. 0 \notin Events
      BY DEF Events
    <3> QED BY <2>2, <3>3, <3>4
  <2> QED BY <2>1, <2>2
<1>7. PendingOf(q, x) = [i \in 1..M |-> EventOf(q, x, i)]
  BY <1>6 DEF PendingOf
<1> HIDE DEF N, M
<1>8. PendingOf(q, x) \in [1..M -> Events]
  BY <1>5, <1>7
<1>9. PendingOf(q, x) \in Seq(Events) /\ Len(PendingOf(q, x)) = M
  BY <1>2, <1>8, SeqDef, LenProperties
<1> QED BY <1>1, <1>4, <1>5, <1>7, <1>9 DEF N, M

\* An item comes behind the others: a datagram, or a None.
LEMMA NonesAppend ==
  ASSUME NEW q \in Seq(0..MaxEvents), NEW e \in 0..MaxEvents
  PROVE  /\ Append(q, e) \in Seq(0..MaxEvents) /\ Append(q, e) # <<>>
         /\ Len(q) \in Nat /\ Len(Append(q, e)) = Len(q) + 1
         /\ \A i \in 1..Len(q) : Append(q, e)[i] = q[i]
         /\ Append(q, e)[Len(q) + 1] = e
         /\ \A n \in 0..Len(q) : Nones(Append(q, e), n) = Nones(q, n)
         /\ Nones(Append(q, e), Len(q) + 1) = IF e = 0 THEN Nones(q, Len(q)) + 1 ELSE Nones(q, Len(q))
<1> DEFINE s == Append(q, e)
<1>1. /\ s \in Seq(0..MaxEvents) /\ s # <<>> /\ Len(s) = Len(q) + 1 /\ Len(q) \in Nat
      /\ \A i \in 1..Len(q) : s[i] = q[i]
      /\ s[Len(q) + 1] = e
  BY AppendProperties, LenProperties
<1> HIDE DEF s
<1>2. \A n \in 0..Len(q) : Nones(s, n) = Nones(q, n)
  <2> TAKE n \in 0..Len(q)
  <2>1. n \in Nat /\ \A i \in 1..n : s[i] = q[i]
    BY <1>1
  <2> QED BY <2>1, NonesSame
<1>3. Nones(s, Len(q) + 1) = IF s[Len(q) + 1] = 0 THEN Nones(s, Len(q)) + 1 ELSE Nones(s, Len(q))
  BY <1>1, NonesCount
<1>4. Nones(s, Len(q)) = Nones(q, Len(q))
  BY <1>1, <1>2
<1> QED BY <1>1, <1>2, <1>3, <1>4 DEF s

\* Two sequences of events that differ by one at the end, or in front.
LEMMA EventAppended ==
  ASSUME NEW s \in Seq(Events), NEW t \in Seq(Events), NEW e \in Events, Len(t) = Len(s) + 1,
         \A i \in 1..Len(s) : t[i] = s[i], t[Len(s) + 1] = e
  PROVE  t = Append(s, e)
<1> DEFINE a == Append(s, e)
<1>1. /\ a \in Seq(Events) /\ Len(a) = Len(s) + 1 /\ Len(s) \in Nat
      /\ \A i \in 1..Len(s) : a[i] = s[i]
      /\ a[Len(s) + 1] = e
  BY AppendProperties, LenProperties
<1> HIDE DEF a
<1>2. \A i \in 1..Len(t) : t[i] = a[i]
  BY <1>1
<1>3. t = a
  BY <1>1, <1>2, SeqEqual
<1> QED BY <1>3 DEF a

LEMMA EventRemoved ==
  ASSUME NEW s \in Seq(Events), NEW t \in Seq(Events), s # <<>>, Len(t) = Len(s) - 1,
         \A i \in 1..Len(t) : t[i] = s[i + 1]
  PROVE  t = Tail(s)
<1> DEFINE a == Tail(s)
<1>1. a \in Seq(Events) /\ Len(a) = Len(s) - 1 /\ \A i \in 1..Len(a) : a[i] = s[i + 1]
  BY HeadTailProperties
<1> HIDE DEF a
<1>2. \A i \in 1..Len(t) : t[i] = a[i]
  BY <1>1
<1>3. t = a
  BY <1>1, <1>2, SeqEqual
<1> QED BY <1>3 DEF a

LEMMA PendingDatagram ==
  ASSUME NEW q, NEW x, Matched(q, x), ~Alone(q, x), NEW e \in 1..MaxEvents
  PROVE  /\ Matched(Append(q, e), x) /\ ~Alone(Append(q, e), x)
         /\ PendingOf(Append(q, e), x) = Append(PendingOf(q, x), e)
<1> DEFINE s == Append(q, e)
<1>0. q \in Seq(0..MaxEvents) /\ x \in Seq(Events) /\ e \in 0..MaxEvents /\ e # 0 /\ e \in Events
  BY EndpointAssumption DEF Matched, Events, Endpoint!EndpointParameters
<1>1. /\ s \in Seq(0..MaxEvents) /\ s # <<>> /\ Len(q) \in Nat /\ Len(s) = Len(q) + 1
      /\ \A i \in 1..Len(q) : s[i] = q[i]
      /\ s[Len(q) + 1] = e
      /\ \A n \in 0..Len(q) : Nones(s, n) = Nones(q, n)
      /\ Nones(s, Len(q) + 1) = Nones(q, Len(q))
  BY <1>0, NonesAppend
<1> HIDE DEF s
<1>2. ~Alone(s, x)
  BY <1>0, <1>1 DEF Alone
<1>3. Nones(q, Len(q)) = Len(x)
  BY DEF Matched
<1>4. Matched(s, x)
  BY <1>0, <1>1, <1>3 DEF Matched
<1>5. /\ PendingOf(q, x) \in Seq(Events) /\ Len(PendingOf(q, x)) = Len(q)
      /\ \A i \in 1..Len(q) : PendingOf(q, x)[i] = IF q[i] # 0 THEN q[i] ELSE x[Nones(q, i)]
  BY PendingProperties
<1>6. /\ PendingOf(s, x) \in Seq(Events) /\ Len(PendingOf(s, x)) = Len(s)
      /\ \A i \in 1..Len(s) : PendingOf(s, x)[i] = IF s[i] # 0 THEN s[i] ELSE x[Nones(s, i)]
  BY <1>2, <1>4, PendingProperties
<1>7. \A i \in 1..Len(q) : PendingOf(s, x)[i] = PendingOf(q, x)[i]
  <2> TAKE i \in 1..Len(q)
  <2>1. i \in 1..Len(s) /\ i \in 0..Len(q)
    BY <1>1
  <2> QED BY <1>1, <1>5, <1>6, <2>1
<1>8. PendingOf(s, x)[Len(q) + 1] = e
  <2>1. Len(q) + 1 \in 1..Len(s)
    BY <1>1
  <2> QED BY <1>0, <1>1, <1>6, <2>1
<1>9. PendingOf(s, x) = Append(PendingOf(q, x), e)
  BY <1>0, <1>1, <1>5, <1>6, <1>7, <1>8, EventAppended
<1> QED BY <1>2, <1>4, <1>9 DEF s

LEMMA PendingError ==
  ASSUME NEW q, NEW x, Matched(q, x), ~Alone(q, x), NEW e \in Events
  PROVE  /\ Matched(Append(q, 0), Append(x, e)) /\ ~Alone(Append(q, 0), Append(x, e))
         /\ PendingOf(Append(q, 0), Append(x, e)) = Append(PendingOf(q, x), e)
<1> DEFINE s == Append(q, 0)
           y == Append(x, e)
<1>0. q \in Seq(0..MaxEvents) /\ x \in Seq(Events) /\ 0 \in 0..MaxEvents
  BY EndpointAssumption DEF Matched, Events, Endpoint!EndpointParameters
<1>1. /\ s \in Seq(0..MaxEvents) /\ s # <<>> /\ Len(q) \in Nat /\ Len(s) = Len(q) + 1
      /\ \A i \in 1..Len(q) : s[i] = q[i]
      /\ s[Len(q) + 1] = 0
      /\ \A n \in 0..Len(q) : Nones(s, n) = Nones(q, n)
      /\ Nones(s, Len(q) + 1) = Nones(q, Len(q)) + 1
  BY <1>0, NonesAppend
<1>2. /\ y \in Seq(Events) /\ Len(y) = Len(x) + 1 /\ Len(x) \in Nat
      /\ \A i \in 1..Len(x) : y[i] = x[i]
      /\ y[Len(x) + 1] = e
  BY <1>0, AppendProperties, LenProperties
<1> HIDE DEF s, y
<1>3. Nones(q, Len(q)) = Len(x)
  BY DEF Matched
<1>4. ~Alone(s, y)
  BY <1>1, <1>2, <1>3 DEF Alone
<1>5. Matched(s, y)
  BY <1>1, <1>2, <1>3 DEF Matched
<1>6. /\ PendingOf(q, x) \in Seq(Events) /\ Len(PendingOf(q, x)) = Len(q)
      /\ \A i \in 1..Len(q) : /\ PendingOf(q, x)[i] = IF q[i] # 0 THEN q[i] ELSE x[Nones(q, i)]
                              /\ q[i] = 0 => Nones(q, i) \in 1..Len(x)
  BY PendingProperties
<1>7. /\ PendingOf(s, y) \in Seq(Events) /\ Len(PendingOf(s, y)) = Len(s)
      /\ \A i \in 1..Len(s) : PendingOf(s, y)[i] = IF s[i] # 0 THEN s[i] ELSE y[Nones(s, i)]
  BY <1>4, <1>5, PendingProperties
<1>8. \A i \in 1..Len(q) : PendingOf(s, y)[i] = PendingOf(q, x)[i]
  <2> TAKE i \in 1..Len(q)
  <2>1. i \in 1..Len(s) /\ i \in 0..Len(q)
    BY <1>1
  <2> QED BY <1>1, <1>2, <1>6, <1>7, <2>1
<1>9. PendingOf(s, y)[Len(q) + 1] = e
  <2>1. Len(q) + 1 \in 1..Len(s)
    BY <1>1
  <2>2. Nones(s, Len(q) + 1) = Len(x) + 1
    BY <1>1, <1>3
  <2> QED BY <1>1, <1>2, <1>7, <2>1, <2>2
<1>10. PendingOf(s, y) = Append(PendingOf(q, x), e)
  BY <1>1, <1>6, <1>7, <1>8, <1>9, EventAppended
<1> QED BY <1>4, <1>5, <1>10 DEF s, y

LEMMA PendingLoss ==
  ASSUME NEW q, NEW x, Matched(q, x), ~Alone(q, x)
  PROVE  Matched(Append(q, 0), x) /\ PendingOf(Append(q, 0), x) = PendingOf(q, x)
<1> DEFINE s == Append(q, 0)
<1>0. q \in Seq(0..MaxEvents) /\ x \in Seq(Events) /\ 0 \in 0..MaxEvents
  BY EndpointAssumption DEF Matched, Events, Endpoint!EndpointParameters
<1>1. /\ s \in Seq(0..MaxEvents) /\ s # <<>> /\ Len(q) \in Nat /\ Len(s) = Len(q) + 1
      /\ \A i \in 1..Len(q) : s[i] = q[i]
      /\ s[Len(q) + 1] = 0
      /\ \A n \in 0..Len(q) : Nones(s, n) = Nones(q, n)
      /\ Nones(s, Len(q) + 1) = Nones(q, Len(q)) + 1
  BY <1>0, NonesAppend
<1> HIDE DEF s
<1>2. Alone(s, x) /\ Matched(s, x)
  BY <1>0, <1>1 DEF Alone, Matched
<1>3. /\ PendingOf(q, x) \in Seq(Events) /\ Len(PendingOf(q, x)) = Len(q)
      /\ \A i \in 1..Len(q) : PendingOf(q, x)[i] = IF q[i] # 0 THEN q[i] ELSE x[Nones(q, i)]
  BY PendingProperties
<1>4. /\ PendingOf(s, x) \in Seq(Events) /\ Len(PendingOf(s, x)) = Len(s) - 1
      /\ \A i \in 1..(Len(s) - 1) : PendingOf(s, x)[i] = IF s[i] # 0 THEN s[i] ELSE x[Nones(s, i)]
  BY <1>2, PendingProperties
<1>5. \A i \in 1..Len(q) : PendingOf(s, x)[i] = PendingOf(q, x)[i]
  <2> TAKE i \in 1..Len(q)
  <2>1. i \in 1..(Len(s) - 1) /\ i \in 0..Len(q)
    BY <1>1
  <2> QED BY <1>1, <1>3, <1>4, <2>1
<1>6. PendingOf(s, x) = PendingOf(q, x)
  BY <1>1, <1>3, <1>4, <1>5, SeqEqual
<1> QED BY <1>2, <1>6 DEF s

\* The first item is taken: it is the first of the events that wait, or the None of the
\* loss.
LEMMA PendingTaken ==
  ASSUME NEW q, NEW x, Matched(q, x), q # <<>>
  PROVE  /\ Head(q) # 0 =>
              /\ Matched(Tail(q), x) /\ (Alone(Tail(q), x) => Alone(q, x))
              /\ PendingOf(q, x) # <<>> /\ Head(PendingOf(q, x)) = Head(q)
              /\ PendingOf(Tail(q), x) = Tail(PendingOf(q, x))
         /\ Head(q) = 0 /\ x # <<>> =>
              /\ Matched(Tail(q), Tail(x)) /\ (Alone(Tail(q), Tail(x)) => Alone(q, x))
              /\ PendingOf(q, x) # <<>> /\ Head(PendingOf(q, x)) = Head(x)
              /\ PendingOf(Tail(q), Tail(x)) = Tail(PendingOf(q, x))
         /\ Head(q) = 0 /\ x = <<>> => Alone(q, x) /\ Tail(q) = <<>> /\ PendingOf(q, x) = <<>>
<1> DEFINE t == Tail(q)
           N == Len(q)
           M == IF Alone(q, x) THEN N - 1 ELSE N
           P == PendingOf(q, x)
<1>1. q \in Seq(0..MaxEvents) /\ x \in Seq(Events)
  BY DEF Matched
<1>2. /\ N \in Nat \ {0} /\ Head(q) = q[1] /\ t \in Seq(0..MaxEvents) /\ Len(t) = N - 1
      /\ \A i \in 1..(N - 1) : t[i] = q[i + 1]
      /\ Len(x) \in Nat
      /\ t # <<>> <=> N # 1
  <2>1. /\ N \in Nat \ {0} /\ Head(q) = q[1] /\ t \in Seq(0..MaxEvents) /\ Len(t) = N - 1
        /\ \A i \in 1..(N - 1) : t[i] = q[i + 1]
        /\ Len(x) \in Nat
    BY <1>1, EmptySeq, HeadTailProperties, LenProperties
  <2>2. t # <<>> <=> Len(t) # 0
    BY <2>1, EmptySeq
  <2> QED BY <2>1, <2>2
<1>3. \A n \in 0..(N - 1) : Nones(t, n) = IF q[1] = 0 THEN Nones(q, n + 1) - 1 ELSE Nones(q, n + 1)
  BY <1>1, NonesTail
<1>4. /\ \A n \in Nat : Nones(q, n) \in Nat
      /\ Nones(q, 0) = 0
      /\ \A n \in Nat : Nones(q, n + 1) = IF q[n + 1] = 0 THEN Nones(q, n) + 1 ELSE Nones(q, n)
      /\ \A m, n \in Nat : m <= n => Nones(q, m) <= Nones(q, n)
  BY NonesCount
<1>5. /\ P \in Seq(Events) /\ Len(P) = M
      /\ \A i \in 1..M : P[i] = IF q[i] # 0 THEN q[i] ELSE x[Nones(q, i)]
  BY PendingProperties
<1>6. Nones(q, N) = Len(x) \/ (q[N] = 0 /\ Nones(q, N) = Len(x) + 1)
  BY DEF Matched, Alone
<1>7. Alone(q, x) <=> q[N] = 0 /\ Nones(q, N) = Len(x) + 1
  BY DEF Alone
<1> HIDE DEF P, t, N
<1>8. Nones(q, 1) = IF q[1] = 0 THEN 1 ELSE 0
  <2>1. 0 \in Nat /\ 0 + 1 = 1
    OBVIOUS
  <2>2. Nones(q, 0 + 1) = IF q[0 + 1] = 0 THEN Nones(q, 0) + 1 ELSE Nones(q, 0)
    BY <1>4, <2>1
  <2>3. Nones(q, 1) = IF q[1] = 0 THEN 0 + 1 ELSE 0
    BY <1>4, <2>1, <2>2, Zenon
  <2> QED BY <2>1, <2>3
<1>9. 0 + 1 <= N /\ N - 1 \in 0..(N - 1) /\ (N - 1) + 1 = N
  BY <1>2
<1>10. Nones(t, N - 1) = IF q[1] = 0 THEN Nones(q, N) - 1 ELSE Nones(q, N)
  BY <1>3, <1>9
<1>11. N # 1 => t[N - 1] = q[N]
  <2>1. N # 1 => N - 1 \in 1..(N - 1)
    BY <1>2
  <2> QED BY <1>2, <1>9, <2>1
<1>12. \A y : Alone(t, y) <=> N # 1 /\ t[N - 1] = 0 /\ Nones(t, N - 1) = Len(y) + 1
  BY <1>2 DEF Alone
<1>13. ASSUME q[1] # 0
       PROVE  /\ Matched(t, x) /\ (Alone(t, x) => Alone(q, x))
              /\ P # <<>> /\ Head(P) = q[1] /\ PendingOf(t, x) = Tail(P)
  <2>1. Alone(t, x) <=> Alone(q, x)
    BY <1>6, <1>7, <1>8, <1>10, <1>11, <1>12, <1>13
  <2>2. Matched(t, x)
    BY <1>1, <1>2, <1>6, <1>7, <1>10, <1>13, <2>1 DEF Matched
  <2>3. M \in Nat \ {0}
    BY <1>2, <1>7, <1>13
  <2>4. P # <<>> /\ Head(P) = q[1]
    <3>1. P # <<>>
      BY <1>5, <2>3, EmptySeq
    <3>2. Head(P) = P[1] /\ 1 \in 1..M
      BY <1>5, <2>3, <3>1, HeadTailProperties
    <3> QED BY <1>5, <1>13, <3>1, <3>2
  <2>5. /\ PendingOf(t, x) \in Seq(Events) /\ Len(PendingOf(t, x)) = M - 1
        /\ \A i \in 1..(M - 1) : PendingOf(t, x)[i] = IF t[i] # 0 THEN t[i] ELSE x[Nones(t, i)]
    <3>1. (IF Alone(t, x) THEN Len(t) - 1 ELSE Len(t)) = M - 1
      BY <1>2, <2>1
    <3> HIDE DEF M
    <3> QED BY <2>2, <3>1, PendingProperties
  <2>6. \A i \in 1..(M - 1) : PendingOf(t, x)[i] = P[i + 1]
    <3> TAKE i \in 1..(M - 1)
    <3>1. i + 1 \in 1..M /\ i \in 1..(N - 1) /\ i \in 0..(N - 1)
      BY <1>2, <2>3
    <3>2. t[i] = q[i + 1] /\ Nones(t, i) = Nones(q, i + 1)
      BY <1>2, <1>3, <1>13, <3>1
    <3> HIDE DEF M
    <3> QED BY <1>5, <2>5, <3>1, <3>2
  <2>7. PendingOf(t, x) = Tail(P)
    <3> HIDE DEF M
    <3> QED BY <1>5, <2>4, <2>5, <2>6, EventRemoved
  <2> QED BY <2>1, <2>2, <2>4, <2>7
<1>14. ASSUME q[1] = 0, x # <<>>
       PROVE  /\ Matched(t, Tail(x)) /\ (Alone(t, Tail(x)) => Alone(q, x))
              /\ P # <<>> /\ Head(P) = Head(x) /\ PendingOf(t, Tail(x)) = Tail(P)
  <2> DEFINE y == Tail(x)
  <2>0. /\ y \in Seq(Events) /\ Len(y) = Len(x) - 1 /\ Len(x) # 0 /\ Head(x) = x[1]
        /\ \A i \in 1..(Len(x) - 1) : y[i] = x[i + 1]
    BY <1>1, <1>14, EmptySeq, HeadTailProperties
  <2> HIDE DEF y
  <2>1. Alone(t, y) <=> Alone(q, x)
    <3>1. N = 1 => Nones(q, N) = 1
      BY <1>8, <1>14
    <3>2. Nones(q, N) \in Nat
      BY <1>2, <1>4
    <3> QED BY <1>2, <1>7, <1>10, <1>11, <1>12, <1>14, <2>0, <3>1, <3>2
  <2>2. Matched(t, y)
    <3>1. Nones(q, N) \in Nat
      BY <1>2, <1>4
    <3>2. ~Alone(q, x) => Nones(t, N - 1) = Len(y)
      BY <1>2, <1>6, <1>7, <1>10, <1>14, <2>0, <3>1
    <3> QED BY <1>2, <2>0, <2>1, <3>2 DEF Matched
  <2>3. M \in Nat \ {0}
    <3>1. N = 1 => ~Alone(q, x)
      BY <1>2, <1>7, <1>8, <1>14, <2>0
    <3> QED BY <1>2, <3>1
  <2>4. P # <<>> /\ Head(P) = Head(x)
    <3>1. P # <<>>
      BY <1>5, <2>3, EmptySeq
    <3>2. Head(P) = P[1] /\ 1 \in 1..M
      BY <1>5, <2>3, <3>1, HeadTailProperties
    <3> QED BY <1>5, <1>8, <1>14, <2>0, <3>1, <3>2
  <2>5. /\ PendingOf(t, y) \in Seq(Events) /\ Len(PendingOf(t, y)) = M - 1
        /\ \A i \in 1..(M - 1) : /\ PendingOf(t, y)[i] = IF t[i] # 0 THEN t[i] ELSE y[Nones(t, i)]
                                 /\ t[i] = 0 => Nones(t, i) \in 1..Len(y)
    <3>1. (IF Alone(t, y) THEN Len(t) - 1 ELSE Len(t)) = M - 1
      BY <1>2, <2>1
    <3> HIDE DEF M
    <3> QED BY <2>2, <3>1, PendingProperties
  <2>6. \A i \in 1..(M - 1) : PendingOf(t, y)[i] = P[i + 1]
    <3> TAKE i \in 1..(M - 1)
    <3>1. i + 1 \in 1..M /\ i \in 1..(N - 1) /\ i \in 0..(N - 1) /\ i + 1 \in Nat
      BY <1>2, <2>3
    <3>2. t[i] = q[i + 1] /\ Nones(t, i) = Nones(q, i + 1) - 1 /\ Nones(q, i + 1) \in Nat
      BY <1>2, <1>3, <1>4, <1>14, <3>1
    <3> HIDE DEF M
    <3>3. t[i] = 0 => y[Nones(t, i)] = x[Nones(q, i + 1)]
      <4>1. t[i] = 0 => Nones(t, i) \in 1..(Len(x) - 1)
        BY <2>0, <2>5
      <4>2. Nones(t, i) + 1 = Nones(q, i + 1)
        BY <3>2
      <4> QED BY <2>0, <4>1, <4>2
    <3> QED BY <1>5, <2>5, <3>1, <3>2, <3>3
  <2>7. PendingOf(t, y) = Tail(P)
    <3> HIDE DEF M
    <3> QED BY <1>5, <2>4, <2>5, <2>6, EventRemoved
  <2> QED BY <2>1, <2>2, <2>4, <2>7 DEF y
<1>15. ASSUME q[1] = 0, x = <<>> PROVE Alone(q, x) /\ t = <<>> /\ P = <<>>
  <2>1. Len(x) = 0
    BY <1>15, EmptySeq
  <2>2. Nones(q, 1) <= Nones(q, N) /\ Nones(q, N) \in Nat
    <3>1. 1 \in Nat /\ N \in Nat /\ 1 <= N
      BY <1>2
    <3> QED BY <1>4, <3>1
  <2>3. Alone(q, x) /\ Nones(q, N) = 1
    BY <1>6, <1>7, <1>8, <1>15, <2>1, <2>2
  <2>4. N = 1
    <3> SUFFICES ASSUME N # 1 PROVE FALSE
      OBVIOUS
    <3>1. N - 1 \in Nat /\ 1 \in Nat /\ 1 <= N - 1
      BY <1>2
    <3>2. Nones(q, (N - 1) + 1) = Nones(q, N - 1) + 1
      BY <1>4, <1>7, <1>9, <2>3, <3>1
    <3>3. Nones(q, 1) <= Nones(q, N - 1) /\ Nones(q, N - 1) \in Nat
      BY <1>4, <3>1
    <3> QED BY <1>8, <1>9, <1>15, <2>3, <3>2, <3>3
  <2>5. Len(P) = 0
    BY <1>5, <2>3, <2>4
  <2>6. P = <<>>
    BY <1>5, <2>5, EmptySeq
  <2> QED BY <1>2, <2>3, <2>4, <2>6
<1> QED BY <1>2, <1>13, <1>14, <1>15 DEF t, P

EndpointInOneOrder ==
  /\ given \in Seq(Events) /\ arrived \in Seq(Events)
  /\ given \o PendingOf(recvQueue, excQueue) = arrived
EndpointQueues ==
  /\ Matched(recvQueue, excQueue)
  /\ Alone(recvQueue, excQueue) => endpointLost
  /\ receiver = "woken" => recvQueue # <<>>
EndpointInv ==
  /\ Endpoint!TypeOK /\ EndpointQueues /\ EndpointInOneOrder /\ recvOutcome # "assertion"

\* The queues of an endpoint that got nothing, or gave all.
LEMMA NothingPending ==
  /\ ~Alone(<<>>, <<>>) /\ Matched(<<>>, <<>>) /\ PendingOf(<<>>, <<>>) = <<>>
  /\ \A x : Matched(<<>>, x) => x = <<>>
<1>1. ~Alone(<<>>, <<>>) /\ \A x : ~Alone(<<>>, x)
  BY DEF Alone
<1>2. Nones(<<>>, 0) = 0
  BY NonesCount
<1>3. <<>> \in Seq(0..MaxEvents) /\ <<>> \in Seq(Events) /\ Len(<<>>) = 0
  BY EmptySeq
<1>4. Matched(<<>>, <<>>)
  BY <1>2, <1>3 DEF Matched
<1>5. PendingOf(<<>>, <<>>) \in Seq(Events) /\ Len(PendingOf(<<>>, <<>>)) = 0
  BY <1>1, <1>3, <1>4, PendingProperties
<1>6. \A x : Matched(<<>>, x) => x \in Seq(Events) /\ Len(x) = 0
  BY <1>1, <1>2, <1>3 DEF Matched
<1> QED BY <1>1, <1>4, <1>5, <1>6, EmptySeq

LEMMA EndpointInit == Endpoint!Init => EndpointInv
<1> SUFFICES ASSUME Endpoint!Init PROVE EndpointInv
  OBVIOUS
<1> USE DEF Endpoint!Init
<1>1. MaxEvents \in Nat
  BY EndpointAssumption DEF Endpoint!EndpointParameters
<1>2. <<>> \in Seq(0..MaxEvents) /\ <<>> \in Seq(1..MaxEvents + 1) /\ <<>> \in Seq(Events) /\ <<>> \o <<>> = <<>>
  BY EmptySeq, ConcatEmptySeq DEF Events
<1>3. Endpoint!TypeOK
  <2>1. 0 \in 0..MaxEvents + 1
    BY <1>1
  <2> QED BY <1>2, <2>1, Zenon DEF Endpoint!TypeOK
<1>4. EndpointQueues
  BY NothingPending DEF EndpointQueues
<1>5. EndpointInOneOrder
  BY <1>2, NothingPending DEF EndpointInOneOrder
<1> QED BY <1>3, <1>4, <1>5 DEF EndpointInv

\* An event comes behind those that wait.
LEMMA EventComes ==
  ASSUME EndpointInOneOrder, Matched(recvQueue, excQueue), NEW e \in Events,
         PendingOf(recvQueue', excQueue') = Append(PendingOf(recvQueue, excQueue), e),
         given' = given, arrived' = Append(arrived, e)
  PROVE  EndpointInOneOrder'
<1>1. given \in Seq(Events) /\ arrived \in Seq(Events) /\ given \o PendingOf(recvQueue, excQueue) = arrived
  BY DEF EndpointInOneOrder
<1>2. PendingOf(recvQueue, excQueue) \in Seq(Events)
  BY PendingProperties
<1>3. given \o Append(PendingOf(recvQueue, excQueue), e) = Append(arrived, e)
  BY <1>1, <1>2, ConcatPush
<1>4. Append(arrived, e) \in Seq(Events)
  BY <1>1, AppendProperties
<1> QED BY <1>1, <1>3, <1>4 DEF EndpointInOneOrder

LEMMA DatagramReceivedStep == EndpointInv /\ Endpoint!DatagramReceived => EndpointInv'
<1> SUFFICES ASSUME EndpointInv, Endpoint!DatagramReceived PROVE EndpointInv'
  OBVIOUS
<1> USE DEF EndpointInv, Endpoint!DatagramReceived, Endpoint!Put
<1> DEFINE e == Endpoint!NextEvent
<1>1. MaxEvents \in Nat /\ e \in 1..MaxEvents /\ e \in Events /\ e \in 0..MaxEvents
  <2>1. Len(arrived) \in Nat
    BY LenProperties DEF EndpointInOneOrder
  <2> QED BY <2>1, EndpointAssumption DEF Endpoint!EndpointParameters, Endpoint!NextEvent, Events
<1> HIDE DEF e
<1>2. /\ ~endpointClosing /\ ~endpointLost /\ UNCHANGED <<endpointClosing, endpointLost, fatal, excQueue, recvOutcome, closer, given>>
      /\ recvQueue' = Append(recvQueue, e) /\ arrived' = Append(arrived, e)
      /\ receiver' = IF receiver = "waiting" THEN "woken" ELSE receiver
  BY DEF Endpoint!TypeOK, e
<1>3. Matched(recvQueue, excQueue) /\ ~Alone(recvQueue, excQueue)
  BY <1>2 DEF EndpointQueues
<1>4. /\ Matched(recvQueue', excQueue') /\ ~Alone(recvQueue', excQueue')
      /\ PendingOf(recvQueue', excQueue') = Append(PendingOf(recvQueue, excQueue), e)
  BY <1>1, <1>2, <1>3, PendingDatagram
<1>5. recvQueue' \in Seq(0..MaxEvents) /\ recvQueue' # <<>>
  BY <1>1, <1>2, AppendProperties DEF Endpoint!TypeOK
<1>6. Endpoint!TypeOK'
  BY <1>2, <1>5 DEF Endpoint!TypeOK
<1>7. EndpointQueues'
  BY <1>4, <1>5 DEF EndpointQueues
<1>8. EndpointInOneOrder'
  BY <1>1, <1>2, <1>3, <1>4, EventComes
<1> QED BY <1>2, <1>6, <1>7, <1>8

LEMMA ErrorReceivedStep == EndpointInv /\ Endpoint!ErrorReceived => EndpointInv'
<1> SUFFICES ASSUME EndpointInv, Endpoint!ErrorReceived PROVE EndpointInv'
  OBVIOUS
<1> USE DEF EndpointInv, Endpoint!ErrorReceived, Endpoint!WakesWithError, Endpoint!Put
<1> DEFINE e == Endpoint!NextEvent
<1>1. MaxEvents \in Nat /\ e \in Events /\ e \in 1..MaxEvents + 1
  <2>1. Len(arrived) \in Nat
    BY LenProperties DEF EndpointInOneOrder
  <2> QED BY <2>1, EndpointAssumption DEF Endpoint!EndpointParameters, Endpoint!NextEvent, Events
<1> HIDE DEF e
<1>2. /\ ~endpointLost /\ UNCHANGED <<endpointClosing, endpointLost, fatal, recvOutcome, closer, given>>
      /\ recvQueue' = Append(recvQueue, 0) /\ excQueue' = Append(excQueue, e) /\ arrived' = Append(arrived, e)
      /\ receiver' = IF receiver = "waiting" THEN "woken" ELSE receiver
  BY DEF e
<1>3. Matched(recvQueue, excQueue) /\ ~Alone(recvQueue, excQueue)
  BY <1>2 DEF EndpointQueues
<1>4. /\ Matched(recvQueue', excQueue') /\ ~Alone(recvQueue', excQueue')
      /\ PendingOf(recvQueue', excQueue') = Append(PendingOf(recvQueue, excQueue), e)
  BY <1>1, <1>2, <1>3, PendingError
<1>5. recvQueue' \in Seq(0..MaxEvents) /\ recvQueue' # <<>> /\ excQueue' \in Seq(1..MaxEvents + 1)
  <2>1. 0 \in 0..MaxEvents
    BY <1>1
  <2> QED BY <1>1, <1>2, <2>1, AppendProperties DEF Endpoint!TypeOK
<1>6. Endpoint!TypeOK'
  BY <1>2, <1>5 DEF Endpoint!TypeOK
<1>7. EndpointQueues'
  BY <1>4, <1>5 DEF EndpointQueues
<1>8. EndpointInOneOrder'
  BY <1>1, <1>2, <1>3, <1>4, EventComes
<1> QED BY <1>2, <1>6, <1>7, <1>8

\* The error that asyncio gave the transport up with is the last event; without one, the
\* None of the loss stands alone.
LEMMA EndpointLostStep == EndpointInv /\ Endpoint!ConnectionLost => EndpointInv'
<1> SUFFICES ASSUME EndpointInv, Endpoint!ConnectionLost PROVE EndpointInv'
  OBVIOUS
<1> USE DEF EndpointInv, Endpoint!ConnectionLost, Endpoint!WakesEndpoint, Endpoint!Put
<1>1. MaxEvents \in Nat /\ fatal \in 0..MaxEvents + 1 /\ 0 \in 0..MaxEvents
  BY EndpointAssumption DEF Endpoint!EndpointParameters, Endpoint!TypeOK
<1>2. /\ ~endpointLost /\ endpointLost' = TRUE /\ endpointClosing /\ UNCHANGED <<endpointClosing, fatal, recvOutcome, given>>
      /\ recvQueue' = Append(recvQueue, 0)
      /\ excQueue' = IF fatal # 0 THEN Append(excQueue, fatal) ELSE excQueue
      /\ arrived' = IF fatal # 0 THEN Append(arrived, fatal) ELSE arrived
      /\ receiver' = IF receiver = "waiting" THEN "woken" ELSE receiver
      /\ closer' = IF closer = "waiting" THEN "done" ELSE closer
  OBVIOUS
<1>3. Matched(recvQueue, excQueue) /\ ~Alone(recvQueue, excQueue)
  BY <1>2 DEF EndpointQueues
<1>4. recvQueue' \in Seq(0..MaxEvents) /\ recvQueue' # <<>>
  BY <1>1, <1>2, AppendProperties DEF Endpoint!TypeOK
<1>5. fatal # 0 => fatal \in 1..MaxEvents + 1 /\ fatal \in Events
  BY <1>1 DEF Events
<1>6. excQueue' \in Seq(1..MaxEvents + 1)
  <2>1. excQueue \in Seq(1..MaxEvents + 1)
    BY DEF Endpoint!TypeOK
  <2>2. CASE fatal # 0
    <3>1. fatal \in 1..MaxEvents + 1 /\ excQueue' = Append(excQueue, fatal)
      BY <1>2, <1>5, <2>2
    <3>2. Append(excQueue, fatal) \in Seq(1..MaxEvents + 1)
      BY <2>1, <3>1, AppendProperties, Zenon
    <3> QED BY <3>1, <3>2, Zenon
  <2>3. CASE fatal = 0
    BY <1>2, <2>1, <2>3
  <2> QED BY <2>2, <2>3
<1>7. Endpoint!TypeOK'
  BY <1>2, <1>4, <1>6 DEF Endpoint!TypeOK
<1>8. EndpointQueues' /\ EndpointInOneOrder'
  <2>1. CASE fatal # 0
    <3>1. /\ Matched(recvQueue', excQueue') /\ ~Alone(recvQueue', excQueue')
          /\ PendingOf(recvQueue', excQueue') = Append(PendingOf(recvQueue, excQueue), fatal)
      BY <1>2, <1>3, <1>5, <2>1, PendingError
    <3>2. EndpointQueues'
      BY <1>4, <3>1 DEF EndpointQueues
    <3>3. EndpointInOneOrder'
      <4>1. given' = given /\ arrived' = Append(arrived, fatal)
        BY <1>2, <2>1
      <4> QED BY <1>3, <1>5, <2>1, <3>1, <4>1, EventComes
    <3> QED BY <3>2, <3>3
  <2>2. CASE fatal = 0
    <3>1. Matched(recvQueue', excQueue') /\ PendingOf(recvQueue', excQueue') = PendingOf(recvQueue, excQueue)
      BY <1>2, <1>3, <2>2, PendingLoss
    <3>2. EndpointQueues'
      BY <1>2, <1>4, <3>1 DEF EndpointQueues
    <3>3. EndpointInOneOrder'
      BY <1>2, <2>2, <3>1 DEF EndpointInOneOrder
    <3> QED BY <3>2, <3>3
  <2> QED BY <2>1, <2>2
<1> QED BY <1>2, <1>7, <1>8

\* What waits goes to the task, or stays.
LEMMA EventGoes ==
  ASSUME EndpointInOneOrder, Matched(recvQueue, excQueue), arrived' = arrived,
         \/ given' = given /\ PendingOf(recvQueue', excQueue') = PendingOf(recvQueue, excQueue)
         \/ /\ PendingOf(recvQueue, excQueue) # <<>>
            /\ given' = Append(given, Head(PendingOf(recvQueue, excQueue)))
            /\ PendingOf(recvQueue', excQueue') = Tail(PendingOf(recvQueue, excQueue))
  PROVE  EndpointInOneOrder'
<1> DEFINE P == PendingOf(recvQueue, excQueue)
<1>1. given \in Seq(Events) /\ arrived \in Seq(Events) /\ given \o P = arrived
  BY DEF EndpointInOneOrder
<1>2. P \in Seq(Events)
  BY PendingProperties
<1>3. \/ given' = given /\ PendingOf(recvQueue', excQueue') = P
      \/ P # <<>> /\ given' = Append(given, Head(P)) /\ PendingOf(recvQueue', excQueue') = Tail(P)
  OBVIOUS
<1> HIDE DEF P
<1>4. CASE given' = given /\ PendingOf(recvQueue', excQueue') = P
  BY <1>1, <1>4 DEF EndpointInOneOrder
<1>5. CASE P # <<>> /\ given' = Append(given, Head(P)) /\ PendingOf(recvQueue', excQueue') = Tail(P)
  <2>1. Head(P) \in Events
    BY <1>2, <1>5, HeadTailProperties
  <2>2. given' \in Seq(Events)
    BY <1>1, <1>5, <2>1, AppendProperties
  <2>3. Append(given, Head(P)) \o Tail(P) = given \o P
    BY <1>1, <1>2, <1>5, ConcatShift
  <2> QED BY <1>1, <1>5, <2>2, <2>3 DEF EndpointInOneOrder
<1> QED BY <1>3, <1>4, <1>5

\* A step of the task that reads, or of the one that closes.
LEMMA EndpointKept ==
  ASSUME EndpointInv, UNCHANGED <<recvQueue, excQueue, arrived, given, fatal>>,
         endpointLost' = endpointLost, endpointClosing' \in BOOLEAN, endpointClosing => endpointClosing',
         receiver' \in {"idle", "waiting", "woken"}, receiver' = "woken" => receiver = "woken",
         receiver' = "waiting" => recvQueue = <<>>,
         recvOutcome' \in {"none", "event", "EBADF"} \/ recvOutcome' = recvOutcome,
         closer' \in {"idle", "waiting", "done"}, closer' = "done" => endpointLost
  PROVE  EndpointInv'
<1> USE DEF EndpointInv
<1>1. Endpoint!TypeOK'
  BY Zenon DEF Endpoint!TypeOK
<1>2. EndpointQueues'
  BY DEF EndpointQueues
<1>3. EndpointInOneOrder'
  BY DEF EndpointInOneOrder
<1>4. recvOutcome' # "assertion"
  OBVIOUS
<1> QED BY <1>1, <1>2, <1>3, <1>4

\* The first item is taken by a task that is no longer, or was not, waiting.
LEMMA TakesStep ==
  ASSUME EndpointInv, recvQueue # <<>>, Endpoint!Takes, receiver' = "idle",
         UNCHANGED <<endpointClosing, endpointLost, fatal, closer, arrived>>
  PROVE  EndpointInv'
<1> USE DEF EndpointInv, Endpoint!Gives
<1>1. MaxEvents \in Nat /\ Matched(recvQueue, excQueue) /\ (Alone(recvQueue, excQueue) => endpointLost)
  BY EndpointAssumption DEF Endpoint!EndpointParameters, EndpointQueues
<1>2. /\ recvQueue' = Tail(recvQueue)
      /\ IF Head(recvQueue) = 0 THEN Endpoint!ChecksExceptions
         ELSE recvOutcome' = "event" /\ given' = Append(given, Head(recvQueue)) /\ excQueue' = excQueue
  BY DEF Endpoint!Takes
<1>3. recvQueue' \in Seq(0..MaxEvents)
  BY <1>2, HeadTailProperties DEF Endpoint!TypeOK
<1>4. ASSUME excQueue' \in Seq(1..MaxEvents + 1), recvOutcome' \in {"event", "EBADF"},
             Matched(recvQueue', excQueue'), Alone(recvQueue', excQueue') => Alone(recvQueue, excQueue),
             \/ given' = given /\ PendingOf(recvQueue', excQueue') = PendingOf(recvQueue, excQueue)
             \/ /\ PendingOf(recvQueue, excQueue) # <<>>
                /\ given' = Append(given, Head(PendingOf(recvQueue, excQueue)))
                /\ PendingOf(recvQueue', excQueue') = Tail(PendingOf(recvQueue, excQueue))
      PROVE  EndpointInv'
  <2>1. Endpoint!TypeOK'
    BY <1>3, <1>4, Zenon DEF Endpoint!TypeOK
  <2>2. EndpointQueues'
    BY <1>1, <1>4 DEF EndpointQueues
  <2>3. EndpointInOneOrder'
    BY <1>1, <1>4, EventGoes
  <2>4. recvOutcome' # "assertion"
    BY <1>4
  <2> QED BY <2>1, <2>2, <2>3, <2>4
<1>5. CASE Head(recvQueue) # 0
  <2>1. excQueue' = excQueue /\ recvOutcome' = "event" /\ given' = Append(given, Head(recvQueue))
    BY <1>2, <1>5
  <2>2. /\ Matched(recvQueue', excQueue') /\ (Alone(recvQueue', excQueue') => Alone(recvQueue, excQueue))
        /\ PendingOf(recvQueue, excQueue) # <<>> /\ Head(PendingOf(recvQueue, excQueue)) = Head(recvQueue)
        /\ PendingOf(recvQueue', excQueue') = Tail(PendingOf(recvQueue, excQueue))
    BY <1>1, <1>2, <1>5, <2>1, PendingTaken
  <2>3. excQueue' \in Seq(1..MaxEvents + 1)
    BY <2>1 DEF Endpoint!TypeOK
  <2> QED BY <1>4, <2>1, <2>2, <2>3
<1>6. CASE Head(recvQueue) = 0 /\ excQueue # <<>>
  <2>1. excQueue' = Tail(excQueue) /\ recvOutcome' = "event" /\ given' = Append(given, Head(excQueue))
    BY <1>2, <1>6 DEF Endpoint!ChecksExceptions
  <2>2. /\ Matched(recvQueue', excQueue') /\ (Alone(recvQueue', excQueue') => Alone(recvQueue, excQueue))
        /\ PendingOf(recvQueue, excQueue) # <<>> /\ Head(PendingOf(recvQueue, excQueue)) = Head(excQueue)
        /\ PendingOf(recvQueue', excQueue') = Tail(PendingOf(recvQueue, excQueue))
    BY <1>1, <1>2, <1>6, <2>1, PendingTaken
  <2>3. excQueue \in Seq(1..MaxEvents + 1)
    BY DEF Endpoint!TypeOK
  <2>4. excQueue' \in Seq(1..MaxEvents + 1)
    BY <1>6, <2>1, <2>3, HeadTailProperties, Zenon
  <2> QED BY <1>4, <2>1, <2>2, <2>4
<1>7. CASE Head(recvQueue) = 0 /\ excQueue = <<>>
  <2>1. Alone(recvQueue, excQueue) /\ Tail(recvQueue) = <<>> /\ PendingOf(recvQueue, excQueue) = <<>>
    BY <1>1, <1>7, PendingTaken
  <2>2. endpointClosing
    BY <1>1, <2>1 DEF Endpoint!TypeOK
  <2>3. excQueue' = <<>> /\ recvOutcome' = "EBADF" /\ given' = given
    BY <1>2, <1>7, <2>2 DEF Endpoint!ChecksExceptions
  <2>4. /\ Matched(recvQueue', excQueue') /\ ~Alone(recvQueue', excQueue')
        /\ PendingOf(recvQueue', excQueue') = PendingOf(recvQueue, excQueue)
    BY <1>2, <2>1, <2>3, NothingPending
  <2>5. excQueue' \in Seq(1..MaxEvents + 1)
    BY <2>3, EmptySeq, Zenon
  <2> QED BY <1>4, <2>3, <2>4, <2>5
<1> QED BY <1>5, <1>6, <1>7

\* Closing, and nothing waits: no error does either.
LEMMA RecvFromStep == EndpointInv /\ Endpoint!RecvFrom => EndpointInv'
<1> SUFFICES ASSUME EndpointInv, Endpoint!RecvFrom PROVE EndpointInv'
  OBVIOUS
<1>0. receiver = "idle" /\ UNCHANGED <<endpointClosing, endpointLost, fatal, closer, arrived>>
  BY DEF Endpoint!RecvFrom
<1>1. CASE recvQueue # <<>> /\ Endpoint!Takes /\ UNCHANGED receiver
  BY <1>0, <1>1, TakesStep
<1>2. CASE recvQueue = <<>> /\ endpointClosing /\ Endpoint!ChecksExceptions /\ UNCHANGED <<recvQueue, receiver>>
  <2>1. excQueue = <<>>
    BY <1>2, NothingPending DEF EndpointInv, EndpointQueues
  <2>2. recvOutcome' = "EBADF" /\ UNCHANGED <<excQueue, given>>
    BY <1>2, <2>1 DEF Endpoint!ChecksExceptions
  <2>3. endpointClosing \in BOOLEAN /\ closer \in {"idle", "waiting", "done"} /\ (closer = "done" => endpointLost)
    BY Zenon DEF EndpointInv, Endpoint!TypeOK
  <2> QED BY <1>0, <1>2, <2>2, <2>3, EndpointKept
<1>3. CASE recvQueue = <<>> /\ ~endpointClosing /\ receiver' = "waiting"
           /\ UNCHANGED <<recvQueue, excQueue, recvOutcome, given>>
  <2>1. endpointClosing \in BOOLEAN /\ closer \in {"idle", "waiting", "done"} /\ (closer = "done" => endpointLost)
    BY Zenon DEF EndpointInv, Endpoint!TypeOK
  <2> QED BY <1>0, <1>3, <2>1, EndpointKept
<1> QED BY <1>1, <1>2, <1>3 DEF Endpoint!RecvFrom

LEMMA EndpointStep == EndpointInv /\ [Endpoint!Next]_endpointVars => EndpointInv'
<1> SUFFICES ASSUME EndpointInv, [Endpoint!Next]_endpointVars PROVE EndpointInv'
  OBVIOUS
<1>0. /\ endpointClosing \in BOOLEAN /\ endpointLost \in BOOLEAN /\ receiver \in {"idle", "waiting", "woken"}
      /\ closer \in {"idle", "waiting", "done"} /\ (closer = "done" => endpointLost)
      /\ (receiver = "waiting" => recvQueue = <<>>)
  BY Zenon DEF EndpointInv, Endpoint!TypeOK
<1>1. CASE Endpoint!DatagramReceived
  BY <1>1, DatagramReceivedStep
<1>2. CASE Endpoint!ErrorReceived
  BY <1>2, ErrorReceivedStep
<1>3. CASE Endpoint!FatalError
  <2> USE DEF Endpoint!FatalError
  <2>1. MaxEvents + 1 \in 0..MaxEvents + 1
    BY EndpointAssumption DEF Endpoint!EndpointParameters
  <2>2. Endpoint!TypeOK'
    BY <1>0, <1>3, <2>1, Zenon DEF EndpointInv, Endpoint!TypeOK
  <2>3. EndpointQueues' /\ EndpointInOneOrder' /\ recvOutcome' # "assertion"
    BY <1>3 DEF EndpointInv, EndpointQueues, EndpointInOneOrder
  <2> QED BY <2>2, <2>3 DEF EndpointInv
<1>4. CASE Endpoint!ConnectionLost
  BY <1>4, EndpointLostStep
<1>5. CASE Endpoint!RecvFrom
  BY <1>5, RecvFromStep
<1>6. CASE Endpoint!RecvGoesOn
  <2>1. recvQueue # <<>>
    BY <1>6 DEF Endpoint!RecvGoesOn, EndpointInv, EndpointQueues
  <2> QED BY <1>6, <2>1, TakesStep DEF Endpoint!RecvGoesOn
<1>7. CASE Endpoint!CancelRecv
  BY <1>0, <1>7, EndpointKept DEF Endpoint!CancelRecv
<1>8. CASE Endpoint!Close
  BY <1>0, <1>8, EndpointKept DEF Endpoint!Close
<1>9. CASE Endpoint!CancelClose
  BY <1>0, <1>9, EndpointKept DEF Endpoint!CancelClose
<1>10. CASE UNCHANGED endpointVars
  BY <1>0, <1>10, EndpointKept DEF endpointVars
<1> QED BY <1>1, <1>2, <1>3, <1>4, <1>5, <1>6, <1>7, <1>8, <1>9, <1>10 DEF Endpoint!Next

LEMMA EndpointInOrder == EndpointInv => Endpoint!TypeOK /\ Endpoint!EventsInOrder
BY PendingIsPending DEF EndpointInv, EndpointInOneOrder, Endpoint!EventsInOrder

-----------------------------------------------------------------------------
(* The packet in several parts (VectoredSend) *)

\* The operators of the library, seen through the instance.
LEMMA VectoredFolds ==
  /\ \A s : Vectored!SumOf(s) = SumAll(s)
  /\ \A ss : Vectored!FlattenSeq(ss) = FlattenSeq(ss)
  /\ \A s : Vectored!Min(s) = Min(s)
<1>1. ASSUME NEW s PROVE Vectored!SumOf(s) = SumAll(s)
  BY DEF SumAll, Vectored!SumOf, Vectored!FoldLeft, Vectored!MapThenFoldSet, FoldLeft, MapThenFoldSet, Vectored!Max, Max
<1>2. ASSUME NEW ss PROVE Vectored!FlattenSeq(ss) = FlattenSeq(ss)
  BY DEF Vectored!FlattenSeq, FlattenSeq, Vectored!FoldLeft, Vectored!MapThenFoldSet, FoldLeft, MapThenFoldSet, Vectored!Max, Max
<1>3. ASSUME NEW s PROVE Vectored!Min(s) = Min(s)
  BY DEF Vectored!Min, Min
<1> QED BY <1>1, <1>2, <1>3

\* The buffers hold bytes that follow each other, and e says where each one ends.
Edges(bufs, e) ==
  /\ Len(bufs) \in Nat /\ bufs = [i \in 1..Len(bufs) |-> [from |-> e[i - 1], upto |-> e[i]]]
  /\ \A i \in 0..Len(bufs) : e[i] \in Nat
  /\ \A i \in 1..Len(bufs) : e[i - 1] <= e[i]

VectoredInv ==
  /\ Vectored!SumOf(parts) \in Nat /\ Counts(wire, -1)
  /\ \E e : Edges(buffers, e) /\ e[0] = Len(wire) /\ e[Len(buffers)] = Vectored!SumOf(parts)
  /\ call = "sent" => buffers = <<>>

LEMMA WholeEdges ==
  ASSUME NEW s \in Seq(Nat)
  PROVE  /\ Vectored!SumOf(s) \in Nat
         /\ \E e : Edges(Vectored!Whole(s), e) /\ e[0] = 0 /\ e[Len(Vectored!Whole(s))] = Vectored!SumOf(s)
<1>1. PICK n \in Nat : n = Len(s)
  BY LenProperties
<1>2. PICK f : /\ Sums(f, s) /\ SumAll(s) = f[Len(s)]
               /\ \A i \in 0..Len(s) : f[i] \in Nat /\ SumAll(SubSeq(s, 1, i)) = f[i]
               /\ \A i \in 1..Len(s) : f[i - 1] <= f[i]
  BY PrefixSums
<1>3. \A i \in 0..n : f[i] \in Nat /\ Vectored!SumOf(SubSeq(s, 1, i)) = f[i]
  BY <1>1, <1>2, VectoredFolds
<1>4. f[0] = 0 /\ Vectored!SumOf(s) = f[n] /\ f[n] \in Nat
  <2>1. Vectored!SumOf(s) = f[n] /\ n \in 0..n
    <3>1. SumAll(s) = f[n]
      BY <1>1, <1>2
    <3>2. Vectored!SumOf(s) = SumAll(s)
      BY VectoredFolds
    <3> QED BY <3>1, <3>2
  <2>2. f[0] = 0
    BY <1>2 DEF Sums
  <2> QED BY <1>3, <2>1, <2>2
<1> DEFINE w == Vectored!Whole(s)
           b == [i \in 1..n |-> [from |-> f[i - 1], upto |-> f[i]]]
<1>5. w = b
  <2>1. DOMAIN s = 1..n
    BY <1>1, LenProperties
  <2>2. w = [i \in 1..n |-> [from |-> Vectored!SumOf(SubSeq(s, 1, i - 1)), upto |-> Vectored!SumOf(SubSeq(s, 1, i))]]
    BY <2>1 DEF Vectored!Whole
  <2>3. \A i \in 1..n : i \in 0..n /\ i - 1 \in 0..n
    OBVIOUS
  <2> QED BY <1>3, <2>2, <2>3
<1> HIDE DEF w
<1>6. Len(b) = n
  <2>0. PICK R : R = [from : Nat, upto : Nat]
    OBVIOUS
  <2>1. b \in [1..n -> R]
    <3>1. \A i \in 1..n : f[i - 1] \in Nat /\ f[i] \in Nat
      <4>1. \A i \in 1..n : i \in 0..n /\ i - 1 \in 0..n
        OBVIOUS
      <4> QED BY <1>3, <4>1
    <3> QED BY <2>0, <3>1
  <2> HIDE DEF b
  <2>2. b \in Seq(R)
    BY <2>1, SeqDef
  <2>3. DOMAIN b = 1..n
    BY <2>1
  <2> QED BY <2>2, <2>3, LenProperties
<1>7. Edges(w, f)
  <2>1. Len(w) = n /\ w = [i \in 1..n |-> [from |-> f[i - 1], upto |-> f[i]]]
    BY <1>5, <1>6
  <2> QED BY <1>1, <1>2, <1>3, <2>1 DEF Edges
<1>8. f[0] = 0 /\ f[Len(w)] = Vectored!SumOf(s)
  BY <1>4, <1>5, <1>6
<1> QED BY <1>4, <1>7, <1>8 DEF w

\* The bytes that the buffers hold.
LEMMA EdgesBytes ==
  ASSUME NEW bufs, NEW e, Edges(bufs, e)
  PROVE  /\ Counts(Vectored!BytesOf(bufs), e[0] - 1)
         /\ Len(Vectored!BytesOf(bufs)) = e[Len(bufs)] - e[0]
         /\ e[0] \in Nat /\ e[Len(bufs)] \in Nat
<1>1. PICK n \in Nat : n = Len(bufs)
  BY DEF Edges
<1>2. /\ bufs = [i \in 1..n |-> [from |-> e[i - 1], upto |-> e[i]]]
      /\ \A i \in 0..n : e[i] \in Nat
      /\ \A i \in 1..n : e[i - 1] <= e[i]
  BY <1>1 DEF Edges
<1>3. DOMAIN bufs = 1..n /\ \A i \in 1..n : bufs[i].from = e[i - 1] /\ bufs[i].upto = e[i]
  BY <1>2
<1> DEFINE ss == [i \in 1..n |-> [j \in 1..Vectored!Length(bufs[i]) |-> bufs[i].from + j - 1]]
           d == [i \in 0..n |-> e[i] - 1]
<1>4. Vectored!BytesOf(bufs) = FlattenSeq(ss)
  BY <1>3, VectoredFolds DEF Vectored!BytesOf
<1>5. ASSUME NEW i \in 1..n
      PROVE  /\ ss[i] \in Seq(Int) /\ Len(ss[i]) = d[i] - d[i - 1] /\ Counts(ss[i], d[i - 1])
  <2>1. i - 1 \in 0..n /\ i \in 0..n
    OBVIOUS
  <2>2. PICK l \in Nat : l = e[i] - e[i - 1]
    <3>1. e[i] \in Nat /\ e[i - 1] \in Nat /\ e[i - 1] <= e[i]
      BY <1>2, <2>1
    <3> QED BY <3>1
  <2>3. PICK p \in Nat : p = e[i - 1]
    BY <1>2, <2>1
  <2>4. ss[i] = [j \in 1..l |-> p + j - 1]
    BY <1>3, <2>2, <2>3 DEF Vectored!Length
  <2>5. d[i] - d[i - 1] = l /\ d[i - 1] = p - 1
    <3>1. d[i] = e[i] - 1 /\ d[i - 1] = e[i - 1] - 1 /\ e[i] \in Nat
      BY <1>2, <2>1
    <3> QED BY <2>2, <2>3, <3>1
  <2> DEFINE t == [j \in 1..l |-> p + j - 1]
  <2>6. t \in [1..l -> Int] /\ \A j \in 1..l : t[j] = (p - 1) + j
    OBVIOUS
  <2> HIDE DEF t
  <2>7. t \in Seq(Int) /\ Len(t) = l
    <3>1. t \in Seq(Int) /\ DOMAIN t = 1..l
      BY <2>6, SeqDef
    <3> QED BY <3>1, LenProperties
  <2>8. Counts(t, p - 1)
    BY <2>6, <2>7 DEF Counts
  <2>9. ss[i] = t
    BY <2>4 DEF t
  <2> HIDE DEF ss, d
  <2> QED BY <2>5, <2>7, <2>8, <2>9
<1>6. d \in [0..n -> Int]
  BY <1>2
<1>7. ss \in Seq(Seq(Int)) /\ Len(ss) = n
  <2>1. ss \in [1..n -> Seq(Int)]
    <3>1. \A i \in 1..n : ss[i] \in Seq(Int)
      BY <1>5
    <3>2. ss = [i \in 1..n |-> ss[i]]
      OBVIOUS
    <3> HIDE DEF ss
    <3> QED BY <3>1, <3>2
  <2> HIDE DEF ss
  <2>2. ss \in Seq(Seq(Int)) /\ DOMAIN ss = 1..n
    BY <2>1, SeqDef
  <2> QED BY <2>2, LenProperties
<1>8. d[0] = e[0] - 1 /\ d[n] = e[n] - 1 /\ e[0] \in Nat /\ e[n] \in Nat
  BY <1>2
<1> HIDE DEF ss, d
<1>9. Pieces(ss, d)
  BY <1>5, <1>6, <1>7 DEF Pieces
<1>10. Counts(FlattenSeq(ss), d[0]) /\ Len(FlattenSeq(ss)) = d[n] - d[0]
  BY <1>7, <1>9, FlattenPieces
<1>11. d[n] - d[0] = e[n] - e[0]
  BY <1>8
<1> QED BY <1>1, <1>4, <1>8, <1>10, <1>11

\* Buffers that are described by their edges.
LEMMA EdgesIntro ==
  ASSUME NEW m \in Nat, NEW e, \A i \in 0..m : e[i] \in Nat, \A i \in 1..m : e[i - 1] <= e[i],
         NEW bufs, bufs = [i \in 1..m |-> [from |-> e[i - 1], upto |-> e[i]]]
  PROVE  Edges(bufs, e) /\ Len(bufs) = m
<1>1. PICK R : R = [from : Nat, upto : Nat]
  OBVIOUS
<1>2. \A i \in 1..m : e[i - 1] \in Nat /\ e[i] \in Nat
  <2>1. \A i \in 1..m : i - 1 \in 0..m /\ i \in 0..m
    OBVIOUS
  <2> QED BY <2>1
<1>3. bufs \in [1..m -> R]
  BY <1>1, <1>2
<1>4. bufs \in Seq(R) /\ DOMAIN bufs = 1..m
  BY <1>3, SeqDef
<1>5. Len(bufs) = m
  BY <1>4, LenProperties
<1> QED BY <1>5 DEF Edges

IsPart(p, e, k, m) ==
  p = [i \in 1..(m - k) |-> [from |-> e[k + i - 1], upto |-> e[k + i]]] /\ Len(p) = m - k

\* Some of the buffers, from the one at k + 1 to the one at m.
LEMMA EdgesPart ==
  ASSUME NEW bufs, NEW e, Edges(bufs, e), NEW m \in 0..Len(bufs), NEW k \in 0..m
  PROVE  IsPart(SubSeq(bufs, k + 1, m), e, k, m)
<1> DEFINE s == SubSeq(bufs, k + 1, m)
<1>1. PICK n \in Nat : n = Len(bufs)
  BY DEF Edges
<1>2. /\ \A i \in 1..n : bufs[i] = [from |-> e[i - 1], upto |-> e[i]]
      /\ \A i \in 0..n : e[i] \in Nat
  BY <1>1 DEF Edges
<1>3. PICK R : R = [from : Nat, upto : Nat]
  OBVIOUS
<1>4. ASSUME NEW i \in 1..n PROVE bufs[i] \in R
  <2>1. i - 1 \in 0..n /\ i \in 0..n
    OBVIOUS
  <2>2. e[i - 1] \in Nat /\ e[i] \in Nat
    BY <1>2, <2>1
  <2>3. bufs[i] = [from |-> e[i - 1], upto |-> e[i]]
    BY <1>2
  <2>4. [from |-> e[i - 1], upto |-> e[i]] \in [from : Nat, upto : Nat]
    BY <2>2
  <2> QED BY <1>3, <2>3, <2>4
<1>5. m \in 0..n /\ k \in 0..m /\ m \in Nat /\ k \in Nat /\ k <= m /\ m <= n
  BY <1>1
<1>6. PICK a \in Int : a = k + 1
  BY <1>5
<1>7. \A i \in a..m : bufs[i] \in R
  BY <1>4, <1>5, <1>6
<1>8. /\ SubSeq(bufs, a, m) \in Seq(R)
      /\ Len(SubSeq(bufs, a, m)) = IF a <= m THEN m - a + 1 ELSE 0
      /\ \A i \in 1..(m - a + 1) : SubSeq(bufs, a, m)[i] = bufs[a + i - 1]
  BY <1>5, <1>7, SubSeqProperties
<1>9. s = SubSeq(bufs, a, m)
  BY <1>6
<1> HIDE DEF s
<1>10. Len(s) = m - k
  <2>1. (IF a <= m THEN m - a + 1 ELSE 0) = m - k
    BY <1>5, <1>6
  <2> QED BY <1>8, <1>9, <2>1
<1>11. ASSUME NEW i \in 1..(m - k) PROVE s[i] = [from |-> e[k + i - 1], upto |-> e[k + i]]
  <2>1. i \in 1..(m - a + 1) /\ a + i - 1 = k + i /\ k + i \in 1..n
    BY <1>5, <1>6
  <2>2. s[i] = bufs[k + i]
    BY <1>8, <1>9, <2>1
  <2>3. bufs[k + i] = [from |-> e[(k + i) - 1], upto |-> e[k + i]]
    BY <1>2, <2>1
  <2>4. (k + i) - 1 = k + i - 1
    OBVIOUS
  <2> QED BY <2>2, <2>3, <2>4
<1>12. s \in Seq(R) /\ DOMAIN s = 1..(m - k)
  <2>1. s \in Seq(R)
    BY <1>8, <1>9
  <2>2. DOMAIN s = 1..Len(s)
    BY <2>1, LenProperties
  <2> QED BY <1>10, <2>1, <2>2
<1>13. s = [i \in 1..(m - k) |-> s[i]]
  <2>1. s \in [1..(m - k) -> R]
    <3>1. s \in [1..Len(s) -> R]
      BY <1>12, LenProperties
    <3> QED BY <1>10, <3>1
  <2> QED BY <2>1
<1>14. s = [i \in 1..(m - k) |-> [from |-> e[k + i - 1], upto |-> e[k + i]]]
  BY <1>11, <1>13
<1> QED BY <1>10, <1>14 DEF s, IsPart

\* What is left to account for when the first k buffers are taken out.
LEMMA LeftoverIs ==
  ASSUME NEW bufs, NEW e, Edges(bufs, e), NEW k \in 0..Len(bufs), NEW nbytes \in Nat
  PROVE  Vectored!LeftoverAfter(bufs, nbytes, k) = nbytes - (e[k] - e[0])
<1>1. PICK n \in Nat : n = Len(bufs)
  BY DEF Edges
<1>2. /\ \A i \in 1..n : bufs[i].from = e[i - 1] /\ bufs[i].upto = e[i]
      /\ \A i \in 0..n : e[i] \in Nat
  BY <1>1 DEF Edges
<1>3. \A i \in 1..k : i \in 1..n /\ i \in 0..n /\ i - 1 \in 0..n /\ k \in Nat /\ 0 \in 0..n /\ k \in 0..n
  BY <1>1
<1>4. k \in Nat /\ k \in 0..n /\ 0 \in 0..n
  BY <1>1
<1> DEFINE t == [i \in 1..k |-> Vectored!Length(bufs[i])]
           g == [i \in 0..k |-> e[i] - e[0]]
<1>5. \A i \in 1..k : t[i] = e[i] - e[i - 1] /\ t[i] \in Int
  BY <1>2, <1>3 DEF Vectored!Length
<1>6. t \in Seq(Int) /\ Len(t) = k
  <2>1. t \in [1..k -> Int]
    BY <1>5
  <2> HIDE DEF t
  <2>2. t \in Seq(Int) /\ DOMAIN t = 1..k
    BY <1>4, <2>1, SeqDef
  <2> QED BY <1>4, <2>2, LenProperties
<1>7. Sums(g, t)
  <2>1. \A i \in 0..k : e[i] \in Nat
    BY <1>2, <1>4
  <2>2. g \in [0..k -> Int] /\ g[0] = 0
    BY <1>4, <2>1
  <2>3. ASSUME NEW i \in 1..k PROVE g[i] = g[i - 1] + t[i]
    <3>1. i \in 0..k /\ i - 1 \in 0..k
      BY <1>4
    <3>2. g[i] = e[i] - e[0] /\ g[i - 1] = e[i - 1] - e[0] /\ e[i] \in Nat /\ e[i - 1] \in Nat /\ e[0] \in Nat
      BY <1>4, <2>1, <3>1
    <3> HIDE DEF g, t
    <3> QED BY <1>5, <3>2
  <2> HIDE DEF g, t
  <2> QED BY <1>6, <2>2, <2>3 DEF Sums
<1>8. g[k] = e[k] - e[0]
  BY <1>4
<1>9. Vectored!LeftoverAfter(bufs, nbytes, k) = nbytes - SumAll(t)
  <2>1. Vectored!SumOf(t) = SumAll(t)
    BY VectoredFolds
  <2>2. Vectored!LeftoverAfter(bufs, nbytes, k) = nbytes - Vectored!SumOf(t)
    BY DEF Vectored!LeftoverAfter
  <2> QED BY <2>1, <2>2
<1> HIDE DEF g, t
<1>10. SumAll(t) = g[k]
  <2>1. SumAll(t) = g[Len(t)]
    BY <1>6, <1>7, SumIs
  <2> QED BY <1>6, <2>1
<1> QED BY <1>8, <1>9, <1>10

\* adjust_leftover_buffer() leaves the bytes that were not sent.
LEMMA AdjustedEdges ==
  ASSUME NEW bufs, NEW e, Edges(bufs, e), NEW nbytes \in 0..(e[Len(bufs)] - e[0])
  PROVE  LET left == Vectored!AdjustLeftover(bufs, nbytes) IN
         \E f : Edges(left, f) /\ f[0] = e[0] + nbytes /\ f[Len(left)] = e[Len(bufs)]
<1>1. PICK n \in Nat : n = Len(bufs)
  BY DEF Edges
<1>2. /\ \A i \in 1..n : bufs[i].from = e[i - 1] /\ bufs[i].upto = e[i]
      /\ \A i \in 0..n : e[i] \in Nat
      /\ \A i \in 1..n : e[i - 1] <= e[i]
  BY <1>1 DEF Edges
<1>3. nbytes \in Nat /\ nbytes <= e[n] - e[0] /\ e[0] \in Nat /\ e[n] \in Nat
  <2>1. e[0] \in Nat /\ e[n] \in Nat
    BY <1>2
  <2> QED BY <1>1, <2>1
<1> DEFINE left == Vectored!AdjustLeftover(bufs, nbytes)
<1>4. CASE nbytes = 0
  <2>1. left = bufs
    BY <1>4 DEF Vectored!AdjustLeftover
  <2>2. e[0] = e[0] + nbytes
    BY <1>3, <1>4
  <2> QED BY <2>1, <2>2
<1>5. CASE nbytes # 0
  <2> DEFINE I == {i \in 0..n : Vectored!LeftoverAfter(bufs, nbytes, i) <= 0}
  <2>1. I = {i \in 0..n : nbytes - (e[i] - e[0]) <= 0}
    BY <1>1, <1>3, LeftoverIs
  <2>2. n \in I /\ I \subseteq Nat
    <3>1. nbytes - (e[n] - e[0]) <= 0
      BY <1>3
    <3> QED BY <2>1, <3>1
  <2> HIDE DEF I
  <2>3. Min(I) \in I
    BY <2>2, MinOfNaturals
  <2>4. PICK k \in 0..n : k = Min(I) /\ k \in I
    BY <2>1, <2>3
  <2>5. e[k] \in Nat /\ e[0] + nbytes <= e[k]
    <3>1. e[k] \in Nat /\ nbytes - (e[k] - e[0]) <= 0
      BY <1>2, <2>1, <2>4
    <3> QED BY <1>3, <3>1
  <2>6. k # 0 /\ k \in 1..n
    <3>1. k # 0
      BY <1>3, <1>5, <2>5
    <3> QED BY <3>1
  <2>7. \A i \in 0..n : i < k => i \notin I
    <3>1. I # {} /\ I \subseteq Nat
      BY <2>2
    <3>2. \A y \in I : Min(I) <= y
      BY <3>1, MinOfNaturals
    <3>3. \A y \in I : k <= y
      BY <2>4, <3>2
    <3> QED BY <3>3
  <2>8. e[k - 1] \in Nat /\ e[k - 1] < e[0] + nbytes
    <3>1. k - 1 \in 0..n /\ k - 1 < k
      BY <2>6
    <3>2. e[k - 1] \in Nat /\ ~(nbytes - (e[k - 1] - e[0]) <= 0)
      BY <1>2, <2>1, <2>7, <3>1
    <3> QED BY <1>3, <3>2
  <2>9. PICK over \in Nat : over = e[k] - (e[0] + nbytes)
    BY <1>3, <2>5
  <2>10. -Vectored!LeftoverAfter(bufs, nbytes, k) = over
    <3>1. Vectored!LeftoverAfter(bufs, nbytes, k) = nbytes - (e[k] - e[0])
      BY <1>1, <1>3, LeftoverIs
    <3> QED BY <1>3, <2>5, <2>9, <3>1
  <2>11. /\ over = 0 => left = SubSeq(bufs, k + 1, n)
         /\ over # 0 => left = <<[from |-> bufs[k].upto - over, upto |-> bufs[k].upto]>> \o SubSeq(bufs, k + 1, n)
    <3>1. Vectored!Min({i \in 0..Len(bufs) : Vectored!LeftoverAfter(bufs, nbytes, i) <= 0}) = k
      BY <1>1, <2>4, VectoredFolds DEF I
    <3>2. -Vectored!LeftoverAfter(bufs, nbytes, Vectored!Min({i \in 0..Len(bufs) : Vectored!LeftoverAfter(bufs, nbytes, i) <= 0})) = over
      BY <2>10, <3>1
    <3>3. left = IF over = 0 THEN SubSeq(bufs, k + 1, Len(bufs))
                 ELSE <<[from |-> bufs[k].upto - over, upto |-> bufs[k].upto]>> \o SubSeq(bufs, k + 1, Len(bufs))
      BY <1>5, <3>1, <3>2, Zenon DEF Vectored!AdjustLeftover
    <3> QED BY <1>1, <3>3
  <2> DEFINE s == SubSeq(bufs, k + 1, n)
             other == [i \in 1..(n - k) |-> [from |-> e[k + i - 1], upto |-> e[k + i]]]
  <2>12. s = other /\ Len(s) = n - k
    <3>1. n \in 0..Len(bufs) /\ k \in 0..n
      BY <1>1
    <3> QED BY <3>1, EdgesPart DEF IsPart
  <2> HIDE DEF left, s
  <2>13. CASE over = 0
    <3> DEFINE f == [i \in 0..(n - k) |-> e[k + i]]
    <3>1. n - k \in Nat /\ \A i \in 0..(n - k) : f[i] \in Nat
      <4>1. \A i \in 0..(n - k) : k + i \in 0..n
        OBVIOUS
      <4> QED BY <1>2, <4>1
    <3>2. \A i \in 1..(n - k) : f[i - 1] <= f[i]
      <4>1. \A i \in 1..(n - k) : k + i \in 1..n /\ i \in 0..(n - k) /\ i - 1 \in 0..(n - k) /\ k + (i - 1) = (k + i) - 1
        OBVIOUS
      <4>2. \A i \in 1..(n - k) : f[i - 1] = e[(k + i) - 1] /\ f[i] = e[k + i]
        BY <4>1
      <4> HIDE DEF f
      <4> QED BY <1>2, <4>1, <4>2
    <3>3. left = [i \in 1..(n - k) |-> [from |-> f[i - 1], upto |-> f[i]]]
      <4>1. \A i \in 1..(n - k) : f[i - 1] = e[k + i - 1] /\ f[i] = e[k + i]
        <5>1. \A i \in 1..(n - k) : i \in 0..(n - k) /\ i - 1 \in 0..(n - k) /\ k + (i - 1) = k + i - 1
          OBVIOUS
        <5> QED BY <5>1
      <4>2. left = s
        BY <2>11, <2>13 DEF s
      <4> HIDE DEF f
      <4> QED BY <2>12, <4>1, <4>2
    <3>4. f[0] = e[0] + nbytes /\ f[n - k] = e[n]
      <4>1. 0 \in 0..(n - k) /\ n - k \in 0..(n - k) /\ k + 0 = k /\ k + (n - k) = n
        OBVIOUS
      <4>2. e[k] = e[0] + nbytes
        BY <1>3, <2>5, <2>9, <2>13
      <4> QED BY <4>1, <4>2
    <3> HIDE DEF f
    <3>5. Edges(left, f) /\ Len(left) = n - k
      <4>1. PICK d \in Nat : d = n - k
        BY <3>1
      <4>2. /\ \A i \in 0..d : f[i] \in Nat
            /\ \A i \in 1..d : f[i - 1] <= f[i]
            /\ left = [i \in 1..d |-> [from |-> f[i - 1], upto |-> f[i]]]
        BY <3>1, <3>2, <3>3, <4>1
      <4>3. Edges(left, f) /\ Len(left) = d
        BY <4>2, EdgesIntro
      <4> QED BY <4>1, <4>3
    <3> QED BY <1>1, <3>4, <3>5 DEF left
  <2>14. CASE over # 0
    <3> DEFINE m == n - k + 1
               f == [i \in 0..m |-> IF i = 0 THEN e[0] + nbytes ELSE e[k - 1 + i]]
               b == [from |-> bufs[k].upto - over, upto |-> bufs[k].upto]
               goal == [i \in 1..m |-> [from |-> f[i - 1], upto |-> f[i]]]
    <3>1. m \in Nat /\ \A i \in 0..m : f[i] \in Nat
      <4>1. \A i \in 0..m : i # 0 => k - 1 + i \in 0..n
        BY <2>6
      <4> QED BY <1>2, <1>3, <4>1
    <3>2. ASSUME NEW i \in 1..m PROVE f[i - 1] <= f[i]
      <4>1. CASE i = 1
        <5>1. f[i - 1] = e[0] + nbytes /\ f[i] = e[k]
          BY <4>1
        <5> QED BY <2>5, <5>1
      <4>2. CASE i # 1
        <5>1. i - 1 \in 0..m /\ i - 1 # 0 /\ k - 1 + i \in 1..n /\ k - 1 + (i - 1) = (k - 1 + i) - 1 /\ i \in 0..m /\ i # 0
          BY <2>6, <4>2
        <5>2. f[i - 1] = e[(k - 1 + i) - 1] /\ f[i] = e[k - 1 + i]
          BY <5>1
        <5> HIDE DEF f
        <5> QED BY <1>2, <5>1, <5>2
      <4> QED BY <4>1, <4>2
    <3>3. b = [from |-> e[0] + nbytes, upto |-> e[k]] /\ left = <<b>> \o s
      <4>1. bufs[k].upto = e[k]
        BY <1>2, <2>6
      <4>2. e[k] - over = e[0] + nbytes
        BY <1>3, <2>5, <2>9
      <4>3. left = <<b>> \o s
        BY <2>11, <2>14 DEF s
      <4> QED BY <4>1, <4>2, <4>3
    <3> HIDE DEF b
    <3>4. left = goal
      <4>1. PICK R : R = [from : Nat, upto : Nat]
        OBVIOUS
      <4>2. s \in Seq(R)
        <5>1. \A i \in 1..(n - k) : k + i - 1 \in 0..n /\ k + i \in 0..n
          OBVIOUS
        <5>2. other \in [1..(n - k) -> R]
          BY <1>2, <4>1, <5>1
        <5> HIDE DEF other
        <5>3. n - k \in Nat
          OBVIOUS
        <5> QED BY <2>12, <5>2, <5>3, SeqDef
      <4>3. <<b>> \in Seq(R) /\ Len(<<b>>) = 1 /\ <<b>>[1] = b
        <5>1. b \in R
          BY <1>3, <2>5, <3>3, <4>1
        <5> QED BY <5>1
      <4>4. /\ left \in Seq(R) /\ Len(left) = 1 + (n - k)
            /\ \A i \in 1..(1 + (n - k)) : left[i] = IF i <= 1 THEN <<b>>[i] ELSE s[i - 1]
        <5>1. /\ <<b>> \o s \in Seq(R) /\ Len(<<b>> \o s) = Len(<<b>>) + Len(s)
              /\ \A i \in 1..(Len(<<b>>) + Len(s)) :
                   (<<b>> \o s)[i] = IF i <= Len(<<b>>) THEN <<b>>[i] ELSE s[i - Len(<<b>>)]
          BY <4>2, <4>3, ConcatProperties
        <5> QED BY <2>12, <3>3, <4>3, <5>1
      <4>5. 1 + (n - k) = m
        OBVIOUS
      <4>6. ASSUME NEW i \in 1..m PROVE left[i] = [from |-> f[i - 1], upto |-> f[i]]
        <5>1. CASE i = 1
          <6>1. f[i - 1] = e[0] + nbytes /\ f[i] = e[k]
            BY <5>1
          <6>2. left[i] = b
            BY <4>3, <4>4, <4>5, <5>1
          <6> HIDE DEF f
          <6> QED BY <3>3, <6>1, <6>2
        <5>2. CASE i # 1
          <6>1. /\ i - 1 \in 1..(n - k) /\ k + (i - 1) - 1 = k - 1 + (i - 1) /\ k + (i - 1) = k - 1 + i /\ ~(i <= 1)
                /\ i \in 0..m /\ i - 1 \in 0..m /\ i # 0 /\ i - 1 # 0 /\ i \in 1..(1 + (n - k))
            BY <5>2
          <6>2. left[i] = s[i - 1]
            BY <4>4, <6>1
          <6>3. s[i - 1] = [from |-> e[k + (i - 1) - 1], upto |-> e[k + (i - 1)]]
            BY <2>12, <6>1
          <6>4. f[i - 1] = e[k - 1 + (i - 1)] /\ f[i] = e[k - 1 + i]
            BY <6>1
          <6> HIDE DEF f, other
          <6> QED BY <6>1, <6>2, <6>3, <6>4
        <5> QED BY <5>1, <5>2
      <4>7. left = [i \in 1..m |-> left[i]]
        <5> HIDE DEF left, f, other
        <5>1. left \in Seq(R) /\ Len(left) = m
          BY <4>4, <4>5
        <5>2. left \in [1..Len(left) -> R]
          BY <5>1, LenProperties
        <5>3. left \in [1..m -> R]
          BY <5>1, <5>2, Zenon
        <5> QED BY <5>3
      <4> HIDE DEF f, other
      <4> QED BY <4>6, <4>7
    <3>5. f[0] = e[0] + nbytes /\ f[m] = e[n]
      <4>1. 0 \in 0..m /\ m \in 0..m /\ m # 0 /\ k - 1 + m = n
        OBVIOUS
      <4> QED BY <4>1
    <3> HIDE DEF f, m
    <3>6. Edges(left, f) /\ Len(left) = m
      BY <3>1, <3>2, <3>4, EdgesIntro
    <3> QED BY <1>1, <3>5, <3>6 DEF left
  <2> QED BY <2>13, <2>14
<1> QED BY <1>4, <1>5

\* The bytes amount by sendmsg() are the next ones of the parts.
LEMMA CountsPart ==
  ASSUME NEW b \in Int, NEW s, Counts(s, b), NEW k \in 0..Len(s)
  PROVE  Counts(SubSeq(s, 1, k), b) /\ Len(SubSeq(s, 1, k)) = k
<1>1. s \in Seq(Int) /\ Len(s) \in Nat /\ \A i \in 1..Len(s) : s[i] = b + i
  BY LenProperties DEF Counts
<1>2. PICK n \in Nat : n = k
  BY <1>1
<1>3. \A i \in 1..n : s[i] \in Int
  BY <1>1, <1>2
<1> DEFINE t == SubSeq(s, 1, n)
<1>4. t \in Seq(Int) /\ Len(t) = (IF 1 <= n THEN n - 1 + 1 ELSE 0) /\ \A i \in 1..(n - 1 + 1) : t[i] = s[1 + i - 1]
  BY <1>3, SubSeqProperties
<1> HIDE DEF t
<1>5. Len(t) = n
  BY <1>4
<1>6. ASSUME NEW i \in 1..n PROVE t[i] = b + i
  <2>1. i \in 1..(n - 1 + 1) /\ 1 + i - 1 = i /\ i \in 1..Len(s)
    BY <1>1, <1>2
  <2> QED BY <1>1, <1>4, <2>1
<1> QED BY <1>2, <1>4, <1>5, <1>6 DEF t, Counts

LEMMA VectoredInit == Vectored!Init => VectoredInv
<1> SUFFICES ASSUME Vectored!Init PROVE VectoredInv
  OBVIOUS
<1>1. PICK n \in 0..MaxParts : parts \in [1..n -> Lengths]
  BY DEF Vectored!Init
<1>2. n \in Nat /\ parts \in [1..n -> Nat]
  <2>1. Lengths \subseteq Nat /\ MaxParts \in Nat
    BY VectoredAssumption DEF Vectored!VectoredParameters
  <2>2. n \in Nat /\ parts = [i \in 1..n |-> parts[i]] /\ \A i \in 1..n : parts[i] \in Lengths
    BY <1>1, <2>1
  <2>3. \A i \in 1..n : parts[i] \in Nat
    BY <2>1, <2>2
  <2> QED BY <2>2, <2>3
<1>3. parts \in Seq(Nat)
  BY <1>2, SeqDef
<1>4. wire = <<>> /\ buffers = Vectored!Whole(parts) /\ call = "idle"
  BY DEF Vectored!Init
<1>5. Counts(wire, -1) /\ Len(wire) = 0
  <2>1. <<>> \in Seq(Int) /\ Len(<<>>) = 0
    BY EmptySeq
  <2>2. Counts(<<>>, -1)
    BY <2>1 DEF Counts
  <2> QED BY <1>4, <2>1, <2>2
<1>6. Vectored!SumOf(parts) \in Nat
  BY <1>3, WholeEdges
<1>7. \E e : Edges(buffers, e) /\ e[0] = Len(wire) /\ e[Len(buffers)] = Vectored!SumOf(parts)
  BY <1>3, <1>4, <1>5, WholeEdges
<1> QED BY <1>4, <1>5, <1>6, <1>7 DEF VectoredInv

LEMMA VectoredSends ==
  ASSUME VectoredInv, Vectored!SendMsg
  PROVE  VectoredInv'
<1> DEFINE data == Vectored!BytesOf(Vectored!Slice)
<1>1. PICK amount \in (IF data = <<>> THEN {0} ELSE 1..Len(data)) :
        /\ wire' = wire \o SubSeq(data, 1, amount)
        /\ buffers' = Vectored!AdjustLeftover(buffers, amount)
        /\ call' = IF buffers' = <<>> THEN "sent" ELSE "sending"
  BY DEF Vectored!SendMsg
<1>2. parts' = parts
  BY DEF Vectored!SendMsg
<1>3. PICK e : Edges(buffers, e) /\ e[0] = Len(wire) /\ e[Len(buffers)] = Vectored!SumOf(parts)
  BY DEF VectoredInv
<1>4. PICK n \in Nat : n = Len(buffers)
  BY <1>3 DEF Edges
<1>5. /\ \A i \in 0..n : e[i] \in Nat
      /\ \A i \in 1..n : e[i - 1] <= e[i]
  BY <1>3, <1>4 DEF Edges
<1>6. PICK m \in 0..n : Vectored!Slice = SubSeq(buffers, 1, m)
  <2>1. (IF n < SC_IOV_MAX THEN n ELSE SC_IOV_MAX) \in 0..n
    BY VectoredAssumption DEF Vectored!VectoredParameters
  <2> QED BY <1>4, <2>1 DEF Vectored!Slice
<1>7. Edges(Vectored!Slice, e) /\ Len(Vectored!Slice) = m
  <2>0. PICK z \in 0..m : z = 0
    OBVIOUS
  <2>1. SubSeq(buffers, z + 1, m) = [i \in 1..(m - z) |-> [from |-> e[z + i - 1], upto |-> e[z + i]]]
    <3>1. m \in 0..Len(buffers)
      BY <1>4
    <3>2. IsPart(SubSeq(buffers, z + 1, m), e, z, m)
      BY <1>3, <3>1, EdgesPart, Zenon
    <3> QED BY <3>2 DEF IsPart
  <2> DEFINE s == SubSeq(buffers, 1, m)
  <2>2. s = SubSeq(buffers, z + 1, m)
    BY <2>0
  <2> HIDE DEF s
  <2>3. s = [i \in 1..m |-> [from |-> e[i - 1], upto |-> e[i]]]
    <3>1. m - z = m /\ \A i \in 1..m : z + i - 1 = i - 1 /\ z + i = i
      BY <2>0
    <3> QED BY <2>1, <2>2, <3>1
  <2>4. \A i \in 0..m : e[i] \in Nat
    BY <1>5
  <2>5. \A i \in 1..m : e[i - 1] <= e[i]
    BY <1>5
  <2>6. Edges(s, e) /\ Len(s) = m
    <3>1. m \in Nat
      OBVIOUS
    <3> QED BY <2>3, <2>4, <2>5, <3>1, EdgesIntro, Zenon
  <2> QED BY <1>6, <2>6 DEF s
<1>8. Counts(data, e[0] - 1) /\ Len(data) = e[m] - e[0] /\ e[0] \in Nat /\ e[m] \in Nat /\ e[n] \in Nat
  <2>1. Counts(data, e[0] - 1) /\ Len(data) = e[m] - e[0]
    BY <1>7, EdgesBytes
  <2>2. e[0] \in Nat /\ e[m] \in Nat /\ e[n] \in Nat
    BY <1>5
  <2> QED BY <2>1, <2>2
<1>9. Len(data) \in Nat /\ (data = <<>> => Len(data) = 0)
  <2>1. data \in Seq(Int) /\ Len(<<>>) = 0
    BY <1>8 DEF Counts
  <2> HIDE DEF data
  <2> QED BY <2>1, LenProperties
<1> HIDE DEF data
<1>10. amount \in 0..Len(data)
  BY <1>1, <1>9
<1>11. e[m] <= e[n]
  <2> DEFINE P == {i \in 0..(n - m) : e[m] <= e[m + i]}
  <2>1. 0 \in P
    <3>1. m + 0 = m /\ 0 \in 0..(n - m)
      OBVIOUS
    <3> QED BY <1>8, <3>1
  <2>2. ASSUME NEW i \in 0..((n - m) - 1), i \in P PROVE i + 1 \in P
    <3>1. i + 1 \in 0..(n - m) /\ m + (i + 1) \in 1..n /\ (m + (i + 1)) - 1 = m + i /\ m + i \in 0..n /\ m + (i + 1) \in 0..n
      OBVIOUS
    <3>2. e[m] <= e[m + i]
      BY <2>2
    <3>3. e[m + i] <= e[m + (i + 1)]
      BY <1>5, <3>1
    <3>4. e[m + i] \in Nat /\ e[m + (i + 1)] \in Nat
      BY <1>5, <3>1
    <3>5. e[m] <= e[m + (i + 1)]
      BY <1>8, <3>2, <3>3, <3>4
    <3> QED BY <3>1, <3>5
  <2> HIDE DEF P
  <2>3. PICK d \in Nat : d = n - m
    OBVIOUS
  <2>4. \A i \in 0..d : i \in P
    BY <2>1, <2>2, <2>3, InductiveUpto
  <2>5. d \in P /\ m + d = n
    BY <2>3, <2>4
  <2> QED BY <2>5 DEF P
<1>12. amount \in Nat /\ amount <= e[m] - e[0] /\ amount \in 0..(e[n] - e[0])
  BY <1>8, <1>10, <1>11
<1>13. PICK f : /\ Edges(buffers', f) /\ f[0] = e[0] + amount
                /\ f[Len(buffers')] = e[Len(buffers)]
  <2>1. amount \in 0..(e[Len(buffers)] - e[0])
    BY <1>4, <1>12
  <2> DEFINE left == Vectored!AdjustLeftover(buffers, amount)
  <2>2. \E f : Edges(left, f) /\ f[0] = e[0] + amount /\ f[Len(left)] = e[Len(buffers)]
    BY <1>3, <2>1, AdjustedEdges
  <2>3. buffers' = left
    BY <1>1
  <2> HIDE DEF left
  <2> QED BY <2>2, <2>3
<1> DEFINE t == SubSeq(data, 1, amount)
<1>14. Counts(t, e[0] - 1) /\ Len(t) = amount
  <2>1. e[0] - 1 \in Int
    BY <1>8
  <2> QED BY <1>8, <1>10, <2>1, CountsPart
<1>15. wire' = wire \o t
  BY <1>1
<1> HIDE DEF t
<1>16. Counts(wire', -1) /\ Len(wire') = e[0] + amount
  <2>1. Counts(wire, -1)
    BY DEF VectoredInv
  <2>2. -1 + Len(wire) = e[0] - 1
    BY <1>3, <1>8
  <2>3. Counts(wire \o t, -1) /\ Len(wire \o t) = Len(wire) + Len(t)
    BY <1>14, <2>1, <2>2, CountsConcat
  <2> QED BY <1>3, <1>14, <1>15, <2>3
<1>17. call' = "sent" => buffers' = <<>>
  BY <1>1
<1>18. \E g : Edges(buffers', g) /\ g[0] = Len(wire') /\ g[Len(buffers')] = Vectored!SumOf(parts)
  BY <1>3, <1>13, <1>16
<1>19. Vectored!SumOf(parts) \in Nat
  BY DEF VectoredInv
<1> QED BY <1>2, <1>16, <1>17, <1>18, <1>19 DEF VectoredInv

LEMMA VectoredStep == VectoredInv /\ [Vectored!Next]_vectoredVars => VectoredInv'
<1> SUFFICES ASSUME VectoredInv, [Vectored!Next]_vectoredVars PROVE VectoredInv'
  OBVIOUS
<1>1. CASE Vectored!SendMsg
  BY <1>1, VectoredSends
<1>2. ASSUME UNCHANGED <<parts, buffers, wire>>, call' # "sent" \/ call' = call PROVE VectoredInv'
  <2>1. call' = "sent" => buffers' = <<>>
    BY <1>2 DEF VectoredInv
  <2>2. parts' = parts /\ buffers' = buffers /\ wire' = wire
    BY <1>2
  <2> QED BY <2>1, <2>2 DEF VectoredInv
<1>3. CASE Vectored!Begin
  BY <1>2, <1>3 DEF Vectored!Begin
<1>4. CASE Vectored!WouldBlock
  BY <1>2, <1>4 DEF Vectored!WouldBlock
<1>5. CASE Vectored!Writable
  BY <1>2, <1>5 DEF Vectored!Writable
<1>6. CASE Vectored!Fail
  BY <1>2, <1>6 DEF Vectored!Fail
<1>7. CASE UNCHANGED vectoredVars
  BY <1>2, <1>7 DEF vectoredVars
<1> QED BY <1>1, <1>3, <1>4, <1>5, <1>6, <1>7 DEF Vectored!Next

LEMMA VectoredIntact == VectoredInv => Vectored!PartsIntact
<1> SUFFICES ASSUME VectoredInv PROVE Vectored!PartsIntact
  OBVIOUS
<1>1. PICK e : Edges(buffers, e) /\ e[0] = Len(wire) /\ e[Len(buffers)] = Vectored!SumOf(parts)
  BY DEF VectoredInv
<1>2. PICK total \in Nat : total = Vectored!SumOf(parts)
  BY DEF VectoredInv
<1> DEFINE data == Vectored!BytesOf(buffers)
           all == wire \o data
<1>3. Counts(data, e[0] - 1) /\ Len(data) = total - e[0] /\ e[0] \in Nat
  BY <1>1, <1>2, EdgesBytes
<1> HIDE DEF data
<1>4. Counts(all, -1) /\ Len(all) = Len(wire) + Len(data)
  <2>1. Counts(wire, -1)
    BY DEF VectoredInv
  <2>2. -1 + Len(wire) = e[0] - 1
    BY <1>1, <1>3
  <2> QED BY <1>3, <2>1, <2>2, CountsConcat
<1>5. Len(all) = total
  BY <1>1, <1>3, <1>4
<1> HIDE DEF all
<1>6. all = [i \in 1..total |-> i - 1]
  <2>1. all \in Seq(Int) /\ \A i \in 1..total : all[i] = i - 1
    <3>1. all \in Seq(Int) /\ \A i \in 1..total : all[i] = -1 + i
      BY <1>4, <1>5 DEF Counts
    <3> QED BY <3>1
  <2>2. all = [i \in 1..total |-> all[i]]
    <3>1. all \in [1..Len(all) -> Int]
      BY <2>1, LenProperties
    <3> QED BY <1>5, <3>1
  <2> QED BY <2>1, <2>2
<1>7. call = "sent" => Len(wire) = total
  <2>1. call = "sent" => Len(buffers) = 0
    BY DEF VectoredInv
  <2> QED BY <1>1, <1>2, <2>1
<1> QED BY <1>2, <1>6, <1>7 DEF Vectored!PartsIntact, all, data

-----------------------------------------------------------------------------
(* The transports together *)

\* Only one part moves, and what the others keep does not depend on which.
TransportsInv == ReaderInv /\ LentInv /\ WritingInv /\ TLSInv /\ RawInv /\ EndpointInv /\ VectoredInv

LEMMA TransportsStart == TransportsInit => TransportsInv
BY ReaderInit, LentInit, WritingInit, TLSInit, RawInit, EndpointInit, VectoredInit, TLSAssumption
   DEF TransportsInit, TransportsInv

\* A step of the whole is, for each part, one of its steps or none.
LEMMA PartsStep ==
  [TransportsNext]_<<part, vars, writingVars, tlsVars, rawVars, endpointVars, vectoredVars>> =>
    /\ [Next]_vars /\ [Writing!Next]_writingVars /\ [TLS!Next]_tlsVars /\ [Raw!Next]_rawVars
    /\ [Endpoint!Next]_endpointVars /\ [Vectored!Next]_vectoredVars
BY DEF TransportsNext

LEMMA TransportsStep ==
  TransportsInv /\ [TransportsNext]_<<part, vars, writingVars, tlsVars, rawVars, endpointVars, vectoredVars>> =>
    TransportsInv'
BY PartsStep, ReaderStep, LentStep, WritingStep, TLSStep, RawStep, EndpointStep, VectoredStep DEF TransportsInv

LEMMA TransportsInvariant == TransportsSpec => []TransportsInv
BY TransportsStart, TransportsStep, PTL DEF TransportsSpec

\* The state of each transport has its types, and its futures and its queues follow its
\* tasks: a future is set only for a task that waits, a flag only while it is true.
THEOREM TypesOfTransports == TransportsSpec => []TransportsTypeOK
<1>1. TransportsInv => TransportsTypeOK
  BY TLSIsSafe, RawIsTyped, EndpointInOrder DEF TransportsInv, ReaderInv, WritingInv, TransportsTypeOK
<1> QED BY <1>1, TransportsInvariant, PTL

\* No wake-up is lost: a reader waits only for a protocol that reads and has nothing for
\* it, the transport always has room in the buffer it is given, and a sender waits only
\* while the flow is paused.
THEOREM WaitersAreWoken == TransportsSpec => []NobodyIsForgotten
<1>1. TransportsInv => NobodyIsForgotten
  BY WritersAreAnswered DEF TransportsInv, ReaderInv, NobodyIsForgotten
<1> QED BY <1>1, TransportsInvariant, PTL

\* The bytes of a stream reach receive_data() and receive_data_into() in order, without a
\* gap but for those of a cancelled call, and an end of stream is told when all were
\* delivered; the datagrams and the errors of an endpoint, kept in two queues, reach
\* recvfrom() once each in the order they came, and its assertion never fails.
THEOREM StreamsAndDatagramsInOrder == TransportsSpec => []ReceivedInOrder
<1>1. TransportsInv => ReceivedInOrder
  BY ReaderGetsTheStream, EndpointInOrder DEF TransportsInv, ReceivedInOrder
<1> QED BY <1>1, TransportsInvariant, PTL

\* A socket of the event loop is closed only after it was taken out of the selector,
\* whatever aclose(), the calls that wait and their cancellations do meanwhile.
THEOREM ClosedSocketsAreUnwatched == TransportsSpec => []NoneWatchedClosed
<1>1. TransportsInv => NoneWatchedClosed
  BY DEF TransportsInv, RawInv, NoneWatchedClosed
<1> QED BY <1>1, TransportsInvariant, PTL

\* send_all(), the send of the TLS transport and the one of a packet in several parts
\* return without an error only when the socket took what they were given, the parts in
\* order and once, wherever sendmsg() cuts them.
THEOREM SendersAreSure == TransportsSpec => []SentIsFlushed
<1>1. TransportsInv => SentIsFlushed
  BY WritersAreAnswered, TLSIsSafe, VectoredIntact DEF TransportsInv, SentIsFlushed
<1> QED BY <1>1, TransportsInvariant, PTL

\* A byte is dropped only with a receive_data_into() that was cancelled, the one whose
\* buffer it was written in: receive_data() loses none.
THEOREM OnlyCancelledReadsLose == TransportsSpec => OnlyCancelledIntoLoses
<1>1. TransportsInv /\ [TransportsNext]_<<part, vars, writingVars, tlsVars, rawVars, endpointVars, vectoredVars>> =>
        [dropped' # dropped => cancelling /\ request.into]_vars
  BY PartsStep, LentStep DEF TransportsInv
<1> QED BY <1>1, TransportsInvariant, PTL DEF TransportsSpec, OnlyCancelledIntoLoses
=============================================================================
