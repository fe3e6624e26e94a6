---------------------------- MODULE Reception_proofs ----------------------------
(***************************************************************************)
(* Proofs about the reception: of the task of a client of a stream server, *)
(* for any number of packets and any set of tasks that use the client      *)
(* object; of the consumers with the parser of a separator, for any        *)
(* stream, any limit and any separator of two bytes; with the parsers of   *)
(* packets of known sizes, and with the parser of JSON documents, for any  *)
(* stream and any limit.                                                   *)
(***************************************************************************)
EXTENDS MCReception, SequenceLemmas, TLAPS

-----------------------------------------------------------------------------
(* The bytes of a stream *)

\* The bytes that follow the first n ones.
Following(s, n) == s \in Seq(Nat) /\ \A i \in 1..Len(s) : s[i] = n + i

LEMMA FollowingProperties ==
  ASSUME NEW n \in Nat
  PROVE  /\ Following(<<>>, n)
         /\ \A k \in Nat : Following([i \in 1..k |-> n + i], n) /\ Len([i \in 1..k |-> n + i]) = k
         /\ \A s : Following(s, n) => Len(s) \in Nat
         /\ \A s, t : Following(s, n) /\ Following(t, n + Len(s)) =>
              Following(s \o t, n) /\ Len(s \o t) = Len(s) + Len(t)
         /\ \A s : Following(s, n) /\ Len(s) >= 2 =>
              /\ Following(SubSeq(s, 3, Len(s)), n + 2) /\ Len(SubSeq(s, 3, Len(s))) = Len(s) - 2
              /\ SubSeq(s, 1, 2) = <<n + 1, n + 2>>
<1>1. Following(<<>>, n)
  BY EmptySeq DEF Following
<1>2. ASSUME NEW k \in Nat PROVE Following([i \in 1..k |-> n + i], n) /\ Len([i \in 1..k |-> n + i]) = k
  <2> DEFINE s == [i \in 1..k |-> n + i]
  <2>1. s \in [1..k -> Nat] /\ \A i \in 1..k : s[i] = n + i
    OBVIOUS
  <2> HIDE DEF s
  <2>2. s \in Seq(Nat) /\ Len(s) = k
    BY <2>1, SeqDef, LenProperties
  <2> QED BY <2>1, <2>2 DEF Following, s
<1>3. \A s : Following(s, n) => Len(s) \in Nat
  BY LenProperties DEF Following
<1>4. ASSUME NEW s, NEW t, Following(s, n), Following(t, n + Len(s))
      PROVE  Following(s \o t, n) /\ Len(s \o t) = Len(s) + Len(t)
  <2>1. s \in Seq(Nat) /\ t \in Seq(Nat) /\ Len(s) \in Nat /\ Len(t) \in Nat
    BY <1>4, LenProperties DEF Following
  <2>2. /\ s \o t \in Seq(Nat) /\ Len(s \o t) = Len(s) + Len(t)
        /\ \A i \in 1..(Len(s) + Len(t)) : (s \o t)[i] = IF i <= Len(s) THEN s[i] ELSE t[i - Len(s)]
    BY <2>1, ConcatProperties
  <2>3. ASSUME NEW i \in 1..(Len(s) + Len(t)) PROVE (s \o t)[i] = n + i
    <3>1. CASE i <= Len(s)
      BY <1>4, <2>1, <2>2, <3>1 DEF Following
    <3>2. CASE ~(i <= Len(s))
      <4>1. i - Len(s) \in 1..Len(t)
        BY <2>1, <3>2
      <4>2. t[i - Len(s)] = (n + Len(s)) + (i - Len(s))
        BY <1>4, <4>1 DEF Following
      <4> QED BY <2>1, <2>2, <3>2, <4>2
    <3> QED BY <3>1, <3>2
  <2> QED BY <2>2, <2>3 DEF Following
<1>5. ASSUME NEW s, Following(s, n), Len(s) >= 2
      PROVE  /\ Following(SubSeq(s, 3, Len(s)), n + 2) /\ Len(SubSeq(s, 3, Len(s))) = Len(s) - 2
             /\ SubSeq(s, 1, 2) = <<n + 1, n + 2>>
  <2>1. s \in Seq(Nat) /\ Len(s) \in Nat /\ \A i \in 1..Len(s) : s[i] = n + i
    BY <1>5, LenProperties DEF Following
  <2>2. /\ SubSeq(s, 3, Len(s)) \in Seq(Nat) /\ Len(SubSeq(s, 3, Len(s))) = Len(s) - 2
        /\ \A i \in 1..(Len(s) - 2) : SubSeq(s, 3, Len(s))[i] = s[i + 2]
    <3>1. 3 \in 1..(Len(s) + 1) /\ Len(s) \in (3 - 1)..Len(s) /\ (Len(s) - 3) + 1 = Len(s) - 2
      BY <1>5, <2>1
    <3>2. /\ SubSeq(s, 3, Len(s)) \in Seq(Nat) /\ Len(SubSeq(s, 3, Len(s))) = Len(s) - 3 + 1
          /\ \A i \in 1..(Len(s) - 3 + 1) : SubSeq(s, 3, Len(s))[i] = s[3 + i - 1]
      BY <2>1, <3>1, SubSeqProperties
    <3>3. \A i \in 1..(Len(s) - 2) : 3 + i - 1 = i + 2
      BY <2>1
    <3> QED BY <3>1, <3>2, <3>3
  <2>3. \A i \in 1..(Len(s) - 2) : SubSeq(s, 3, Len(s))[i] = (n + 2) + i
    <3> TAKE i \in 1..(Len(s) - 2)
    <3>1. i + 2 \in 1..Len(s)
      BY <2>1
    <3> QED BY <2>1, <2>2, <3>1
  <2>4. SubSeq(s, 1, 2) = <<n + 1, n + 2>>
    <3>1. s[1] = n + 1 /\ s[2] = n + 2
      BY <1>5, <2>1
    <3> DEFINE r == SubSeq(s, 1, 2)
    <3>2. 1 \in 1..(Len(s) + 1) /\ 2 \in (1 - 1)..Len(s) /\ 2 - 1 + 1 = 2
      BY <1>5, <2>1
    <3>3. r \in Seq(Nat) /\ Len(r) = 2 - 1 + 1 /\ \A i \in 1..(2 - 1 + 1) : r[i] = s[1 + i - 1]
      BY <2>1, <3>2, SubSeqProperties
    <3>4. r \in Seq(Nat) /\ Len(r) = 2 /\ r[1] = s[1] /\ r[2] = s[2]
      BY <3>3
    <3> HIDE DEF r
    <3>5. r = <<n + 1, n + 2>>
      BY <3>1, <3>4, SeqEqual
    <3> QED BY <3>5 DEF r
  <2> QED BY <2>2, <2>3, <2>4 DEF Following
<1> QED BY <1>1, <1>2, <1>3, <1>4, <1>5

\* What RemoveFirst leaves in front.
LEMMA RemoveFirstBehind ==
  ASSUME NEW S, NEW q \in Seq(S), q # <<>>, NEW e, Head(q) # e
  PROVE  RemoveFirst(q, e) # <<>> /\ Head(RemoveFirst(q, e)) = Head(q)
<1>0. Len(q) \in Nat \ {0} /\ Head(q) = q[1] /\ DOMAIN q = 1..Len(q)
  BY EmptySeq, LenProperties
<1>1. CASE e \in ToSet(q)
  <2> DEFINE s == RemoveFirst(q, e)
  <2>1. s \in Seq(S) /\ Len(s) = Len(q) - 1
    BY <1>1, RemoveFirstPlaces
  <2>2. PICK m \in 1..Len(q) : q[m] = e /\ \A i \in 1..(Len(q) - 1) : s[i] = IF i < m THEN q[i] ELSE q[i + 1]
    BY <1>1, RemoveFirstPlaces
  <2> HIDE DEF s
  <2>3. 1 < m /\ 1 \in 1..(Len(q) - 1)
    BY <1>0, <2>2
  <2>4. s[1] = q[1] /\ Len(s) # 0
    BY <2>1, <2>2, <2>3
  <2>5. s # <<>> /\ Head(s) = s[1]
    BY <2>1, <2>4, EmptySeq
  <2> QED BY <1>0, <2>4, <2>5 DEF s
<1>2. CASE e \notin ToSet(q)
  <2>1. \A i \in 1..Len(q) : q[i] # e
    BY <1>0, <1>2 DEF ToSet
  <2>2. RemoveFirst(q, e) = q
    BY <2>1 DEF RemoveFirst
  <2> QED BY <2>2
<1> QED BY <1>1, <1>2

-----------------------------------------------------------------------------
(* The inductive invariant *)

Task == Server!Task
Asked == [task : Others \cup {Task}, call : {"send", "close", "disconnect"}]
Reading == {"user", "recv", "yield"}
Leaving == {"leaving", "closing", "done"}

ServerTypes ==
  /\ into \in BOOLEAN /\ ending \in {"open", "eof", "lost"} /\ arrived \in 0..(2 * Packets)
  /\ pc \in Reading \cup {"hook"} \cup Leaving
  /\ stage \in {"connecting", "first", "handling"} /\ graceful \in BOOLEAN
  /\ params \in [timeout : BOOLEAN, ancillary : BOOLEAN]
  /\ hook \in {"none", "connected", "disconnected"} /\ cancelled \in {"no", "pending", "thrown"}
  /\ transport \in {"open", "closed"} /\ closing \in BOOLEAN /\ inside \in BOOLEAN
  /\ sendq \in Seq(Asked)

\* The bytes that the transport and the consumer keep arrived, and a packet that is given
\* after a yield is there.
BytesKept ==
  /\ inbox \in Seq(Nat) /\ lent \in Seq(Nat) /\ consumer \in Seq(Nat)
  /\ Len(inbox) + Len(lent) + Len(consumer) <= arrived /\ Len(lent) <= 2
  /\ pc = "yield" => Server!HasPacket(consumer)

\* The bytes given to the handler, those of the consumer and those of the transport follow
\* each other, up to the last one that arrived, when they are not written in a buffer of
\* the consumer.
BytesFollow ==
  /\ lent = <<>> /\ Len(seen) \in Nat
  /\ Following(consumer, 2 * Len(seen)) /\ Following(inbox, 2 * Len(seen) + Len(consumer))
  /\ 2 * Len(seen) + Len(consumer) + Len(inbox) = arrived
  /\ Server!InOrder
RequestsInv == seen \in Seq(Seq(Nat)) /\ (~into => BytesFollow)

\* Where the task is says whether its hook was pushed and whether it was called.
HookInv ==
  /\ pc \in Reading => hook = IF stage = "connecting" THEN "none" ELSE "connected"
  /\ pc = "hook" => hook = "connected"
  /\ pc \in Leaving => hook \in {"none", "disconnected"} /\ (stage # "connecting" => hook = "disconnected")

\* The client object refuses to send before the task waits for the lock, and it has the
\* lock, hence nobody is sending, when it goes on, unless it was cancelled.
ReleaseInv ==
  /\ pc \in Leaving => closing
  /\ pc = "done" => transport = "closed"
  /\ inside => sendq # <<>> /\ Head(sendq).task \in Others
  /\ pc \in {"closing", "done"} /\ inside /\ Head(sendq).call = "send" => cancelled = "thrown"

ServerInv == ServerTypes /\ BytesKept /\ RequestsInv /\ HookInv /\ ReleaseInv

LEMMA ServerInit == Server!Init => ServerInv
<1> SUFFICES ASSUME Server!Init PROVE ServerInv
  OBVIOUS
<1> USE DEF Server!Init
<1>1. Packets \in Nat /\ 0 \in 0..(2 * Packets)
  BY ServerAssumption DEF Server!ServerParameters
<1>2. <<>> \in Seq(Nat) /\ <<>> \in Seq(Asked) /\ <<>> \in Seq(Seq(Nat)) /\ Len(<<>>) = 0
  BY EmptySeq
<1>3. ServerTypes
  BY <1>1, <1>2, Zenon DEF ServerTypes, Server!NoParams, Reading
<1>4. BytesKept
  BY <1>2 DEF BytesKept
<1>5. RequestsInv
  <2>1. 0 \in Nat /\ 2 * 0 = 0 /\ 0 + 0 = 0
    OBVIOUS
  <2>2. Following(<<>>, 0)
    BY <2>1, FollowingProperties
  <2>3. \A i \in 1..0 : FALSE
    OBVIOUS
  <2> QED BY <1>2, <2>1, <2>2, <2>3 DEF RequestsInv, BytesFollow, Server!InOrder
<1>6. HookInv /\ ReleaseInv
  BY DEF HookInv, ReleaseInv, Reading, Leaving
<1> QED BY <1>3, <1>4, <1>5, <1>6 DEF ServerInv

-----------------------------------------------------------------------------
(* The queue of the send lock *)

LEMMA ServerOperators ==
  /\ \A q, x : Server!RemoveFirst(q, x) = RemoveFirst(q, x)
  /\ \A q \in Seq(Asked), x \in Asked : Server!Contains(q, x) => q # <<>>
<1>1. \A q, x : Server!RemoveFirst(q, x) = RemoveFirst(q, x)
  BY DEF Server!RemoveFirst, RemoveFirst, Server!RemoveAt, RemoveAt, Server!SelectInSeq, SelectInSeq, Server!Min, Min
<1>2. ASSUME NEW q \in Seq(Asked), NEW x \in Asked, Server!Contains(q, x) PROVE q # <<>>
  BY <1>2 DEF Server!Contains
<1> QED BY <1>1, <1>2

\* What an entry that goes, or comes, does to a send that is under way.
LEMMA EntryGoes ==
  ASSUME ServerTypes, NEW e \in Asked, sendq' = Server!RemoveFirst(sendq, e)
  PROVE  /\ sendq' \in Seq(Asked)
         /\ sendq # <<>> /\ Head(sendq) # e => sendq' # <<>> /\ Head(sendq') = Head(sendq)
<1>1. sendq \in Seq(Asked) /\ sendq' = RemoveFirst(sendq, e)
  BY ServerOperators DEF ServerTypes
<1> QED BY <1>1, RemoveFirstType, RemoveFirstBehind

LEMMA EntryComes ==
  ASSUME ServerTypes, NEW e \in Asked, sendq' = Append(sendq, e)
  PROVE  sendq' \in Seq(Asked) /\ sendq' # <<>> /\ (sendq # <<>> => Head(sendq') = Head(sendq))
<1>1. sendq \in Seq(Asked) /\ Len(sendq) \in Nat
  BY LenProperties DEF ServerTypes
<1>2. /\ sendq' \in Seq(Asked) /\ Len(sendq') = Len(sendq) + 1
      /\ \A i \in 1..Len(sendq) : sendq'[i] = sendq[i]
  BY <1>1, AppendProperties
<1>3. sendq' # <<>>
  BY <1>1, <1>2, EmptySeq
<1>4. sendq # <<>> => 1 \in 1..Len(sendq) /\ Head(sendq) = sendq[1] /\ Head(sendq') = sendq'[1]
  BY <1>1, <1>3, EmptySeq
<1> QED BY <1>2, <1>3, <1>4

LEMMA TaskIsNoOther ==
  Task \notin Others /\ Server!Disconnecting \in Asked /\ Server!Disconnecting.task = Task
BY ServerAssumption DEF Server!ServerParameters, Server!Disconnecting, Asked, Task

-----------------------------------------------------------------------------
(* The steps that leave the bytes alone *)

LEMMA BytesFrame ==
  ASSUME BytesKept, RequestsInv, UNCHANGED <<into, arrived, inbox, lent, consumer, seen>>,
         pc' = "yield" => pc = "yield" \/ Server!HasPacket(consumer)
  PROVE  BytesKept' /\ RequestsInv'
BY DEF BytesKept, RequestsInv, BytesFollow, Server!InOrder, Following, Server!HasPacket

\* The task begins to wait for the lock, or the hook is called first.
LEMMA LeavesWithHook ==
  ASSUME ServerInv, NEW how \in BOOLEAN, NEW connected \in {"none", "connected"}, Server!Leave(how, connected),
         pc \in Reading, hook = "connected" => connected = "connected", stage' = stage,
         stage # "connecting" => connected = "connected",
         UNCHANGED <<into, arrived, ending, inbox, lent, consumer, seen, params, cancelled, transport, inside>>
  PROVE  ServerInv'
<1>1. ServerTypes /\ BytesKept /\ RequestsInv /\ HookInv /\ ReleaseInv
  BY DEF ServerInv
<1>2. CASE connected = "connected"
  <2>1. pc' = "hook" /\ hook' = "connected" /\ graceful' = how /\ UNCHANGED <<closing, sendq>>
    BY <1>2 DEF Server!Leave, Server!HookIsDue
  <2>2. ServerTypes'
    BY <1>1, <2>1, ZenonT(40) DEF ServerTypes
  <2>3. BytesKept' /\ RequestsInv'
    BY <1>1, <2>1, BytesFrame
  <2>4. HookInv' /\ ReleaseInv'
    BY <1>1, <2>1 DEF HookInv, ReleaseInv, Reading, Leaving
  <2> QED BY <2>2, <2>3, <2>4 DEF ServerInv
<1>3. CASE connected = "none"
  <2>1. /\ pc' = "leaving" /\ hook' = "none" /\ graceful' = how /\ closing' = TRUE
        /\ sendq' = Append(sendq, Server!Disconnecting)
    BY <1>3 DEF Server!Leave, Server!HookIsDue, Server!Disconnect
  <2>2. sendq' \in Seq(Asked) /\ sendq' # <<>> /\ (sendq # <<>> => Head(sendq') = Head(sendq))
    BY <1>1, <2>1, TaskIsNoOther, EntryComes
  <2>3. ServerTypes'
    BY <1>1, <2>1, <2>2, Zenon DEF ServerTypes, Leaving
  <2>4. BytesKept' /\ RequestsInv'
    BY <1>1, <2>1, BytesFrame
  <2>5. HookInv' /\ ReleaseInv'
    BY <1>1, <1>3, <2>1, <2>2 DEF HookInv, ReleaseInv, Reading, Leaving
  <2> QED BY <2>3, <2>4, <2>5 DEF ServerInv
<1> QED BY <1>2, <1>3

\* The hook was called, or its call was cancelled.
LEMMA LeavesAfterHook ==
  ASSUME ServerInv, pc = "hook", hook' = "disconnected", Server!Disconnect, cancelled' \in {"no", "pending", "thrown"},
         cancelled = "thrown" => cancelled' = "thrown", lent' = <<>> \/ lent' = lent,
         UNCHANGED <<into, arrived, ending, inbox, consumer, seen, stage, params, graceful, transport, inside>>,
         BytesKept', RequestsInv'
  PROVE  ServerInv'
<1>1. ServerTypes /\ HookInv /\ ReleaseInv
  BY DEF ServerInv
<1>2. pc' = "leaving" /\ closing' = TRUE /\ sendq' = Append(sendq, Server!Disconnecting)
  BY DEF Server!Disconnect
<1>3. sendq' \in Seq(Asked) /\ sendq' # <<>> /\ (sendq # <<>> => Head(sendq') = Head(sendq))
  BY <1>1, <1>2, TaskIsNoOther, EntryComes
<1>4. ServerTypes'
  BY <1>1, <1>2, <1>3, Zenon DEF ServerTypes, Leaving
<1>5. HookInv' /\ ReleaseInv'
  BY <1>1, <1>2, <1>3 DEF HookInv, ReleaseInv, Reading, Leaving
<1> QED BY <1>4, <1>5 DEF ServerInv

\* What was written in a lent buffer is lost with the call.
LEMMA BytesDropped ==
  ASSUME BytesKept, RequestsInv, ServerTypes, lent' = <<>>, UNCHANGED <<into, arrived, inbox, consumer, seen>>,
         pc' = "yield" => pc = "yield"
  PROVE  BytesKept' /\ RequestsInv'
<1>1. <<>> \in Seq(Nat) /\ Len(<<>>) = 0
  BY EmptySeq
<1>2. Packets \in Nat /\ arrived \in Nat
  BY ServerAssumption DEF Server!ServerParameters, ServerTypes
<1>3. Len(inbox) \in Nat /\ Len(lent) \in Nat /\ Len(consumer) \in Nat
  BY LenProperties DEF BytesKept
<1>4. BytesKept'
  <2>1. Len(inbox') + Len(lent') + Len(consumer') <= arrived' /\ Len(lent') <= 2
    BY <1>1, <1>2, <1>3 DEF BytesKept
  <2> QED BY <1>1, <2>1, Zenon DEF BytesKept, Server!HasPacket
<1>5. RequestsInv'
  BY DEF RequestsInv, BytesFollow, Server!InOrder, Following
<1> QED BY <1>4, <1>5

\* The task goes on in the loop of its requests.
LEMMA HandlerGoesOn ==
  ASSUME ServerTypes, HookInv, ReleaseInv, pc \in Reading, pc' \in Reading,
         UNCHANGED <<into, arrived, ending, graceful, transport, closing, sendq, inside>>,
         params' \in [timeout : BOOLEAN, ancillary : BOOLEAN], cancelled' \in {"no", "pending", "thrown"},
         stage' \in {"connecting", "first", "handling"}, hook' \in {"none", "connected", "disconnected"},
         hook' = IF stage' = "connecting" THEN "none" ELSE "connected"
  PROVE  ServerTypes' /\ HookInv' /\ ReleaseInv'
<1>1. ServerTypes'
  BY Zenon DEF ServerTypes
<1>2. HookInv' /\ ReleaseInv'
  BY DEF HookInv, ReleaseInv, Reading, Leaving
<1> QED BY <1>1, <1>2

\* The rest of a step that changes neither the task nor the client object.
LEMMA ControlFrame ==
  ASSUME ServerTypes, HookInv, ReleaseInv, arrived' \in 0..(2 * Packets), ending' \in {"open", "eof", "lost"},
         cancelled' \in {"no", "pending", "thrown"}, cancelled = "thrown" => cancelled' = "thrown",
         UNCHANGED <<into, pc, stage, params, graceful, hook, transport, closing, sendq, inside>>
  PROVE  ServerTypes' /\ HookInv' /\ ReleaseInv'
<1>1. ServerTypes'
  BY ZenonT(40) DEF ServerTypes
<1>2. HookInv' /\ ReleaseInv'
  BY DEF HookInv, ReleaseInv
<1> QED BY <1>1, <1>2

\* A step of another task with the client object, which may close the transport.
LEMMA ClientFrame ==
  ASSUME ServerTypes, BytesKept, RequestsInv, HookInv, ReleaseInv,
         UNCHANGED <<Server!stream, Server!handler>>,
         transport' \in {"open", "closed"}, transport = "closed" => transport' = "closed",
         closing' \in BOOLEAN, closing => closing', inside' \in BOOLEAN, sendq' \in Seq(Asked),
         inside' => sendq' # <<>> /\ Head(sendq').task \in Others,
         inside' /\ Head(sendq').call = "send" => (inside /\ Head(sendq).call = "send") \/ ~closing
  PROVE  ServerInv'
<1>1. UNCHANGED <<into, arrived, ending, inbox, lent, consumer, seen, pc, stage, params, graceful, hook, cancelled>>
  BY DEF Server!stream, Server!handler
<1>2. ServerTypes'
  BY <1>1, ZenonT(40) DEF ServerTypes
<1>3. BytesKept' /\ RequestsInv'
  BY <1>1, BytesFrame
<1>4. HookInv' /\ ReleaseInv'
  BY <1>1 DEF HookInv, ReleaseInv, Leaving
<1> QED BY <1>2, <1>3, <1>4 DEF ServerInv

-----------------------------------------------------------------------------
(* The user code *)

LEMMA UserYieldsKeeps ==
  ASSUME ServerInv, NEW p \in [timeout : BOOLEAN, ancillary : BOOLEAN], Server!UserYields(p)
  PROVE  ServerInv'
<1>1. ServerTypes /\ BytesKept /\ RequestsInv /\ HookInv /\ ReleaseInv
  BY DEF ServerInv
<1>2. pc = "user" /\ UNCHANGED <<into, arrived, ending, inbox, lent, consumer, seen, cancelled, inside>>
  BY DEF Server!UserYields, Server!stream
<1>3. pc \in Reading /\ hook = IF stage = "connecting" THEN "none" ELSE "connected"
  BY <1>1, <1>2 DEF HookInv, Reading
<1>4. CASE Server!TransportClosing
  <2>1. Server!Leave(FALSE, hook) /\ UNCHANGED <<stage, params, transport>>
    BY <1>4 DEF Server!UserYields
  <2>2. hook \in {"none", "connected"} /\ (stage # "connecting" => hook = "connected")
    BY <1>3
  <2> QED BY <1>2, <1>3, <2>1, <2>2, LeavesWithHook
<1>5. CASE ~Server!TransportClosing
  <2>1. /\ pc' = IF Server!HasPacket(consumer) THEN "yield" ELSE "recv"
        /\ stage' = IF stage = "first" THEN "handling" ELSE stage
        /\ params' = p
        /\ UNCHANGED <<graceful, hook, transport, closing, sendq>>
    BY <1>5 DEF Server!UserYields
  <2>2. pc' \in Reading /\ (pc' = "yield" => Server!HasPacket(consumer))
    BY <2>1 DEF Reading
  <2>3. stage \in {"connecting", "first", "handling"} /\ hook \in {"none", "connected", "disconnected"}
        /\ cancelled \in {"no", "pending", "thrown"}
    BY <1>1 DEF ServerTypes
  <2>4. /\ stage' \in {"connecting", "first", "handling"}
        /\ hook' = IF stage' = "connecting" THEN "none" ELSE "connected"
    BY <1>3, <2>1, <2>3
  <2>5. ServerTypes' /\ HookInv' /\ ReleaseInv'
    BY <1>1, <1>2, <1>3, <2>1, <2>2, <2>3, <2>4, HandlerGoesOn
  <2>6. BytesKept' /\ RequestsInv'
    BY <1>1, <1>2, <2>2, BytesFrame
  <2> QED BY <2>5, <2>6 DEF ServerInv
<1> QED BY <1>4, <1>5

LEMMA UserReturnsKeeps == ServerInv /\ Server!UserReturns => ServerInv'
<1> SUFFICES ASSUME ServerInv, Server!UserReturns PROVE ServerInv'
  OBVIOUS
<1>1. ServerTypes /\ BytesKept /\ RequestsInv /\ HookInv /\ ReleaseInv
  BY DEF ServerInv
<1>2. pc = "user" /\ UNCHANGED <<into, arrived, ending, inbox, lent, consumer, seen, params, cancelled, inside>>
  BY DEF Server!UserReturns, Server!stream
<1>3. pc \in Reading /\ hook = IF stage = "connecting" THEN "none" ELSE "connected"
  BY <1>1, <1>2 DEF HookInv, Reading
<1> DEFINE connected == IF stage = "connecting" THEN "connected" ELSE hook
<1>4. connected = "connected"
  BY <1>3
<1>5. \/ /\ stage = "first"
         /\ graceful' = TRUE /\ closing' = TRUE /\ transport' = "closed"
         /\ IF Server!HookIsDue(connected)
            THEN pc' = "hook" /\ hook' = hook /\ sendq' = sendq
            ELSE hook' = hook /\ Server!Disconnect
         /\ UNCHANGED stage
      \/ stage # "first" /\ closing /\ Server!Leave(TRUE, connected) /\ UNCHANGED <<stage, transport>>
      \/ /\ stage # "first" /\ ~closing
         /\ stage' = "first" /\ hook' = connected
         /\ UNCHANGED <<pc, graceful, transport, closing, sendq>>
  BY DEF Server!UserReturns
<1> HIDE DEF connected
<1>6. CASE stage = "first" /\ transport' = "closed"
  <2>1. /\ graceful' = TRUE /\ closing' = TRUE /\ transport' = "closed" /\ stage' = "first"
        /\ pc' = "hook" /\ hook' = hook /\ sendq' = sendq
    BY <1>4, <1>5, <1>6 DEF Server!HookIsDue
  <2>2. hook = "connected"
    BY <1>3, <1>6
  <2>3. ServerTypes'
    BY <1>1, <1>2, <2>1, Zenon DEF ServerTypes
  <2>4. BytesKept' /\ RequestsInv'
    BY <1>1, <1>2, <2>1, BytesFrame
  <2>5. HookInv' /\ ReleaseInv'
    BY <1>1, <1>2, <2>1, <2>2 DEF HookInv, ReleaseInv, Reading, Leaving
  <2> QED BY <2>3, <2>4, <2>5 DEF ServerInv
<1>7. CASE Server!Leave(TRUE, connected) /\ UNCHANGED <<stage, transport>>
  BY <1>2, <1>3, <1>4, <1>7, LeavesWithHook
<1>8. CASE stage' = "first" /\ hook' = connected /\ UNCHANGED <<pc, graceful, transport, closing, sendq>>
  <2>1. params \in [timeout : BOOLEAN, ancillary : BOOLEAN] /\ cancelled \in {"no", "pending", "thrown"}
    BY <1>1 DEF ServerTypes
  <2>2. hook' \in {"none", "connected", "disconnected"} /\ hook' = IF stage' = "connecting" THEN "none" ELSE "connected"
    BY <1>4, <1>8
  <2>3. ServerTypes' /\ HookInv' /\ ReleaseInv'
    BY <1>1, <1>2, <1>3, <1>8, <2>1, <2>2, HandlerGoesOn
  <2>4. BytesKept' /\ RequestsInv'
    BY <1>1, <1>2, <1>8, BytesFrame
  <2> QED BY <2>3, <2>4 DEF ServerInv
<1> QED BY <1>5, <1>6, <1>7, <1>8

LEMMA UserRaisesKeeps == ServerInv /\ Server!UserRaises => ServerInv'
<1> SUFFICES ASSUME ServerInv, Server!UserRaises PROVE ServerInv'
  OBVIOUS
<1>1. /\ pc = "user" /\ Server!Leave(FALSE, hook)
      /\ UNCHANGED <<into, arrived, ending, inbox, lent, consumer, seen, stage, params, cancelled, transport, inside>>
  BY DEF Server!UserRaises, Server!stream
<1>2. pc \in Reading /\ hook = IF stage = "connecting" THEN "none" ELSE "connected"
  BY <1>1 DEF ServerInv, HookInv, Reading
<1>3. hook \in {"none", "connected"} /\ (stage # "connecting" => hook = "connected")
  BY <1>2
<1> QED BY <1>1, <1>2, <1>3, LeavesWithHook

-----------------------------------------------------------------------------
(* The request loop *)

\* A packet that is given is the next one, and the bytes behind it are kept.
LEMMA PacketIsGiven ==
  ASSUME seen \in Seq(Seq(Nat)), NEW bytes \in Seq(Nat), Server!HasPacket(bytes), Server!Give(bytes)
  PROVE  /\ pc' = "user" /\ consumer' \in Seq(Nat) /\ Len(consumer') = Len(bytes) - 2
         /\ seen' \in Seq(Seq(Nat)) /\ Len(seen') = Len(seen) + 1 /\ Len(seen) \in Nat
         /\ Server!InOrder /\ Following(bytes, 2 * Len(seen)) =>
              Following(consumer', 2 * Len(seen')) /\ Server!InOrder'
<1>1. /\ pc' = "user" /\ consumer' = SubSeq(bytes, 3, Len(bytes)) /\ seen' = Append(seen, SubSeq(bytes, 1, 2))
      /\ Len(bytes) >= 2
  BY DEF Server!Give, Server!Packet, Server!HasPacket
<1>2. Len(bytes) \in Nat /\ Len(seen) \in Nat
  BY LenProperties
<1>3. /\ SubSeq(bytes, 3, Len(bytes)) \in Seq(Nat) /\ Len(SubSeq(bytes, 3, Len(bytes))) = Len(bytes) - 2
      /\ SubSeq(bytes, 1, 2) \in Seq(Nat)
  <2>1. \A i \in 1..Len(bytes) : bytes[i] \in Nat
    BY ElementOfSeq
  <2>2. /\ 3 \in 1..(Len(bytes) + 1) /\ Len(bytes) \in (3 - 1)..Len(bytes) /\ (Len(bytes) - 3) + 1 = Len(bytes) - 2
        /\ 1 \in 1..(Len(bytes) + 1) /\ 2 \in (1 - 1)..Len(bytes)
    BY <1>1, <1>2
  <2>3. /\ SubSeq(bytes, 3, Len(bytes)) \in Seq(Nat) /\ Len(SubSeq(bytes, 3, Len(bytes))) = Len(bytes) - 3 + 1
    BY <1>2, <2>1, <2>2, SubSeqProperties
  <2>4. SubSeq(bytes, 1, 2) \in Seq(Nat)
    BY <1>2, <2>1, <2>2, SubSeqProperties
  <2> QED BY <2>2, <2>3, <2>4
<1>4. /\ seen' \in Seq(Seq(Nat)) /\ Len(seen') = Len(seen) + 1
      /\ \A i \in 1..Len(seen) : seen'[i] = seen[i]
      /\ seen'[Len(seen) + 1] = SubSeq(bytes, 1, 2)
  BY <1>1, <1>3, AppendProperties
<1>5. ASSUME Server!InOrder, Following(bytes, 2 * Len(seen))
      PROVE  Following(consumer', 2 * Len(seen')) /\ Server!InOrder'
  <2>1. 2 * Len(seen) \in Nat /\ 2 * Len(seen) + 2 = 2 * (Len(seen) + 1)
    BY <1>2
  <2>2. /\ Following(SubSeq(bytes, 3, Len(bytes)), 2 * Len(seen) + 2)
        /\ SubSeq(bytes, 1, 2) = <<2 * Len(seen) + 1, 2 * Len(seen) + 2>>
    BY <1>1, <1>5, <2>1, FollowingProperties
  <2>3. Following(consumer', 2 * Len(seen'))
    BY <1>1, <1>4, <2>1, <2>2
  <2>4. ASSUME NEW i \in 1..(Len(seen) + 1) PROVE seen'[i] = <<2 * i - 1, 2 * i>>
    <3>1. CASE i \in 1..Len(seen)
      BY <1>4, <1>5, <3>1 DEF Server!InOrder
    <3>2. CASE i = Len(seen) + 1
      <4>1. 2 * i - 1 = 2 * Len(seen) + 1 /\ 2 * i = 2 * Len(seen) + 2
        BY <1>2, <3>2
      <4> QED BY <1>4, <2>2, <3>2, <4>1
    <3>3. i \in 1..Len(seen) \/ i = Len(seen) + 1
      BY <1>2
    <3> QED BY <3>1, <3>2, <3>3
  <2>5. Server!InOrder'
    BY <1>4, <2>4 DEF Server!InOrder
  <2> QED BY <2>3, <2>5
<1> QED BY <1>1, <1>2, <1>3, <1>4, <1>5

LEMMA YieldedKeeps == ServerInv /\ Server!Yielded => ServerInv'
<1> SUFFICES ASSUME ServerInv, Server!Yielded PROVE ServerInv'
  OBVIOUS
<1>1. ServerTypes /\ BytesKept /\ RequestsInv /\ HookInv /\ ReleaseInv
  BY DEF ServerInv
<1>2. /\ pc = "yield" /\ Server!Give(consumer)
      /\ UNCHANGED <<into, arrived, ending, inbox, lent, stage, params, graceful, hook, cancelled,
                     transport, closing, sendq, inside>>
  BY DEF Server!Yielded, Server!client
<1>3. consumer \in Seq(Nat) /\ Server!HasPacket(consumer) /\ seen \in Seq(Seq(Nat))
  BY <1>1, <1>2 DEF BytesKept, RequestsInv
<1>4. /\ pc' = "user" /\ consumer' \in Seq(Nat) /\ Len(consumer') = Len(consumer) - 2
      /\ seen' \in Seq(Seq(Nat)) /\ Len(seen') = Len(seen) + 1 /\ Len(seen) \in Nat
      /\ Server!InOrder /\ Following(consumer, 2 * Len(seen)) =>
           Following(consumer', 2 * Len(seen')) /\ Server!InOrder'
  BY <1>2, <1>3, PacketIsGiven
<1>5. ServerTypes' /\ HookInv' /\ ReleaseInv'
  <2>1. /\ pc \in Reading /\ pc' \in Reading /\ hook = IF stage = "connecting" THEN "none" ELSE "connected"
        /\ params \in [timeout : BOOLEAN, ancillary : BOOLEAN] /\ cancelled \in {"no", "pending", "thrown"}
        /\ stage \in {"connecting", "first", "handling"} /\ hook \in {"none", "connected", "disconnected"}
    BY <1>1, <1>2, <1>4 DEF HookInv, Reading, ServerTypes
  <2> QED BY <1>1, <1>2, <2>1, HandlerGoesOn
<1>6. Packets \in Nat /\ arrived \in Nat
  BY <1>1, ServerAssumption DEF Server!ServerParameters, ServerTypes
<1>7. Len(inbox) \in Nat /\ Len(lent) \in Nat /\ Len(consumer) \in Nat
  BY <1>1, LenProperties DEF BytesKept
<1>8. BytesKept'
  <2>1. Len(inbox) + Len(lent) + Len(consumer) <= arrived /\ Len(lent) <= 2
    BY <1>1 DEF BytesKept
  <2>2. Len(inbox') + Len(lent') + Len(consumer') <= arrived' /\ Len(lent') <= 2
    BY <1>2, <1>4, <1>6, <1>7, <2>1
  <2> QED BY <1>1, <1>2, <1>4, <2>2, Zenon DEF BytesKept
<1>9. RequestsInv'
  <2> SUFFICES ASSUME ~into PROVE BytesFollow'
    BY <1>2, <1>4 DEF RequestsInv
  <2>1. BytesFollow
    BY <1>1 DEF RequestsInv
  <2>2. 2 * Len(seen) + Len(consumer) + Len(inbox) = arrived
    BY <2>1 DEF BytesFollow
  <2>3. /\ 2 * Len(seen') + Len(consumer') = 2 * Len(seen) + Len(consumer)
        /\ 2 * Len(seen') + Len(consumer') + Len(inbox') = arrived' /\ Len(seen') \in Nat
    BY <1>2, <1>4, <1>7, <2>2
  <2>4. Following(inbox', 2 * Len(seen') + Len(consumer'))
    BY <1>2, <2>1, <2>3 DEF BytesFollow
  <2> QED BY <1>2, <1>4, <2>1, <2>3, <2>4 DEF BytesFollow
<1> QED BY <1>5, <1>8, <1>9 DEF ServerInv

\* The bytes that a receive adds to those of the consumer.
LEMMA ReceivedBytes ==
  ASSUME ServerTypes, BytesKept, RequestsInv
  PROVE  LET bytes == consumer \o lent \o inbox IN
         /\ bytes \in Seq(Nat) /\ Len(bytes) = Len(consumer) + Len(lent) + Len(inbox)
         /\ Len(consumer) \in Nat /\ Len(lent) \in Nat /\ Len(inbox) \in Nat /\ arrived \in Nat
         /\ BytesFollow => Following(bytes, 2 * Len(seen)) /\ 2 * Len(seen) + Len(bytes) = arrived
<1> DEFINE bytes == consumer \o lent \o inbox
<1>1. /\ Len(consumer) \in Nat /\ Len(lent) \in Nat /\ Len(inbox) \in Nat /\ arrived \in Nat
      /\ consumer \in Seq(Nat) /\ lent \in Seq(Nat) /\ inbox \in Seq(Nat)
  BY LenProperties, ServerAssumption DEF BytesKept, ServerTypes, Server!ServerParameters
<1>2. consumer \o lent \in Seq(Nat) /\ Len(consumer \o lent) = Len(consumer) + Len(lent)
  BY <1>1, ConcatProperties
<1>3. bytes \in Seq(Nat) /\ Len(bytes) = Len(consumer) + Len(lent) + Len(inbox)
  BY <1>1, <1>2, ConcatProperties
<1>4. ASSUME BytesFollow PROVE Following(bytes, 2 * Len(seen)) /\ 2 * Len(seen) + Len(bytes) = arrived
  <2>1. /\ lent = <<>> /\ Len(seen) \in Nat /\ 2 * Len(seen) \in Nat
        /\ Following(consumer, 2 * Len(seen)) /\ Following(inbox, 2 * Len(seen) + Len(consumer))
        /\ 2 * Len(seen) + Len(consumer) + Len(inbox) = arrived
    BY <1>4 DEF BytesFollow
  <2>2. consumer \o lent = consumer /\ Len(lent) = 0
    BY <1>1, <2>1, ConcatEmptySeq, EmptySeq
  <2>3. Following(bytes, 2 * Len(seen))
    BY <2>1, <2>2, FollowingProperties
  <2>4. 2 * Len(seen) + Len(bytes) = arrived
    BY <1>1, <1>3, <2>1, <2>2
  <2> QED BY <2>3, <2>4
<1> QED BY <1>1, <1>3, <1>4

LEMMA ReceivedKeeps == ServerInv /\ Server!Received => ServerInv'
<1> SUFFICES ASSUME ServerInv, Server!Received PROVE ServerInv'
  OBVIOUS
<1> DEFINE bytes == consumer \o lent \o inbox
<1>1. ServerTypes /\ BytesKept /\ RequestsInv /\ HookInv /\ ReleaseInv
  BY DEF ServerInv
<1>2. /\ pc = "recv" /\ inbox' = <<>> /\ lent' = <<>>
      /\ IF Server!HasPacket(bytes) THEN Server!Give(bytes)
         ELSE /\ consumer' = bytes /\ seen' = seen
              /\ pc' = IF params.ancillary THEN "user" ELSE "recv"
      /\ UNCHANGED <<into, arrived, ending, stage, params, graceful, hook, cancelled, transport, closing, sendq, inside>>
  BY DEF Server!Received, Server!client
<1>3. /\ bytes \in Seq(Nat) /\ Len(bytes) = Len(consumer) + Len(lent) + Len(inbox)
      /\ Len(consumer) \in Nat /\ Len(lent) \in Nat /\ Len(inbox) \in Nat /\ arrived \in Nat
      /\ BytesFollow => Following(bytes, 2 * Len(seen)) /\ 2 * Len(seen) + Len(bytes) = arrived
  BY <1>1, ReceivedBytes
<1> HIDE DEF bytes
<1>4. seen \in Seq(Seq(Nat)) /\ Len(seen) \in Nat /\ (~into => BytesFollow)
  BY <1>1, LenProperties DEF RequestsInv
<1>5. Len(inbox) + Len(lent) + Len(consumer) <= arrived
  BY <1>1 DEF BytesKept
<1>6. <<>> \in Seq(Nat) /\ Len(<<>>) = 0 /\ \A n \in Nat : Following(<<>>, n)
  BY EmptySeq, FollowingProperties
\* What the consumer keeps.
<1>7. /\ pc' \in {"user", "recv"} /\ consumer' \in Seq(Nat) /\ Len(consumer') <= Len(bytes) /\ seen' \in Seq(Seq(Nat))
      /\ BytesFollow =>
           /\ Len(seen') \in Nat /\ Following(consumer', 2 * Len(seen')) /\ Server!InOrder'
           /\ 2 * Len(seen') + Len(consumer') = 2 * Len(seen) + Len(bytes)
  <2>1. CASE Server!HasPacket(bytes)
    <3>1. Server!Give(bytes)
      BY <1>2, <2>1
    <3>2. /\ pc' = "user" /\ consumer' \in Seq(Nat) /\ Len(consumer') = Len(bytes) - 2
          /\ seen' \in Seq(Seq(Nat)) /\ Len(seen') = Len(seen) + 1 /\ Len(seen) \in Nat
          /\ Server!InOrder /\ Following(bytes, 2 * Len(seen)) =>
               Following(consumer', 2 * Len(seen')) /\ Server!InOrder'
      BY <1>3, <1>4, <2>1, <3>1, PacketIsGiven
    <3>3. Len(bytes) \in Nat
      BY <1>3, LenProperties
    <3>4. Len(consumer') <= Len(bytes) /\ Len(seen') \in Nat /\ 2 * Len(seen') + Len(consumer') = 2 * Len(seen) + Len(bytes)
      BY <3>2, <3>3
    <3>5. BytesFollow => Server!InOrder /\ Following(bytes, 2 * Len(seen))
      BY <1>3 DEF BytesFollow
    <3> QED BY <3>2, <3>4, <3>5
  <2>2. CASE ~Server!HasPacket(bytes)
    <3>1. consumer' = bytes /\ seen' = seen /\ pc' \in {"user", "recv"}
      BY <1>2, <2>2
    <3>2. Len(bytes) <= Len(bytes)
      BY <1>3, LenProperties
    <3>3. BytesFollow => Server!InOrder'
      BY <3>1 DEF BytesFollow, Server!InOrder
    <3> QED BY <1>3, <1>4, <3>1, <3>2, <3>3, Zenon
  <2> QED BY <2>1, <2>2
<1>8. ServerTypes' /\ HookInv' /\ ReleaseInv'
  <2>1. /\ pc \in Reading /\ pc' \in Reading /\ hook = IF stage = "connecting" THEN "none" ELSE "connected"
        /\ params \in [timeout : BOOLEAN, ancillary : BOOLEAN] /\ cancelled \in {"no", "pending", "thrown"}
        /\ stage \in {"connecting", "first", "handling"} /\ hook \in {"none", "connected", "disconnected"}
    BY <1>1, <1>2, <1>7 DEF HookInv, Reading, ServerTypes
  <2> QED BY <1>1, <1>2, <2>1, HandlerGoesOn
<1>9. BytesKept'
  <2>1. pc' # "yield"
    BY <1>7
  <2>2. Len(consumer') \in Nat
    BY <1>7, LenProperties
  <2>3. Len(inbox') + Len(lent') + Len(consumer') <= arrived' /\ Len(lent') <= 2
    BY <1>2, <1>3, <1>5, <1>6, <1>7, <2>2
  <2> QED BY <1>2, <1>6, <1>7, <2>1, <2>3, Zenon DEF BytesKept
<1>10. RequestsInv'
  <2> SUFFICES ASSUME ~into PROVE BytesFollow'
    BY <1>2, <1>7 DEF RequestsInv
  <2>1. BytesFollow
    BY <1>4
  <2>2. Len(consumer') \in Nat /\ 2 * Len(seen') + Len(consumer') \in Nat
    BY <1>7, <2>1, LenProperties
  <2>3. 2 * Len(seen') + Len(consumer') + Len(inbox') = arrived'
    BY <1>2, <1>3, <1>6, <1>7, <2>1, <2>2
  <2>4. Following(inbox', 2 * Len(seen') + Len(consumer'))
    BY <1>2, <1>6, <2>2
  <2> QED BY <1>2, <1>7, <2>1, <2>3, <2>4, Zenon DEF BytesFollow
<1> QED BY <1>8, <1>9, <1>10 DEF ServerInv

LEMMA EndOfStreamKeeps == ServerInv /\ Server!EndOfStream => ServerInv'
<1> SUFFICES ASSUME ServerInv, Server!EndOfStream PROVE ServerInv'
  OBVIOUS
<1>1. /\ pc = "recv" /\ Server!Leave(TRUE, hook)
      /\ UNCHANGED <<into, arrived, ending, inbox, lent, consumer, seen, stage, params, cancelled, transport, inside>>
  BY DEF Server!EndOfStream, Server!stream
<1>2. pc \in Reading /\ hook = IF stage = "connecting" THEN "none" ELSE "connected"
  BY <1>1 DEF ServerInv, HookInv, Reading
<1>3. hook \in {"none", "connected"} /\ (stage # "connecting" => hook = "connected")
  BY <1>2
<1> QED BY <1>1, <1>2, <1>3, LeavesWithHook

\* A step between two places of the loop of the requests that gives nothing.
LEMMA ReadingKeeps ==
  ASSUME ServerInv, pc \in Reading, pc' \in Reading, pc' = "yield" => pc = "yield",
         params' \in [timeout : BOOLEAN, ancillary : BOOLEAN], cancelled' \in {"no", "pending", "thrown"},
         lent' = lent \/ lent' = <<>>,
         UNCHANGED <<into, arrived, ending, inbox, consumer, seen, stage, graceful, hook,
                     transport, closing, sendq, inside>>
  PROVE  ServerInv'
<1>1. ServerTypes /\ BytesKept /\ RequestsInv /\ HookInv /\ ReleaseInv
  BY DEF ServerInv
<1>2. /\ hook = IF stage = "connecting" THEN "none" ELSE "connected"
      /\ stage \in {"connecting", "first", "handling"} /\ hook \in {"none", "connected", "disconnected"}
  BY <1>1 DEF HookInv, ServerTypes
<1>3. ServerTypes' /\ HookInv' /\ ReleaseInv'
  BY <1>1, <1>2, HandlerGoesOn
<1>4. BytesKept' /\ RequestsInv'
  BY <1>1, BytesFrame, BytesDropped
<1> QED BY <1>3, <1>4 DEF ServerInv

LEMMA ReceiveFailsKeeps == ServerInv /\ Server!ReceiveFails => ServerInv'
<1> SUFFICES ASSUME ServerInv, Server!ReceiveFails PROVE ServerInv'
  OBVIOUS
<1>1. /\ pc = "recv" /\ pc' = "user"
      /\ UNCHANGED <<into, arrived, ending, inbox, lent, consumer, seen, stage, params, graceful, hook, cancelled,
                     transport, closing, sendq, inside>>
  BY DEF Server!ReceiveFails, Server!stream, Server!client
<1>2. params \in [timeout : BOOLEAN, ancillary : BOOLEAN] /\ cancelled \in {"no", "pending", "thrown"}
  BY DEF ServerInv, ServerTypes
<1>3. pc \in Reading /\ pc' \in Reading /\ pc' # "yield"
  BY <1>1 DEF Reading
<1> QED BY <1>1, <1>2, <1>3, ReadingKeeps

LEMMA TimesOutKeeps == ServerInv /\ Server!TimesOut => ServerInv'
<1> SUFFICES ASSUME ServerInv, Server!TimesOut PROVE ServerInv'
  OBVIOUS
<1>1. /\ pc \in {"recv", "yield"} /\ params' = [params EXCEPT !.timeout = FALSE] /\ lent' = <<>>
      /\ UNCHANGED <<into, arrived, ending, inbox, seen, stage, graceful, hook, cancelled,
                     transport, closing, sendq, inside>>
  BY DEF Server!TimesOut, Server!client
<1>2. consumer' = consumer /\ pc' = IF pc = "yield" THEN "yield" ELSE "user"
  BY <1>1 DEF Server!TimesOut, Server!SurvivesTimeout
<1>3. params' \in [timeout : BOOLEAN, ancillary : BOOLEAN] /\ cancelled' \in {"no", "pending", "thrown"}
  BY <1>1 DEF ServerInv, ServerTypes
<1>4. pc \in Reading /\ pc' \in Reading /\ (pc' = "yield" => pc = "yield")
  BY <1>1, <1>2 DEF Reading
<1> QED BY <1>1, <1>2, <1>3, <1>4, ReadingKeeps

LEMMA CancelTaskKeeps == ServerInv /\ Server!CancelTask => ServerInv'
<1> SUFFICES ASSUME ServerInv, Server!CancelTask PROVE ServerInv'
  OBVIOUS
<1>1. ServerTypes /\ BytesKept /\ RequestsInv /\ HookInv /\ ReleaseInv
  BY DEF ServerInv
<1>2. /\ cancelled = "no" /\ cancelled' = "pending"
      /\ UNCHANGED <<into, arrived, ending, inbox, lent, consumer, seen, pc, stage, params, graceful, hook,
                     transport, closing, sendq, inside>>
  BY DEF Server!CancelTask, Server!stream, Server!client
<1>3. ServerTypes' /\ HookInv' /\ ReleaseInv'
  <2>1. arrived' \in 0..(2 * Packets) /\ ending' \in {"open", "eof", "lost"}
    BY <1>1, <1>2 DEF ServerTypes
  <2> QED BY <1>1, <1>2, <2>1, ControlFrame
<1>4. BytesKept' /\ RequestsInv'
  BY <1>1, <1>2, BytesFrame
<1> QED BY <1>3, <1>4 DEF ServerInv

-----------------------------------------------------------------------------
(* The end of the task *)

LEMMA HookDoneKeeps == ServerInv /\ Server!HookDone => ServerInv'
<1> SUFFICES ASSUME ServerInv, Server!HookDone PROVE ServerInv'
  OBVIOUS
<1>1. /\ pc = "hook" /\ hook' = "disconnected" /\ Server!Disconnect
      /\ UNCHANGED <<into, arrived, ending, inbox, lent, consumer, seen, stage, params, graceful, cancelled,
                     transport, inside>>
  BY DEF Server!HookDone, Server!stream
<1>2. cancelled' \in {"no", "pending", "thrown"} /\ BytesKept /\ RequestsInv /\ pc' # "yield"
  BY <1>1 DEF ServerInv, ServerTypes, Server!Disconnect
<1>3. BytesKept' /\ RequestsInv'
  BY <1>1, <1>2, BytesFrame
<1> QED BY <1>1, <1>2, <1>3, LeavesAfterHook

\* The task has the lock, or gives up: a send that is under way then is one it does not
\* wait for because it was cancelled.
LEMMA LeavesTheClient ==
  ASSUME ServerInv, pc \in Leaving, pc' \in {"closing", "done"}, transport' \in {"open", "closed"},
         pc' = "done" => transport' = "closed", sendq' \in Seq(Asked),
         cancelled' \in {"no", "pending", "thrown"}, cancelled = "thrown" => cancelled' = "thrown",
         inside => sendq' # <<>> /\ Head(sendq') = Head(sendq),
         inside /\ Head(sendq).call = "send" => cancelled' = "thrown",
         lent' = lent \/ lent' = <<>>,
         UNCHANGED <<into, arrived, ending, inbox, consumer, seen, stage, params, graceful, hook, closing, inside>>
  PROVE  ServerInv'
<1>1. ServerTypes /\ BytesKept /\ RequestsInv /\ HookInv /\ ReleaseInv
  BY DEF ServerInv
<1>2. ServerTypes'
  BY <1>1, ZenonT(40) DEF ServerTypes, Leaving
<1>3. BytesKept' /\ RequestsInv'
  BY <1>1, BytesFrame, BytesDropped
<1>4. HookInv' /\ ReleaseInv'
  BY <1>1 DEF HookInv, ReleaseInv, Reading, Leaving
<1> QED BY <1>2, <1>3, <1>4 DEF ServerInv

LEMMA LeftKeeps == ServerInv /\ Server!Left => ServerInv'
<1> SUFFICES ASSUME ServerInv, Server!Left PROVE ServerInv'
  OBVIOUS
<1>1. /\ pc = "leaving" /\ Head(sendq).task = Task /\ sendq' = Server!RemoveFirst(sendq, Server!Disconnecting)
      /\ Server!AfterLeaving
      /\ UNCHANGED <<into, arrived, ending, inbox, lent, consumer, seen, stage, params, graceful, hook, cancelled,
                     closing, inside>>
  BY DEF Server!Left, Server!stream, Server!MayLeave, Task
<1>2. ServerTypes /\ ReleaseInv
  BY DEF ServerInv
<1>3. ~inside
  BY <1>1, <1>2, TaskIsNoOther DEF ReleaseInv
<1>4. /\ pc \in Leaving /\ pc' \in {"closing", "done"} /\ transport' \in {"open", "closed"}
      /\ pc' = "done" => transport' = "closed"
  BY <1>1, <1>2 DEF Server!AfterLeaving, ServerTypes, Leaving
<1>5. sendq' \in Seq(Asked)
  BY <1>1, <1>2, TaskIsNoOther, EntryGoes
<1>6. cancelled' \in {"no", "pending", "thrown"}
  BY <1>1, <1>2 DEF ServerTypes
<1> QED BY <1>1, <1>3, <1>4, <1>5, <1>6, LeavesTheClient

LEMMA TransportClosedKeeps == ServerInv /\ Server!TransportClosed => ServerInv'
<1> SUFFICES ASSUME ServerInv, Server!TransportClosed PROVE ServerInv'
  OBVIOUS
<1>1. /\ pc = "closing" /\ pc' = "done" /\ transport' = "closed"
      /\ UNCHANGED <<into, arrived, ending, inbox, lent, consumer, seen, stage, params, graceful, hook, cancelled,
                     closing, sendq, inside>>
  BY DEF Server!TransportClosed, Server!stream
<1>2. /\ sendq \in Seq(Asked) /\ cancelled \in {"no", "pending", "thrown"} /\ (inside => sendq # <<>>)
      /\ inside /\ Head(sendq).call = "send" => cancelled = "thrown"
  BY <1>1 DEF ServerInv, ServerTypes, ReleaseInv
<1>3. pc \in Leaving
  BY <1>1 DEF Leaving
<1> QED BY <1>1, <1>2, <1>3, LeavesTheClient

LEMMA CancelThrownKeeps == ServerInv /\ Server!CancelThrown => ServerInv'
<1> SUFFICES ASSUME ServerInv, Server!CancelThrown PROVE ServerInv'
  OBVIOUS
<1>1. /\ cancelled' = "thrown" /\ lent' = <<>>
      /\ UNCHANGED <<into, arrived, ending, inbox, consumer, seen, stage, params, graceful, inside>>
      /\ \/ pc \in {"user", "recv"} /\ pc' = "user" /\ UNCHANGED <<hook, transport, closing, sendq>>
         \/ pc = "hook" /\ hook' = "disconnected" /\ Server!Disconnect /\ UNCHANGED transport
         \/ /\ pc = "leaving" /\ Server!AfterLeaving
            /\ sendq' = Server!RemoveFirst(sendq, Server!Disconnecting)
            /\ UNCHANGED <<hook, closing>>
         \/ pc = "closing" /\ pc' = "done" /\ transport' = "closed" /\ UNCHANGED <<hook, closing, sendq>>
  BY DEF Server!CancelThrown
<1>2. /\ ServerTypes /\ BytesKept /\ RequestsInv /\ ReleaseInv
      /\ params \in [timeout : BOOLEAN, ancillary : BOOLEAN] /\ sendq \in Seq(Asked)
  BY DEF ServerInv, ServerTypes
<1>3. CASE pc \in {"user", "recv"} /\ pc' = "user" /\ UNCHANGED <<hook, transport, closing, sendq>>
  <2>1. pc \in Reading /\ pc' \in Reading /\ pc' # "yield"
    BY <1>3 DEF Reading
  <2>2. params' \in [timeout : BOOLEAN, ancillary : BOOLEAN] /\ cancelled' \in {"no", "pending", "thrown"}
    BY <1>1, <1>2
  <2> QED BY <1>1, <1>3, <2>1, <2>2, ReadingKeeps
<1>4. CASE pc = "hook" /\ hook' = "disconnected" /\ Server!Disconnect /\ UNCHANGED transport
  <2>1. pc' # "yield"
    BY <1>4 DEF Server!Disconnect
  <2>2. BytesKept' /\ RequestsInv'
    BY <1>1, <1>2, <2>1, BytesDropped
  <2>3. cancelled' \in {"no", "pending", "thrown"} /\ (cancelled = "thrown" => cancelled' = "thrown")
    BY <1>1
  <2> QED BY <1>1, <1>4, <2>2, <2>3, LeavesAfterHook
<1>5. CASE /\ pc = "leaving" /\ Server!AfterLeaving
           /\ sendq' = Server!RemoveFirst(sendq, Server!Disconnecting)
           /\ UNCHANGED <<hook, closing>>
  <2>1. /\ pc \in Leaving /\ pc' \in {"closing", "done"} /\ transport' \in {"open", "closed"}
        /\ pc' = "done" => transport' = "closed"
    BY <1>2, <1>5 DEF Server!AfterLeaving, ServerTypes, Leaving
  <2>2. inside => sendq # <<>> /\ Head(sendq) # Server!Disconnecting
    BY <1>2, TaskIsNoOther DEF ReleaseInv
  <2>3. sendq' \in Seq(Asked) /\ (inside => sendq' # <<>> /\ Head(sendq') = Head(sendq))
    BY <1>2, <1>5, <2>2, TaskIsNoOther, EntryGoes
  <2>4. cancelled' \in {"no", "pending", "thrown"} /\ (cancelled = "thrown" => cancelled' = "thrown")
    BY <1>1
  <2> QED BY <1>1, <1>5, <2>1, <2>3, <2>4, LeavesTheClient
<1>6. CASE pc = "closing" /\ pc' = "done" /\ transport' = "closed" /\ UNCHANGED <<hook, closing, sendq>>
  <2>1. pc \in Leaving /\ (inside => sendq # <<>>)
    BY <1>2, <1>6 DEF Leaving, ReleaseInv
  <2>2. cancelled' \in {"no", "pending", "thrown"} /\ (cancelled = "thrown" => cancelled' = "thrown")
    BY <1>1
  <2> QED BY <1>1, <1>2, <1>6, <2>1, <2>2, LeavesTheClient
<1> QED BY <1>1, <1>3, <1>4, <1>5, <1>6

-----------------------------------------------------------------------------
(* The network *)

LEMMA DeliverKeeps == ASSUME ServerInv, NEW n \in 1..2, Server!Deliver(n) PROVE ServerInv'
<1> DEFINE bytes == [i \in 1..n |-> arrived + i]
<1>1. ServerTypes /\ BytesKept /\ RequestsInv /\ HookInv /\ ReleaseInv
  BY DEF ServerInv
<1>2. /\ arrived + n <= 2 * Packets /\ arrived' = arrived + n
      /\ IF Server!Lent THEN lent' = bytes /\ inbox' = inbox ELSE inbox' = inbox \o bytes /\ lent' = lent
      /\ UNCHANGED <<into, ending, consumer, seen, pc, stage, params, graceful, hook, cancelled,
                     transport, closing, sendq, inside>>
  BY DEF Server!Deliver, Server!handler, Server!client
<1>3. Packets \in Nat /\ arrived \in Nat /\ n \in Nat
  BY <1>1, ServerAssumption DEF Server!ServerParameters, ServerTypes
<1>4. Following(bytes, arrived) /\ Len(bytes) = n /\ bytes \in Seq(Nat)
  BY <1>3, FollowingProperties DEF Following
<1> HIDE DEF bytes
<1>5. ServerTypes' /\ HookInv' /\ ReleaseInv'
  <2>1. arrived' \in 0..(2 * Packets)
    BY <1>2, <1>3
  <2>2. ending' \in {"open", "eof", "lost"} /\ cancelled' \in {"no", "pending", "thrown"}
    BY <1>1, <1>2 DEF ServerTypes
  <2> QED BY <1>1, <1>2, <2>1, <2>2, ControlFrame
<1>6. Len(inbox) \in Nat /\ Len(lent) \in Nat /\ Len(consumer) \in Nat /\ inbox \in Seq(Nat) /\ lent \in Seq(Nat)
  BY <1>1, LenProperties DEF BytesKept
<1>7. inbox \o bytes \in Seq(Nat) /\ Len(inbox \o bytes) = Len(inbox) + n
  BY <1>4, <1>6, ConcatProperties
<1>8. BytesKept'
  <2>1. Server!Lent => lent = <<>> /\ Len(lent) = 0
    BY EmptySeq DEF Server!Lent
  <2>2. inbox' \in Seq(Nat) /\ lent' \in Seq(Nat)
    BY <1>2, <1>4, <1>6, <1>7
  <2>3. Len(inbox) + Len(lent) + Len(consumer) <= arrived /\ Len(lent) <= 2
    BY <1>1 DEF BytesKept
  <2>4. Len(inbox') + Len(lent') + Len(consumer') <= arrived' /\ Len(lent') <= 2
    BY <1>2, <1>3, <1>4, <1>6, <1>7, <2>1, <2>3
  <2> QED BY <1>1, <1>2, <2>2, <2>4, Zenon DEF BytesKept
<1>9. RequestsInv'
  <2> SUFFICES ASSUME ~into PROVE BytesFollow'
    BY <1>1, <1>2 DEF RequestsInv
  <2>1. /\ lent = <<>> /\ Len(seen) \in Nat /\ Following(consumer, 2 * Len(seen))
        /\ Following(inbox, 2 * Len(seen) + Len(consumer))
        /\ 2 * Len(seen) + Len(consumer) + Len(inbox) = arrived /\ Server!InOrder
    BY <1>1 DEF RequestsInv, BytesFollow
  <2>2. inbox' = inbox \o bytes /\ lent' = lent /\ consumer' = consumer /\ seen' = seen
    BY <1>2 DEF Server!Lent
  <2>3. 2 * Len(seen) + Len(consumer) \in Nat /\ Following(bytes, (2 * Len(seen) + Len(consumer)) + Len(inbox))
    BY <1>3, <1>4, <1>6, <2>1
  <2>4. Following(inbox', 2 * Len(seen') + Len(consumer'))
    BY <2>1, <2>2, <2>3, FollowingProperties
  <2>5. 2 * Len(seen') + Len(consumer') + Len(inbox') = arrived'
    BY <1>2, <1>3, <1>6, <1>7, <2>1, <2>2
  <2>6. Server!InOrder'
    BY <2>1, <2>2 DEF Server!InOrder
  <2> QED BY <2>1, <2>2, <2>4, <2>5, <2>6, Zenon DEF BytesFollow
<1> QED BY <1>5, <1>8, <1>9 DEF ServerInv

LEMMA StreamEndsKeeps ==
  ASSUME ServerInv, NEW how \in {"eof", "lost"}, Server!StreamEnds(how) PROVE ServerInv'
<1>1. ServerTypes /\ BytesKept /\ RequestsInv /\ HookInv /\ ReleaseInv
  BY DEF ServerInv
<1>2. /\ ending' = how
      /\ UNCHANGED <<into, arrived, inbox, lent, consumer, seen, pc, stage, params, graceful, hook, cancelled,
                     transport, closing, sendq, inside>>
  BY DEF Server!StreamEnds, Server!handler, Server!client
<1>3. ServerTypes' /\ HookInv' /\ ReleaseInv'
  <2>1. arrived' \in 0..(2 * Packets) /\ ending' \in {"open", "eof", "lost"} /\ cancelled' \in {"no", "pending", "thrown"}
    BY <1>1, <1>2 DEF ServerTypes
  <2> QED BY <1>1, <1>2, <2>1, ControlFrame
<1>4. BytesKept' /\ RequestsInv'
  BY <1>1, <1>2, BytesFrame
<1> QED BY <1>3, <1>4 DEF ServerInv

-----------------------------------------------------------------------------
(* The tasks that use the client object *)

LEMMA CallKeeps ==
  ASSUME ServerInv, NEW t \in Others, NEW c \in {"send", "close"}, Server!Call(t, c) PROVE ServerInv'
<1>1. ServerTypes /\ BytesKept /\ RequestsInv /\ HookInv /\ ReleaseInv
  BY DEF ServerInv
<1>2. /\ sendq' = Append(sendq, [task |-> t, call |-> c])
      /\ UNCHANGED <<Server!stream, Server!handler, transport, closing, inside>>
  BY DEF Server!Call
<1>3. [task |-> t, call |-> c] \in Asked
  BY DEF Asked
<1>4. sendq' \in Seq(Asked) /\ sendq' # <<>> /\ (sendq # <<>> => Head(sendq') = Head(sendq))
  BY <1>1, <1>2, <1>3, EntryComes
<1>5. inside => sendq # <<>> /\ Head(sendq).task \in Others
  BY <1>1 DEF ReleaseInv
<1>6. transport \in {"open", "closed"} /\ closing \in BOOLEAN /\ inside \in BOOLEAN
  BY <1>1 DEF ServerTypes
<1> QED BY <1>1, <1>2, <1>4, <1>5, <1>6, ClientFrame

LEMMA EnterKeeps == ASSUME ServerInv, NEW t \in Others, Server!Enter(t) PROVE ServerInv'
<1>1. ServerTypes /\ BytesKept /\ RequestsInv /\ HookInv /\ ReleaseInv
  BY DEF ServerInv
<1> DEFINE c == Head(sendq).call
<1>2. /\ sendq # <<>> /\ Head(sendq).task = t /\ ~inside
      /\ IF Server!Refused(c) THEN sendq' = Tail(sendq) /\ UNCHANGED <<inside, closing>>
         ELSE inside' = TRUE /\ closing' = (closing \/ c = "close") /\ UNCHANGED sendq
      /\ UNCHANGED <<Server!stream, Server!handler, transport>>
  BY DEF Server!Enter, Server!Holds
<1>3. transport \in {"open", "closed"} /\ closing \in BOOLEAN /\ inside \in BOOLEAN /\ sendq \in Seq(Asked)
  BY <1>1 DEF ServerTypes
<1>4. CASE Server!Refused(c)
  <2>1. sendq' = Tail(sendq) /\ ~inside' /\ closing' = closing
    BY <1>2, <1>4
  <2>2. sendq' \in Seq(Asked)
    BY <1>2, <1>3, <2>1, HeadTailProperties
  <2> QED BY <1>1, <1>2, <1>3, <2>1, <2>2, ClientFrame
<1>5. CASE ~Server!Refused(c)
  <2>1. inside' = TRUE /\ closing' = (closing \/ c = "close") /\ sendq' = sendq
    BY <1>2, <1>5
  <2>2. Head(sendq').call = "send" => ~closing
    BY <1>5, <2>1 DEF Server!Refused
  <2>3. closing' \in BOOLEAN /\ (closing => closing') /\ inside' \in BOOLEAN
    BY <2>1
  <2> QED BY <1>1, <1>2, <1>3, <2>1, <2>2, <2>3, ClientFrame
<1> QED BY <1>4, <1>5

LEMMA FinishKeeps == ASSUME ServerInv, NEW t \in Others, Server!Finish(t) PROVE ServerInv'
<1>1. ServerTypes /\ BytesKept /\ RequestsInv /\ HookInv /\ ReleaseInv
  BY DEF ServerInv
<1>2. /\ sendq # <<>> /\ ~inside' /\ inside' \in BOOLEAN /\ sendq' = Tail(sendq)
      /\ transport' = IF Head(sendq).call = "close" THEN "closed" ELSE transport
      /\ UNCHANGED <<Server!stream, Server!handler, closing>>
  BY DEF Server!Finish, Server!Holds
<1>3. transport \in {"open", "closed"} /\ closing \in BOOLEAN /\ sendq \in Seq(Asked)
  BY <1>1 DEF ServerTypes
<1>4. sendq' \in Seq(Asked)
  BY <1>2, <1>3, HeadTailProperties
<1>5. transport' \in {"open", "closed"} /\ (transport = "closed" => transport' = "closed")
  BY <1>2, <1>3
<1> QED BY <1>1, <1>2, <1>3, <1>4, <1>5, ClientFrame

LEMMA GiveUpKeeps == ASSUME ServerInv, NEW t \in Others, Server!GiveUp(t) PROVE ServerInv'
<1>1. ServerTypes /\ BytesKept /\ RequestsInv /\ HookInv /\ ReleaseInv
  BY DEF ServerInv
<1>2. PICK c \in {"send", "close"} :
        LET asked == [task |-> t, call |-> c]
            in == Head(sendq) = asked /\ inside
        IN
        /\ Server!Contains(sendq, asked) /\ sendq' = Server!RemoveFirst(sendq, asked)
        /\ transport' = IF c = "close" /\ (in \/ ~closing) THEN "closed" ELSE transport
        /\ closing' = (closing \/ c = "close")
        /\ inside' = (inside /\ ~in)
  BY DEF Server!GiveUp
<1> DEFINE asked == [task |-> t, call |-> c]
<1>3. asked \in Asked
  BY DEF Asked
<1>4. /\ sendq' = Server!RemoveFirst(sendq, asked)
      /\ transport' = "closed" \/ transport' = transport
      /\ closing' = (closing \/ c = "close")
      /\ inside' = (inside /\ ~(Head(sendq) = asked /\ inside))
      /\ UNCHANGED <<Server!stream, Server!handler>>
  BY <1>2 DEF Server!GiveUp
<1> HIDE DEF asked
<1>5. transport \in {"open", "closed"} /\ closing \in BOOLEAN /\ inside \in BOOLEAN
  BY <1>1 DEF ServerTypes
<1>6. inside => sendq # <<>> /\ Head(sendq).task \in Others
  BY <1>1 DEF ReleaseInv
<1>7. sendq' \in Seq(Asked) /\ (sendq # <<>> /\ Head(sendq) # asked => sendq' # <<>> /\ Head(sendq') = Head(sendq))
  BY <1>1, <1>3, <1>4, EntryGoes
<1>8. inside' => inside /\ sendq' # <<>> /\ Head(sendq') = Head(sendq)
  BY <1>4, <1>6, <1>7
<1>9. /\ closing' \in BOOLEAN /\ (closing => closing') /\ inside' \in BOOLEAN
      /\ transport' \in {"open", "closed"} /\ (transport = "closed" => transport' = "closed")
  BY <1>4, <1>5
<1> QED BY <1>1, <1>4, <1>6, <1>7, <1>8, <1>9, ClientFrame

-----------------------------------------------------------------------------
(* The task of a client *)

LEMMA ServerStep == ServerInv /\ [Server!Next]_serverVars => ServerInv'
<1> SUFFICES ASSUME ServerInv, [Server!Next]_serverVars PROVE ServerInv'
  OBVIOUS
<1>1. CASE \E n \in 1..2 : Server!Deliver(n)
  BY <1>1, DeliverKeeps
<1>2. CASE \E how \in {"eof", "lost"} : Server!StreamEnds(how)
  BY <1>2, StreamEndsKeeps
<1>3. CASE Server!UserCode
  BY <1>3, UserYieldsKeeps, UserReturnsKeeps, UserRaisesKeeps DEF Server!UserCode
<1>4. CASE Server!GoesOn
  BY <1>4, HookDoneKeeps, LeftKeeps, TransportClosedKeeps, YieldedKeeps, CancelThrownKeeps DEF Server!GoesOn
<1>5. CASE Server!Receives
  BY <1>5, ReceivedKeeps, EndOfStreamKeeps, ReceiveFailsKeeps DEF Server!Receives
<1>6. CASE Server!TimesOut \/ Server!CancelTask
  BY <1>6, TimesOutKeeps, CancelTaskKeeps
<1>7. CASE Server!OthersCall
  BY <1>7, CallKeeps, GiveUpKeeps DEF Server!OthersCall
<1>8. CASE Server!OthersGoOn
  BY <1>8, EnterKeeps, FinishKeeps DEF Server!OthersGoOn
<1>9. CASE UNCHANGED serverVars
  <2>1. UNCHANGED <<into, arrived, ending, inbox, lent, consumer, seen, pc, stage, params, graceful, hook, cancelled,
                    transport, closing, sendq, inside>>
    BY <1>9 DEF serverVars
  <2>2. ServerTypes /\ BytesKept /\ RequestsInv /\ HookInv /\ ReleaseInv
    BY DEF ServerInv
  <2>3. ServerTypes' /\ HookInv' /\ ReleaseInv'
    BY <2>1, <2>2, ControlFrame DEF ServerTypes
  <2>4. BytesKept' /\ RequestsInv'
    BY <2>1, <2>2, BytesFrame
  <2> QED BY <2>3, <2>4 DEF ServerInv
<1> QED BY <1>1, <1>2, <1>3, <1>4, <1>5, <1>6, <1>7, <1>8, <1>9 DEF Server!Next

LEMMA ServerInvariant == ReceptionSpec => []ServerInv
<1>1. ReceptionInit => ServerInv
  BY ServerInit DEF ReceptionInit
<1>2. ServerInv /\ [ReceptionNext]_<<part, vars, jsonVars, packetVars, serverVars>> => ServerInv'
  BY ServerStep DEF ReceptionNext
<1> QED BY <1>1, <1>2, PTL DEF ReceptionSpec

\* __client_coroutine(): when the task of a client ends its hooks were called, a hook for
\* each on_connection() that was over, its transport is closed and its client object
\* refuses to send; nobody is sending still, but for a wait that was cancelled.
THEOREM ClientsAreReleased == ReceptionSpec => []ClientIsReleased
<1>1. ASSUME ServerInv PROVE Server!TypeOK
  <2>1. ServerTypes /\ BytesKept
    BY <1>1 DEF ServerInv
  <2>2. Packets \in Nat /\ arrived \in Nat /\ arrived <= 2 * Packets
    BY <2>1, ServerAssumption DEF Server!ServerParameters, ServerTypes
  <2>3. Len(inbox) \in Nat /\ Len(lent) \in Nat /\ Len(consumer) \in Nat
    BY <2>1, LenProperties DEF BytesKept
  <2>4. Len(inbox) <= 2 * Packets /\ Len(lent) <= 2 /\ Len(consumer) <= 2 * Packets
    BY <2>1, <2>2, <2>3 DEF BytesKept
  <2>5. \A i \in 1..Len(sendq) : sendq[i].task \in Others \cup {Task}
    <3>1. sendq \in Seq(Asked)
      BY <2>1 DEF ServerTypes
    <3>2. \A i \in 1..Len(sendq) : sendq[i] \in Asked
      BY <3>1, ElementOfSeq
    <3>3. \A e \in Asked : e.task \in Others \cup {Task}
      BY DEF Asked
    <3> QED BY <3>2, <3>3
  <2>6. pc \in {"user", "recv", "yield", "hook", "leaving", "closing", "done"} /\ {closing, inside} \subseteq BOOLEAN
    BY <2>1 DEF ServerTypes, Reading, Leaving
  <2> QED BY <2>1, <2>4, <2>5, <2>6, Zenon DEF Server!TypeOK, ServerTypes, Task
<1>2. ASSUME ServerInv PROVE Server!ClientIsReleased
  BY <1>2 DEF ServerInv, HookInv, ReleaseInv, Leaving, Server!ClientIsReleased
<1>3. ServerInv => ClientIsReleased
  BY <1>1, <1>2 DEF ClientIsReleased
<1> QED BY <1>3, ServerInvariant, PTL

\* _RequestReceiver.next(): whatever times out, is cancelled or fails, the packets given to
\* a request handler are those of the peer, in order, once each and whole, and the bytes
\* of the next one are kept, for a transport that does not write in a lent buffer.
THEOREM RequestsAreIntact == ReceptionSpec => []Server!RequestsIntact
<1>1. ServerInv => Server!RequestsIntact
  <2> SUFFICES ASSUME ServerInv, ~into PROVE Server!InOrder /\ Server!Position = arrived
    BY DEF Server!RequestsIntact
  <2>1. ServerTypes /\ BytesKept /\ RequestsInv /\ BytesFollow
    BY DEF ServerInv, RequestsInv
  <2>2. 2 * Len(seen) + Len(consumer \o lent \o inbox) = arrived
    BY <2>1, ReceivedBytes
  <2>3. Len(seen) \in Nat /\ Len(consumer \o lent \o inbox) \in Nat
    BY <2>1, ReceivedBytes, LenProperties DEF BytesFollow
  <2> QED BY <2>1, <2>2, <2>3 DEF BytesFollow, Server!Position
<1> QED BY <1>1, ServerInvariant, PTL

-----------------------------------------------------------------------------
(* The frames of a stream *)

\* No frame ends after a, up to b.
Clear(a, b) == \A e \in Ends : ~(a < e /\ e <= b)

LEMMA SeparatorFacts ==
  SepLen = 2 /\ Separator[1] # Separator[2] /\ Limit \in Nat /\ Limit > 2 /\ StreamLength \in Nat
BY Parameters DEF SepLen

LEMMA EndsAre ==
  /\ Ends = {e \in 2..StreamLength : stream[e - 1] = Separator[1] /\ stream[e] = Separator[2]}
  /\ Ends \subseteq Nat /\ \A e \in Ends : e + 1 \notin Ends
<1>1. \A e \in 2..StreamLength :
        (\A j \in 1..2 : stream[e - 2 + j] = Separator[j]) <=> stream[e - 1] = Separator[1] /\ stream[e] = Separator[2]
  <2> TAKE e \in 2..StreamLength
  <2>1. e - 2 + 1 = e - 1 /\ e - 2 + 2 = e
    BY SeparatorFacts
  <2>2. \A j \in 1..2 : j = 1 \/ j = 2
    OBVIOUS
  <2>3. 1 \in 1..2 /\ 2 \in 1..2
    OBVIOUS
  <2> QED BY <2>1, <2>2, <2>3, Zenon
<1>2. Ends = {e \in 2..StreamLength : stream[e - 1] = Separator[1] /\ stream[e] = Separator[2]}
  BY <1>1, SeparatorFacts DEF Ends
<1>3. \A e \in Ends : e + 1 \notin Ends
  <2> SUFFICES ASSUME NEW e \in Ends, e + 1 \in Ends PROVE FALSE
    OBVIOUS
  <2>1. stream[e] = Separator[2] /\ stream[(e + 1) - 1] = Separator[1] /\ e \in 2..StreamLength
    BY <1>2
  <2>2. (e + 1) - 1 = e
    BY <2>1, SeparatorFacts
  <2> QED BY <2>1, <2>2, SeparatorFacts
<1>4. Ends \subseteq Nat
  BY <1>2, SeparatorFacts
<1> QED BY <1>2, <1>3, <1>4

LEMMA FoundAre ==
  ASSUME NEW base \in Nat, NEW n \in Nat, base + n <= StreamLength, NEW buf, \A i \in 1..n : buf[i] = base + i,
         NEW o \in Nat
  PROVE  \A i : i \in Found(buf, o, n) <=> i \in o..(n - 2) /\ base + i + 2 \in Ends
<1>1. ASSUME NEW i \in o..(n - 2)
      PROVE  (\A j \in 1..2 : IsSep(buf, i + j, j)) <=> base + i + 2 \in Ends
  <2>1. /\ i + 1 \in 1..n /\ i + 2 \in 1..n /\ base + i + 2 \in 2..StreamLength
        /\ base + (i + 1) = (base + i + 2) - 1 /\ base + (i + 2) = base + i + 2
        /\ base + (i + 1) # 0 /\ base + (i + 2) # 0
    BY SeparatorFacts
  <2>2. buf[i + 1] = (base + i + 2) - 1 /\ buf[i + 2] = base + i + 2 /\ buf[i + 1] # 0 /\ buf[i + 2] # 0
    BY <2>1
  <2>3. IsSep(buf, i + 1, 1) <=> stream[(base + i + 2) - 1] = Separator[1]
    BY <2>2 DEF IsSep
  <2>4. IsSep(buf, i + 2, 2) <=> stream[base + i + 2] = Separator[2]
    BY <2>2 DEF IsSep
  <2>5. (\A j \in 1..2 : IsSep(buf, i + j, j)) <=> IsSep(buf, i + 1, 1) /\ IsSep(buf, i + 2, 2)
    <3>1. \A j \in 1..2 : j = 1 \/ j = 2
      OBVIOUS
    <3>2. 1 \in 1..2 /\ 2 \in 1..2
      OBVIOUS
    <3> QED BY <3>1, <3>2, Zenon
  <2> QED BY <2>1, <2>3, <2>4, <2>5, EndsAre
<1>2. Found(buf, o, n) = {i \in o..(n - 2) : \A j \in 1..2 : IsSep(buf, i + j, j)}
  BY SeparatorFacts DEF Found
<1> QED BY <1>1, <1>2

\* What a parser finds in n bytes that follow base: the first frame, or nothing, and then
\* none ends there.
Tells(out, base, n, lim) ==
  \/ \E m \in Nat : out = More(m) /\ Clear(base, base + m + 1) /\ Clear(base, base + n)
  \/ \E m \in 0..(n - 2) : out = Packet(m) /\ base + m + 2 \in Ends /\ Clear(base, base + m + 1)
  \/ \E m \in 0..(n - 2) : out = Overrun(m) /\ m > Limit /\ base + m + 2 \in Ends /\ Clear(base, base + m + 1)
  \/ out = Overrun(n - 1) /\ n >= 2 /\ n - 1 > lim /\ Clear(base, base + n)

LEMMA OutcomeIs ==
  ASSUME NEW base \in Nat, NEW n \in Nat, base + n <= StreamLength, NEW buf, \A i \in 1..n : buf[i] = base + i,
         NEW o \in Nat, NEW lim \in Int, Clear(base, base + o + 1)
  PROVE  Tells(Outcome(buf, o, n, lim), base, n, lim)
<1> DEFINE found == Found(buf, o, n)
<1>1. \A i : i \in found <=> i \in o..(n - 2) /\ base + i + 2 \in Ends
  BY FoundAre
<1>2. found \subseteq Nat
  BY <1>1
<1>3. SepLen = 2 /\ Ends \subseteq Nat
  BY SeparatorFacts, EndsAre
<1>4. Outcome(buf, o, n, lim) =
        CASE n - o < 2 -> More(o)
          [] found # {} -> IF Min(found) > Limit THEN Overrun(Min(found)) ELSE Packet(Min(found))
          [] OTHER -> IF NextOffset(n) > lim THEN Overrun(NextOffset(n)) ELSE More(NextOffset(n))
  BY <1>3 DEF Outcome
<1> HIDE DEF found
<1>5. CASE n - o < 2
  <2>1. found = {}
    BY <1>1, <1>5
  <2>2. Outcome(buf, o, n, lim) = More(o)
    BY <1>4, <1>5, <2>1, Zenon
  <2>3. Clear(base, base + n)
    BY <1>3, <1>5 DEF Clear
  <2> QED BY <2>2, <2>3 DEF Tells
<1>6. CASE ~(n - o < 2) /\ found # {}
  <2>1. Min(found) \in found /\ \A i \in found : Min(found) <= i
    BY <1>2, <1>6, MinOfNaturals
  <2> DEFINE m == Min(found)
  <2>2. Outcome(buf, o, n, lim) = IF m > Limit THEN Overrun(m) ELSE Packet(m)
    BY <1>4, <1>6, Zenon
  <2> HIDE DEF m
  <2>3. m \in 0..(n - 2) /\ base + m + 2 \in Ends /\ m >= o /\ m \in Nat
    BY <1>1, <2>1 DEF m
  <2>4. Clear(base, base + m + 1)
    <3> SUFFICES ASSUME NEW e \in Ends, base < e, e <= base + m + 1 PROVE FALSE
      BY DEF Clear
    <3>1. e \in Nat /\ e > base + o + 1
      BY <1>3 DEF Clear
    <3> DEFINE i == e - base - 2
    <3>2. i \in o..(n - 2) /\ base + i + 2 = e /\ i < m
      BY <2>3, <3>1
    <3>3. i \in found
      BY <1>1, <3>2
    <3>4. m <= i
      BY <2>1, <3>3 DEF m
    <3> QED BY <2>3, <3>2, <3>4
  <2> QED BY <2>2, <2>3, <2>4, Zenon DEF Tells
<1>7. CASE ~(n - o < 2) /\ found = {}
  <2>1. Outcome(buf, o, n, lim) = IF NextOffset(n) > lim THEN Overrun(NextOffset(n)) ELSE More(NextOffset(n))
    BY <1>4, <1>7, Zenon
  <2>2. NextOffset(n) = n - 1 /\ n >= 2 /\ n - 1 \in Nat /\ base + (n - 1) + 1 = base + n
    BY <1>3, <1>7 DEF NextOffset
  <2>3. Clear(base, base + n)
    <3> SUFFICES ASSUME NEW e \in Ends, base < e, e <= base + n PROVE FALSE
      BY DEF Clear
    <3>1. e \in Nat /\ e > base + o + 1
      BY <1>3 DEF Clear
    <3> DEFINE i == e - base - 2
    <3>2. i \in o..(n - 2) /\ base + i + 2 = e
      BY <3>1
    <3> QED BY <1>1, <1>7, <3>2
  <2> QED BY <2>1, <2>2, <2>3, Zenon DEF Tells
<1> QED BY <1>5, <1>6, <1>7

\* A frame that begins after b is longer than what holds no end.
LEMMA LongFrame ==
  ASSUME NEW b \in Nat, NEW q \in Nat, b + q <= StreamLength, Clear(b, b + q)
  PROVE  LengthFrom(b + 1) \in Int /\ LengthFrom(b + 1) >= q + 1
<1>1. Ends \subseteq Nat /\ SepLen = 2 /\ StreamLength \in Nat
  BY EndsAre, SeparatorFacts
<1> DEFINE S == {e \in Ends : e >= b + 1}
<1>2. CASE \E e \in Ends : e >= b + 1
  <2>1. LengthFrom(b + 1) = Min(S) - (b + 1) + 1
    BY <1>2 DEF LengthFrom
  <2>2. S \subseteq Nat /\ S # {}
    BY <1>1, <1>2
  <2>3. Min(S) \in S
    BY <2>2, MinOfNaturals
  <2>4. PICK e \in S : e = Min(S)
    BY <2>3
  <2>5. e \in Ends /\ e \in Nat /\ b < e
    BY <1>1
  <2>6. e >= b + q + 1
    BY <2>5 DEF Clear
  <2> QED BY <2>1, <2>4, <2>5, <2>6
<1>3. CASE ~\E e \in Ends : e >= b + 1
  <2>1. LengthFrom(b + 1) = StreamLength - (b + 1) + 1 + (IF stream[StreamLength] = Separator[1] THEN 1 ELSE 2)
    BY <1>1, <1>3 DEF LengthFrom
  <2> QED BY <1>1, <2>1
<1> QED BY <1>2, <1>3

LEMMA RestProperties ==
  ASSUME NEW s \in Seq(Nat), NEW k \in 0..Len(s)
  PROVE  /\ Rest(s, k) \in Seq(Nat) /\ Len(Rest(s, k)) = Len(s) - k /\ Len(s) \in Nat
         /\ \A i \in 1..(Len(s) - k) : Rest(s, k)[i] = s[k + i]
<1>1. Len(s) \in Nat /\ \A i \in (k + 1)..Len(s) : s[i] \in Nat
  BY LenProperties, ElementOfSeq
<1> DEFINE m == k + 1
           n == Len(s)
<1>2. m \in Int /\ n \in Int /\ \A i \in m..n : s[i] \in Nat
  BY <1>1
<1> HIDE DEF m, n
<1>3. /\ SubSeq(s, m, n) \in Seq(Nat) /\ Len(SubSeq(s, m, n)) = IF m <= n THEN n - m + 1 ELSE 0
      /\ \A i \in 1..(n - m + 1) : SubSeq(s, m, n)[i] = s[m + i - 1]
  BY <1>2, SubSeqProperties
<1>4. n - m + 1 = n - k /\ (IF m <= n THEN n - m + 1 ELSE 0) = n - k /\ \A i \in 1..(n - k) : m + i - 1 = k + i
  BY <1>1 DEF m, n
<1>5. Rest(s, k) = SubSeq(s, m, n)
  BY DEF Rest, m, n
<1> QED BY <1>1, <1>3, <1>4, <1>5 DEF n

LEMMA RestOfRest ==
  ASSUME NEW s \in Seq(Nat), NEW k \in 0..Len(s), NEW l \in 0..(Len(s) - k)
  PROVE  Rest(Rest(s, k), l) = Rest(s, k + l)
<1> DEFINE r == Rest(s, k)
<1>1. /\ r \in Seq(Nat) /\ Len(r) = Len(s) - k /\ Len(s) \in Nat
      /\ \A i \in 1..(Len(s) - k) : r[i] = s[k + i]
  BY RestProperties
<1> HIDE DEF r
<1>2. /\ Rest(r, l) \in Seq(Nat) /\ Len(Rest(r, l)) = Len(r) - l
      /\ \A i \in 1..(Len(r) - l) : Rest(r, l)[i] = r[l + i]
  BY <1>1, RestProperties
<1>3. k + l \in 0..Len(s)
  BY <1>1
<1>4. /\ Rest(s, k + l) \in Seq(Nat) /\ Len(Rest(s, k + l)) = Len(s) - (k + l)
      /\ \A i \in 1..(Len(s) - (k + l)) : Rest(s, k + l)[i] = s[k + l + i]
  BY <1>3, RestProperties
<1>5. Len(Rest(r, l)) = Len(Rest(s, k + l))
  BY <1>1, <1>2, <1>4
<1>6. \A i \in 1..Len(Rest(r, l)) : Rest(r, l)[i] = Rest(s, k + l)[i]
  <2> TAKE i \in 1..Len(Rest(r, l))
  <2>1. i \in 1..(Len(r) - l) /\ l + i \in 1..(Len(s) - k) /\ i \in 1..(Len(s) - (k + l)) /\ k + (l + i) = k + l + i
    BY <1>1, <1>2
  <2> QED BY <1>1, <1>2, <1>4, <2>1
<1>7. Rest(r, l) = Rest(s, k + l)
  BY <1>2, <1>4, <1>5, <1>6, SeqEqual
<1> QED BY <1>7 DEF r

\* What an error keeps: what follows a separator, or what may be the beginning of one.
LEMMA RemainingIs ==
  ASSUME NEW s \in Seq(Nat), NEW k \in 0..Len(s)
  PROVE  /\ Len(s) - k >= 2 /\ StartsLikeSep(Rest(s, k)) => Remaining(s, k) = Rest(s, k + 2)
         /\ ~(Len(s) - k >= 2 /\ StartsLikeSep(Rest(s, k))) =>
              \E m \in k..Len(s) :
                Remaining(s, k) = Rest(s, m) /\ \A l \in k..(m - 1) : ~StartsLikeSep(Rest(s, l))
<1> DEFINE data == Rest(s, k)
           S == {l \in 0..Len(data) : StartsLikeSep(Rest(data, l))}
<1>1. data \in Seq(Nat) /\ Len(data) = Len(s) - k /\ Len(s) \in Nat /\ SepLen = 2
  BY RestProperties, SeparatorFacts
<1>2. Remaining(s, k) = IF Len(data) >= 2 /\ StartsLikeSep(data) THEN Rest(data, 2) ELSE Rest(data, Min(S))
  BY <1>1 DEF Remaining
<1>3. ASSUME NEW l \in 0..Len(data) PROVE Rest(data, l) = Rest(s, k + l)
  BY <1>1, <1>3, RestOfRest
<1>4. CASE Len(data) >= 2 /\ StartsLikeSep(data)
  <2>1. Remaining(s, k) = Rest(s, k + 2)
    BY <1>1, <1>2, <1>3, <1>4
  <2> QED BY <1>1, <1>4, <2>1
<1>5. CASE ~(Len(data) >= 2 /\ StartsLikeSep(data))
  <2>1. Len(data) \in S /\ S \subseteq Nat
    <3>0. Len(data) \in 0..Len(data)
      BY <1>1
    <3>1. Len(Rest(data, Len(data))) = 0
      <4> HIDE DEF data
      <4>1. Len(Rest(data, Len(data))) = Len(data) - Len(data)
        BY <1>1, <3>0, RestProperties
      <4> QED BY <1>1, <4>1
    <3>2. StartsLikeSep(Rest(data, Len(data)))
      BY <1>1, <3>1 DEF StartsLikeSep
    <3> QED BY <1>1, <3>2
  <2>2. Min(S) \in S /\ \A l \in S : Min(S) <= l
    BY <2>1, MinOfNaturals
  <2> DEFINE m == k + Min(S)
  <2>3. m \in k..Len(s) /\ Remaining(s, k) = Rest(s, m)
    BY <1>1, <1>2, <1>3, <1>5, <2>2
  <2>4. Min(S) <= Len(data) /\ Min(S) \in Nat
    BY <2>1, <2>2
  <2>5. \A l \in k..(m - 1) : ~StartsLikeSep(Rest(s, l))
    <3> TAKE l \in k..(m - 1)
    <3> HIDE DEF data, S
    <3>0. PICK n \in Nat : n = Len(data)
      <4>1. Len(data) \in Nat
        BY <1>1, LenProperties, Zenon
      <4> QED BY <4>1, Zenon
    <3>1. l - k \in 0..n /\ l - k < Min(S) /\ k + (l - k) = l
      <4>1. PICK v \in Nat : v = Min(S) /\ v <= n
        BY <2>4, <3>0
      <4>2. l \in k..(k + v - 1)
        BY <4>1
      <4> QED BY <4>1, <4>2
    <3>2. Rest(data, l - k) = Rest(s, l)
      BY <1>3, <3>0, <3>1, Zenon
    <3>3. l - k \notin S
      <4>1. PICK v \in Nat : v = Min(S)
        BY <2>4
      <4>2. PICK j \in Int : j = l - k
        OBVIOUS
      <4>3. j < v /\ (j \in S => v <= j)
        BY <2>2, <3>1, <4>1, <4>2
      <4> QED BY <4>1, <4>2, <4>3
    <3> QED BY <3>0, <3>1, <3>2, <3>3 DEF S
  <2> QED BY <1>1, <1>5, <2>3, <2>5
<1> QED BY <1>4, <1>5

\* How many bytes are kept for the packet to come, and where they begin in the stream.
Kept == IF mode = "chunks" THEN Len(buffer) ELSE written + already
Base == received - Kept

\* The bytes that are kept are the last ones received.  A buffer that the transport
\* writes in also holds older ones.
ChunksKept == Following(buffer, Base) /\ (~active => offset = 0)
Holds(mem, n, base) ==
  /\ mem \in [1..Limit -> Nat]
  /\ \A i \in 1..n : mem[i] = base + i
  /\ \A i \in (n + 1)..Limit : mem[i] <= base
BufferKept ==
  /\ written \in Nat /\ already \in Nat /\ written + already <= Limit
  /\ ~active => written = 0 /\ already = 0
  /\ IF buffer = <<>> THEN ~active ELSE Holds(buffer, written + already, Base)
KeptInv ==
  /\ received \in 0..StreamLength /\ Kept \in 0..received /\ offset \in Nat
  /\ mode = "chunks" => ChunksKept
  /\ mode = "buffered" => BufferKept

\* What the parser has searched has no end of a frame; a task that waits has searched all.
Searched == IF mode = "chunks" THEN active \/ buffer = <<>> ELSE ~active \/ already = 0
SearchInv ==
  /\ Clear(Base, Base + offset + 1)
  /\ Searched => Clear(Base, received)
  /\ at = "receiving" => Searched

\* The packets up to the byte b: each one ends with a frame, holds the end of no other,
\* and begins after the one before, at once unless bytes between them were refused.
EndAt(i) == IF i = 0 THEN 0 ELSE Last(delivered[i])
PacketFrom(i, a) ==
  /\ Following(delivered[i], a) /\ Len(delivered[i]) = EndAt(i) - a
  /\ EndAt(i) \in Ends /\ Clear(a, EndAt(i) - 1)
  /\ refused = {} => a = EndAt(i - 1)
PacketsUpto(b) ==
  /\ delivered \in Seq(Seq(Nat))
  /\ \A i \in 1..Len(delivered) : \E a \in EndAt(i - 1)..(EndAt(i) - 1) : PacketFrom(i, a)
  /\ \A i \in 0..Len(delivered) : EndAt(i) \in 0..b
  /\ refused = {} => EndAt(Len(delivered)) = b
  /\ refused \subseteq 1..b
  /\ \A x \in 1..b : x \in refused <=> ~\E i \in 1..Len(delivered) : x \in Range(delivered[i])
PacketsInv == \E b \in Nat : b = Base /\ PacketsUpto(b)

Sure == mode = "chunks" \/ refused = {}
FramesInv == mode \in {"chunks", "buffered"} /\ (Sure => KeptInv /\ SearchInv /\ PacketsInv)

LEMMA EndsStay == UNCHANGED <<mode, stream>> => Ends' = Ends
BY DEF Ends

LEMMA RangeOfFollowing ==
  ASSUME NEW a \in Nat, NEW s, Following(s, a)
  PROVE  Len(s) \in Nat /\ \A x : x \in Range(s) <=> x \in (a + 1)..(a + Len(s))
<1>1. s \in Seq(Nat) /\ Len(s) \in Nat /\ DOMAIN s = 1..Len(s)
  BY LenProperties DEF Following
<1>2. \A x : x \in Range(s) <=> \E i \in 1..Len(s) : s[i] = x
  BY <1>1 DEF Range
<1>3. ASSUME NEW x \in (a + 1)..(a + Len(s)) PROVE x \in Range(s)
  <2>1. x - a \in 1..Len(s) /\ a + (x - a) = x
    BY <1>1
  <2> QED BY <1>2, <2>1 DEF Following
<1>4. ASSUME NEW x \in Range(s) PROVE x \in (a + 1)..(a + Len(s))
  <2>1. PICK i \in 1..Len(s) : s[i] = x
    BY <1>2
  <2> QED BY <1>1, <2>1 DEF Following
<1> QED BY <1>1, <1>3, <1>4

\* The next frame is delivered.
LEMMA PacketDelivered ==
  ASSUME NEW b \in Nat, PacketsUpto(b), UNCHANGED <<mode, stream>>, NEW s, Following(s, b), Len(s) >= 1,
         b + Len(s) \in Ends, Clear(b, b + Len(s) - 1), delivered' = Append(delivered, s), refused' = refused,
         NEW c, c = b + Len(s)
  PROVE  PacketsUpto(c)'
<1>n. PICK n \in Nat : n = Len(delivered)
  BY LenProperties DEF PacketsUpto
<1>0. Ends' = Ends
  BY EndsStay
<1>1. n \in Nat /\ delivered \in Seq(Seq(Nat)) /\ s \in Seq(Nat) /\ Len(s) \in Nat /\ c \in Nat
  BY <1>n, LenProperties DEF PacketsUpto, Following
<1>2. /\ delivered' \in Seq(Seq(Nat)) /\ Len(delivered') = n + 1
      /\ \A i \in 1..n : delivered'[i] = delivered[i]
      /\ delivered'[n + 1] = s
  BY <1>n, <1>1, AppendProperties
<1>3. Last(s) = c
  BY <1>1 DEF Following, Last
<1>4. EndAt(n + 1)' = c /\ \A i \in 0..n : EndAt(i)' = EndAt(i)
  <2>1. ASSUME NEW i \in 0..n PROVE EndAt(i)' = EndAt(i)
    BY <1>1, <1>2 DEF EndAt
  <2>2. EndAt(n + 1)' = c
    BY <1>1, <1>2, <1>3 DEF EndAt
  <2> QED BY <2>1, <2>2
<1>5. (\A i \in 0..n : EndAt(i) \in 0..b) /\ EndAt(n) \in 0..b /\ (refused = {} => EndAt(n) = b)
  BY <1>n, <1>1 DEF PacketsUpto
<1>6. ASSUME NEW i \in 1..(n + 1) PROVE \E a \in EndAt(i - 1)'..(EndAt(i)' - 1) : PacketFrom(i, a)'
  <2>1. CASE i \in 1..n
    <3>1. PICK a \in EndAt(i - 1)..(EndAt(i) - 1) : PacketFrom(i, a)
      BY <1>n, <2>1 DEF PacketsUpto
    <3>2. EndAt(i)' = EndAt(i) /\ EndAt(i - 1)' = EndAt(i - 1) /\ delivered'[i] = delivered[i]
      BY <1>1, <1>2, <1>4, <2>1
    <3>3. PacketFrom(i, a)'
      BY <1>0, <3>1, <3>2 DEF PacketFrom, Clear, Following
    <3> QED BY <3>1, <3>2, <3>3
  <2>2. CASE i = n + 1
    <3>1. i - 1 = n
      BY <1>1, <2>2
    <3>2. EndAt(i)' = c /\ EndAt(i - 1)' = EndAt(n) /\ delivered'[i] = s
      BY <1>1, <1>2, <1>4, <2>2, <3>1
    <3>3. b \in EndAt(i - 1)'..(EndAt(i)' - 1) /\ Len(s) = c - b
      BY <1>1, <1>5, <3>2
    <3>4. PacketFrom(i, b)'
      BY <1>0, <1>5, <3>2, <3>3 DEF PacketFrom, Clear, Following
    <3> QED BY <3>3, <3>4
  <2> QED BY <1>1, <2>1, <2>2
<1>7. \A x : x \in Range(s) <=> x \in (b + 1)..c
  BY RangeOfFollowing
<1>8. ASSUME NEW x \in 1..c PROVE x \in refused' <=> ~\E i \in 1..(n + 1) : x \in Range(delivered'[i])
  <2>1. (\E i \in 1..(n + 1) : x \in Range(delivered'[i])) <=>
          (\E i \in 1..n : x \in Range(delivered[i])) \/ x \in Range(s)
    <3>1. \A i \in 1..(n + 1) : i \in 1..n \/ i = n + 1
      BY <1>1
    <3>2. n + 1 \in 1..(n + 1) /\ \A i \in 1..n : i \in 1..(n + 1)
      BY <1>1
    <3> QED BY <1>2, <3>1, <3>2
  <2>2. CASE x \in 1..b
    <3>1. x \in refused <=> ~\E i \in 1..n : x \in Range(delivered[i])
      BY <1>n, <2>2 DEF PacketsUpto
    <3>2. x \notin Range(s)
      BY <1>7, <2>2
    <3> QED BY <2>1, <3>1, <3>2
  <2>3. CASE x \notin 1..b
    <3>1. x \in (b + 1)..c
      BY <1>1, <2>3
    <3>2. x \in Range(s) /\ x \notin refused
      BY <1>n, <1>7, <2>3, <3>1 DEF PacketsUpto
    <3> QED BY <2>1, <3>2
  <2> QED BY <2>2, <2>3
<1>9. refused' \subseteq 1..c
  BY <1>n, <1>1 DEF PacketsUpto
<1>10. ASSUME NEW i \in 0..(n + 1) PROVE EndAt(i)' \in 0..c
  <2>1. i \in 0..n \/ i = n + 1
    BY <1>1
  <2> QED BY <1>1, <1>4, <1>5, <2>1
<1> QED BY <1>n, <1>2, <1>4, <1>6, <1>8, <1>9, <1>10 DEF PacketsUpto

\* Bytes are refused.
LEMMA BytesRefused ==
  ASSUME NEW b \in Nat, PacketsUpto(b), UNCHANGED <<mode, stream, delivered>>, NEW m \in Nat, m >= 1,
         \A x : x \in refused' <=> x \in refused \/ x \in (b + 1)..(b + m), NEW c, c = b + m
  PROVE  PacketsUpto(c)'
<1>n. PICK n \in Nat : n = Len(delivered)
  BY LenProperties DEF PacketsUpto
<1>0. Ends' = Ends
  BY EndsStay
<1>1. n \in Nat /\ c \in Nat /\ delivered \in Seq(Seq(Nat))
  BY <1>n, LenProperties DEF PacketsUpto
<1>2. \A i : EndAt(i)' = EndAt(i)
  BY DEF EndAt
<1>3. refused' # {}
  <2>1. b + 1 \in (b + 1)..(b + m)
    OBVIOUS
  <2> QED BY <2>1
<1>4. ASSUME NEW i \in 1..n PROVE \E a \in EndAt(i - 1)'..(EndAt(i)' - 1) : PacketFrom(i, a)'
  <2>1. PICK a \in EndAt(i - 1)..(EndAt(i) - 1) : PacketFrom(i, a)
    BY <1>n DEF PacketsUpto
  <2>2. PacketFrom(i, a)'
    BY <1>0, <1>2, <1>3, <2>1 DEF PacketFrom, Clear, Following
  <2> QED BY <1>2, <2>1, <2>2
<1>5. \A i \in 0..n : EndAt(i) \in 0..b
  BY <1>n DEF PacketsUpto
<1>6. ASSUME NEW x \in 1..c PROVE x \in refused' <=> ~\E i \in 1..n : x \in Range(delivered[i])
  <2>1. CASE x \in 1..b
    <3>1. x \notin (b + 1)..(b + m)
      BY <2>1
    <3> QED BY <1>n, <2>1, <3>1 DEF PacketsUpto
  <2>2. CASE x \notin 1..b
    <3>1. x \in (b + 1)..(b + m) /\ x > b
      BY <2>2
    <3>2. ASSUME NEW i \in 1..n PROVE x \notin Range(delivered[i])
      <4>1. PICK a \in EndAt(i - 1)..(EndAt(i) - 1) : PacketFrom(i, a)
        BY <1>n DEF PacketsUpto
      <4>2. i \in 0..n /\ i - 1 \in 0..n
        BY <1>1
      <4>3. EndAt(i) \in 0..b /\ EndAt(i - 1) \in 0..b
        BY <1>5, <4>2
      <4>4. a \in Nat
        BY <4>1, <4>3
      <4>5. Following(delivered[i], a) /\ Len(delivered[i]) = EndAt(i) - a
        BY <4>1 DEF PacketFrom
      <4>6. \A y : y \in Range(delivered[i]) <=> y \in (a + 1)..(a + Len(delivered[i]))
        BY <4>4, <4>5, RangeOfFollowing
      <4>7. a + Len(delivered[i]) = EndAt(i)
        BY <4>3, <4>4, <4>5
      <4> QED BY <3>1, <4>3, <4>4, <4>6, <4>7
    <3> QED BY <3>1, <3>2
  <2> QED BY <2>1, <2>2
<1>7. refused' \subseteq 1..c /\ \A i \in 0..n : EndAt(i)' \in 0..c
  <2>1. \A y : y \in 1..b \/ y \in (b + 1)..(b + m) => y \in 1..c
    BY <1>1
  <2>2. \A y : y \in 0..b => y \in 0..c
    BY <1>1
  <2> QED BY <1>n, <1>2, <1>5, <2>1, <2>2 DEF PacketsUpto
<1> QED BY <1>n, <1>1, <1>2, <1>3, <1>4, <1>6, <1>7 DEF PacketsUpto

LEMMA FirstBytes ==
  ASSUME NEW b \in Nat, NEW k \in Nat, NEW mem, \A i \in 1..k : mem[i] = b + i
  PROVE  Following(SubSeq(mem, 1, k), b) /\ Len(SubSeq(mem, 1, k)) = k
<1>1. 1 \in Int /\ k \in Int /\ (\A i \in 1..k : mem[i] \in Nat) /\ k - 1 + 1 = k /\ \A i \in 1..k : 1 + i - 1 = i
  OBVIOUS
<1>2. /\ SubSeq(mem, 1, k) \in Seq(Nat) /\ Len(SubSeq(mem, 1, k)) = IF 1 <= k THEN k - 1 + 1 ELSE 0
      /\ \A i \in 1..(k - 1 + 1) : SubSeq(mem, 1, k)[i] = mem[1 + i - 1]
  BY <1>1, SubSeqProperties
<1>3. Len(SubSeq(mem, 1, k)) = k
  BY <1>2
<1>4. \A i \in 1..k : SubSeq(mem, 1, k)[i] = b + i
  BY <1>1, <1>2
<1> QED BY <1>2, <1>3, <1>4 DEF Following

\* The two bytes of a separator differ: no frame ends where one has just ended.
LEMMA ClearAfter == ASSUME NEW c \in Nat, c \in Ends PROVE Clear(c, c + 1)
<1> SUFFICES ASSUME NEW e \in Ends, c < e, e <= c + 1 PROVE FALSE
  BY DEF Clear
<1>1. e = c + 1
  BY EndsAre
<1> QED BY <1>1, EndsAre

LEMMA RestFollows ==
  ASSUME NEW b \in Nat, NEW s, Following(s, b), NEW k \in 0..Len(s)
  PROVE  Following(Rest(s, k), b + k) /\ Len(Rest(s, k)) = Len(s) - k /\ Len(s) \in Nat
<1>1. s \in Seq(Nat) /\ \A i \in 1..Len(s) : s[i] = b + i
  BY DEF Following
<1>2. /\ Rest(s, k) \in Seq(Nat) /\ Len(Rest(s, k)) = Len(s) - k /\ Len(s) \in Nat
      /\ \A i \in 1..(Len(s) - k) : Rest(s, k)[i] = s[k + i]
  BY <1>1, RestProperties
<1>3. ASSUME NEW i \in 1..(Len(s) - k) PROVE Rest(s, k)[i] = (b + k) + i
  <2>1. k + i \in 1..Len(s) /\ b + (k + i) = (b + k) + i
    BY <1>2
  <2> QED BY <1>1, <1>2, <2>1
<1> QED BY <1>2, <1>3 DEF Following

LEMMA PacketsStay ==
  ASSUME NEW b, PacketsUpto(b), UNCHANGED <<mode, stream, delivered, refused>>
  PROVE  PacketsUpto(b)'
<1>1. Ends' = Ends
  BY EndsStay
<1>2. \A i : EndAt(i)' = EndAt(i)
  BY DEF EndAt
<1>3. \A i, a : PacketFrom(i, a)' <=> PacketFrom(i, a)
  BY <1>1, <1>2 DEF PacketFrom, Clear, Following
<1> QED BY <1>2, <1>3 DEF PacketsUpto

-----------------------------------------------------------------------------
(* A step of the parser of chunks *)

\* What it keeps when it is done with a packet, or refuses one.
LEMMA ChunkLeft ==
  ASSUME mode = "chunks", UNCHANGED <<mode, stream>>, NEW b \in Nat, NEW data, Following(data, b),
         received' = b + Len(data), received' \in 0..StreamLength, NEW k \in 1..Len(data), buffer' = Rest(data, k),
         offset' = 0, active' = FALSE, at' = "idle", NEW c, c = b + k, Clear(c, c + 1), PacketsUpto(c)'
  PROVE  FramesInv'
<1>0. Ends' = Ends /\ Ends \subseteq Nat
  BY EndsStay, EndsAre
<1>1. Following(buffer', c) /\ Len(buffer') = Len(data) - k /\ Len(data) \in Nat /\ c \in Nat
  <2>1. k \in 0..Len(data)
    OBVIOUS
  <2> QED BY <2>1, RestFollows
<1>2. Kept' = Len(data) - k /\ Base' = c /\ Kept' \in 0..received'
  BY <1>1 DEF Kept, Base
<1>3. KeptInv'
  BY <1>1, <1>2 DEF KeptInv, ChunksKept, Following
<1>4. SearchInv'
  <2>1. Clear(c, c + 0 + 1)'
    BY <1>0, <1>1 DEF Clear
  <2>2. Searched' => received' = c
    <3>1. Searched' => buffer' = <<>>
      BY DEF Searched
    <3>2. Searched' => Len(buffer') = 0
      BY <3>1, EmptySeq
    <3> QED BY <1>1, <3>2
  <2>3. PICK r : r = received'
    OBVIOUS
  <2>4. Searched' => Clear(c, r)'
    BY <1>0, <1>1, <2>2, <2>3 DEF Clear
  <2>5. Clear(Base, received)' <=> Clear(c, r)'
    BY <1>2, <2>3 DEF Clear
  <2>6. Clear(Base, Base + offset + 1)' <=> Clear(c, c + 0 + 1)'
    BY <1>2 DEF Clear
  <2> QED BY <2>1, <2>4, <2>5, <2>6 DEF SearchInv
<1>5. PacketsInv'
  BY <1>1, <1>2 DEF PacketsInv
<1> QED BY <1>3, <1>4, <1>5 DEF FramesInv

\* Packets are refused for their length only.
TooLong == mode = "chunks" /\ LengthFrom(Min(refused' \ refused)) > Limit + SepLen

LEMMA ChunkRefused ==
  ASSUME mode = "chunks", UNCHANGED <<mode, stream, delivered>>, NEW b \in Nat, NEW data, Following(data, b),
         received' = b + Len(data), received' \in 0..StreamLength, NEW k \in 1..Len(data), buffer' = Rest(data, k),
         refused' = refused \cup (Range(data) \ Range(Rest(data, k))),
         offset' = 0, active' = FALSE, at' = "idle", Clear(b + k, b + k + 1), PacketsUpto(b),
         LengthFrom(b + 1) > Limit + 2
  PROVE  FramesInv' /\ TooLong
<1>1. Following(Rest(data, k), b + k) /\ Len(Rest(data, k)) = Len(data) - k /\ Len(data) \in Nat
  <2>1. k \in 0..Len(data)
    OBVIOUS
  <2> QED BY <2>1, RestFollows
<1>2. \A x : x \in Range(data) <=> x \in (b + 1)..(b + Len(data))
  BY RangeOfFollowing
<1>3. \A x : x \in Range(Rest(data, k)) <=> x \in (b + k + 1)..(b + Len(data))
  <2>1. b + k \in Nat /\ b + k + (Len(data) - k) = b + Len(data)
    BY <1>1
  <2>2. \A x : x \in Range(Rest(data, k)) <=> x \in (b + k + 1)..(b + k + Len(Rest(data, k)))
    BY <1>1, <2>1, RangeOfFollowing
  <2> QED BY <1>1, <2>1, <2>2
<1>4. \A x : x \in refused' <=> x \in refused \/ x \in (b + 1)..(b + k)
  <2>1. \A x : x \in (b + 1)..(b + Len(data)) /\ x \notin (b + k + 1)..(b + Len(data)) <=> x \in (b + 1)..(b + k)
    BY <1>1
  <2> QED BY <1>2, <1>3, <2>1
<1>5. PICK c : c = b + k
  OBVIOUS
<1>6. PacketsUpto(c)'
  <2>1. k \in Nat /\ k >= 1
    BY <1>1
  <2> QED BY <1>4, <1>5, <2>1, BytesRefused
<1>7. FramesInv'
  BY <1>5, <1>6, ChunkLeft
<1>8. \A x : x \in refused' \ refused <=> x \in (b + 1)..(b + k)
  BY <1>4 DEF PacketsUpto
<1>9. Min(refused' \ refused) = b + 1
  <2> DEFINE S == refused' \ refused
  <2>1. b + 1 \in S /\ S \subseteq Nat
    BY <1>8
  <2>2. Min(S) \in S /\ \A y \in S : Min(S) <= y
    BY <2>1, MinOfNaturals
  <2> HIDE DEF S
  <2>3. Min(S) <= b + 1 /\ Min(S) \in (b + 1)..(b + k)
    BY <1>8, <2>1, <2>2 DEF S
  <2>4. Min(S) = b + 1
    BY <1>1, <2>3
  <2> QED BY <2>4 DEF S
<1> QED BY <1>7, <1>9, SeparatorFacts DEF TooLong

LEMMA ChunkParsed ==
  ASSUME mode = "chunks", UNCHANGED <<mode, stream>>, NEW b \in Nat, NEW data, Following(data, b),
         received' = b + Len(data), received' \in 0..StreamLength, PacketsUpto(b),
         offset \in Nat, Clear(b, b + offset + 1), ~active => offset = 0, NextChunk(data)
  PROVE  FramesInv' /\ (refused' # refused => TooLong)
<1>n. PICK n \in Nat : n = Len(data)
  BY LenProperties DEF Following
<1> DEFINE out == Outcome(data, offset, n, Limit)
           left == IF out.is = "packet" THEN Rest(data, out.offset) ELSE Remaining(data, out.offset)
<1>0. Ends' = Ends /\ Ends \subseteq Nat /\ SepLen = 2 /\ Limit \in Nat /\ StreamLength \in Nat
  BY EndsStay, EndsAre, SeparatorFacts
<1>1. data \in Seq(Nat) /\ n \in Nat /\ b + n <= StreamLength /\ \A i \in 1..n : data[i] = b + i
  BY <1>0, <1>n DEF Following
<1>2. /\ out.is = "more" => buffer' = data /\ offset' = out.offset /\ active' = TRUE
      /\ out.is # "more" => buffer' = left /\ offset' = 0 /\ active' = FALSE
      /\ delivered' = IF out.is = "packet" THEN Append(delivered, SubSeq(data, 1, out.offset)) ELSE delivered
      /\ refused' = IF out.is = "overrun" THEN refused \cup (Range(data) \ Range(left)) ELSE refused
      /\ at' = IF out.is = "more" THEN "receiving" ELSE "idle"
  <2>1. (IF active THEN offset ELSE 0) = offset
    OBVIOUS
  <2> QED BY <1>n, <2>1 DEF NextChunk, ReadUntil
<1>3. \/ \E m \in Nat : out = More(m) /\ Clear(b, b + m + 1) /\ Clear(b, b + n)
      \/ \E m \in 0..(n - 2) : out = Packet(m) /\ b + m + 2 \in Ends /\ Clear(b, b + m + 1)
      \/ \E m \in 0..(n - 2) : out = Overrun(m) /\ m > Limit /\ b + m + 2 \in Ends /\ Clear(b, b + m + 1)
      \/ out = Overrun(n - 1) /\ n >= 2 /\ n - 1 > Limit /\ Clear(b, b + n)
  <2>1. Limit \in Int
    BY <1>0
  <2>2. Tells(out, b, n, Limit)
    BY <1>1, <2>1, OutcomeIs
  <2> QED BY <2>2 DEF Tells
<1> HIDE DEF out
<1>4. ASSUME NEW m \in Nat, out = More(m), Clear(b, b + m + 1), Clear(b, b + n)
      PROVE  FramesInv' /\ refused' = refused
  <2>1. /\ buffer' = data /\ offset' = m /\ active' = TRUE /\ delivered' = delivered /\ refused' = refused
        /\ at' = "receiving"
    <3>1. out.is = "more" /\ out.offset = m
      BY <1>4 DEF More
    <3> QED BY <1>2, <3>1
  <2>2. Kept' = n /\ Base' = b /\ Kept' \in 0..received'
    BY <1>n, <1>1, <2>1 DEF Kept, Base
  <2>3. KeptInv'
    BY <1>4, <2>1, <2>2 DEF KeptInv, ChunksKept, Following
  <2>4. SearchInv'
    <3>1. Clear(b, b + m + 1)' /\ Clear(b, b + n)'
      BY <1>0, <1>4 DEF Clear
    <3>2. Clear(Base, Base + offset + 1)' <=> Clear(b, b + m + 1)'
      BY <2>1, <2>2 DEF Clear
    <3>3. Clear(Base, received)' <=> Clear(b, b + n)'
      BY <1>n, <2>2 DEF Clear
    <3> QED BY <2>1, <3>1, <3>2, <3>3 DEF SearchInv, Searched
  <2>5. PacketsInv'
    BY <2>1, <2>2, PacketsStay DEF PacketsInv
  <2> QED BY <2>1, <2>3, <2>4, <2>5 DEF FramesInv
<1>5. ASSUME NEW m \in 0..(n - 2), out = Packet(m), b + m + 2 \in Ends, Clear(b, b + m + 1)
      PROVE  FramesInv' /\ refused' = refused
  <2>1. /\ buffer' = Rest(data, m + 2) /\ offset' = 0 /\ active' = FALSE
        /\ delivered' = Append(delivered, SubSeq(data, 1, m + 2)) /\ refused' = refused /\ at' = "idle"
    <3>1. out.is = "packet" /\ out.offset = m + 2
      BY <1>0, <1>5 DEF Packet
    <3> QED BY <1>2, <3>1
  <2>2. PICK c : c = b + m + 2
    OBVIOUS
  <2>3. m + 2 \in 1..n /\ m + 2 \in Nat /\ c \in Nat /\ b + (m + 2) = c /\ c - 1 = b + m + 1 /\ \A i \in 1..(m + 2) : i \in 1..n
    BY <1>1, <2>2
  <2>4. Following(SubSeq(data, 1, m + 2), b) /\ Len(SubSeq(data, 1, m + 2)) = m + 2
    <3>1. \A i \in 1..(m + 2) : data[i] = b + i
      BY <1>1, <2>3
    <3> QED BY <2>3, <3>1, FirstBytes
  <2>5. PacketsUpto(c)'
    <3> DEFINE s == SubSeq(data, 1, m + 2)
    <3>1. Following(s, b) /\ Len(s) >= 1 /\ b + Len(s) \in Ends /\ Clear(b, b + Len(s) - 1) /\ c = b + Len(s)
          /\ delivered' = Append(delivered, s)
      BY <1>5, <2>1, <2>2, <2>3, <2>4
    <3> HIDE DEF s
    <3> QED BY <2>1, <3>1, PacketDelivered
  <2>6. Clear(c, c + 1)
    BY <1>5, <2>2, <2>3, ClearAfter
  <2> QED BY <1>n, <2>1, <2>3, <2>5, <2>6, ChunkLeft
<1>6. ASSUME NEW m \in 0..(n - 2), out = Overrun(m), m > Limit, b + m + 2 \in Ends, Clear(b, b + m + 1)
      PROVE  FramesInv' /\ TooLong
  <2>1. m \in 0..Len(data) /\ Len(data) - m >= 2 /\ m + 2 \in 1..Len(data) /\ b + (m + 1) <= StreamLength /\ m + 1 \in Nat
    BY <1>0, <1>1, <1>n
  <2>2. StartsLikeSep(Rest(data, m))
    <3>1. m + 1 \in 1..n /\ m + 2 \in 1..n /\ b + (m + 1) = (b + m + 2) - 1 /\ b + (m + 1) # 0 /\ b + (m + 2) # 0
      BY <1>1
    <3>2. Rest(data, m)[1] = (b + m + 2) - 1 /\ Rest(data, m)[2] = b + m + 2 /\ Rest(data, m)[1] # 0 /\ Rest(data, m)[2] # 0
      <4>1. \A i \in 1..(Len(data) - m) : Rest(data, m)[i] = data[m + i]
        BY <1>1, <2>1, RestProperties
      <4>2. 1 \in 1..(Len(data) - m) /\ 2 \in 1..(Len(data) - m)
        BY <2>1
      <4>3. Rest(data, m)[1] = data[m + 1] /\ Rest(data, m)[2] = data[m + 2]
        BY <4>1, <4>2
      <4>4. data[m + 1] = b + (m + 1) /\ data[m + 2] = b + (m + 2)
        BY <1>1, <3>1
      <4> QED BY <1>1, <3>1, <4>3, <4>4
    <3>3. stream[(b + m + 2) - 1] = Separator[1] /\ stream[b + m + 2] = Separator[2]
      BY <1>6, EndsAre
    <3>4. \A j \in 1..2 : j = 1 \/ j = 2
      OBVIOUS
    <3>5. IsSep(Rest(data, m), 1, 1) /\ IsSep(Rest(data, m), 2, 2)
      BY <3>2, <3>3 DEF IsSep
    <3> QED BY <1>0, <3>4, <3>5 DEF StartsLikeSep
  <2>3. Remaining(data, m) = Rest(data, m + 2)
    BY <1>1, <2>1, <2>2, RemainingIs
  <2>4. /\ buffer' = Rest(data, m + 2) /\ offset' = 0 /\ active' = FALSE /\ delivered' = delivered
        /\ refused' = refused \cup (Range(data) \ Range(Rest(data, m + 2))) /\ at' = "idle"
    <3>1. out.is = "overrun" /\ out.offset = m
      BY <1>6 DEF Overrun
    <3> QED BY <1>2, <2>3, <3>1
  <2>5. Clear(b + (m + 2), b + (m + 2) + 1)
    <3>1. PICK c : c = b + m + 2
      OBVIOUS
    <3>2. c \in Ends /\ c \in Nat /\ b + (m + 2) = c
      BY <1>0, <1>6, <3>1
    <3>3. Clear(c, c + 1)
      BY <3>2, ClearAfter
    <3> QED BY <3>2, <3>3
  <2>6. LengthFrom(b + 1) > Limit + 2
    <3>1. Clear(b, b + (m + 1))
      BY <1>0, <1>6 DEF Clear
    <3>2. LengthFrom(b + 1) \in Int /\ LengthFrom(b + 1) >= (m + 1) + 1
      BY <2>1, <3>1, LongFrame
    <3> QED BY <1>0, <1>6, <3>2
  <2> QED BY <2>1, <2>4, <2>5, <2>6, ChunkRefused
<1>7. ASSUME out = Overrun(n - 1), n >= 2, n - 1 > Limit, Clear(b, b + n)
      PROVE  FramesInv' /\ TooLong
  <2>1. n - 1 \in 0..Len(data) /\ Len(data) - (n - 1) = 1 /\ n - 1 \in 1..n
    BY <1>1, <1>7, <1>n
  <2>2. PICK k \in (n - 1)..n : /\ Remaining(data, n - 1) = Rest(data, k)
                                /\ \A l \in (n - 1)..(k - 1) : ~StartsLikeSep(Rest(data, l))
    <3>1. ~(Len(data) - (n - 1) >= 2 /\ StartsLikeSep(Rest(data, n - 1)))
      BY <2>1
    <3>2. \E k \in (n - 1)..Len(data) :
            Remaining(data, n - 1) = Rest(data, k) /\ \A l \in (n - 1)..(k - 1) : ~StartsLikeSep(Rest(data, l))
      BY <1>1, <2>1, <3>1, RemainingIs
    <3> QED BY <1>n, <3>2
  <2>3. /\ buffer' = Rest(data, k) /\ offset' = 0 /\ active' = FALSE /\ delivered' = delivered
        /\ refused' = refused \cup (Range(data) \ Range(Rest(data, k))) /\ at' = "idle"
    <3>1. out.is = "overrun" /\ out.offset = n - 1
      BY <1>7 DEF Overrun
    <3> QED BY <1>2, <2>2, <3>1
  <2>4. Clear(b + k, b + k + 1)
    <3>1. CASE k = n - 1
      BY <1>0, <1>1, <1>7, <3>1 DEF Clear
    <3>2. CASE k = n
      <4>1. ~StartsLikeSep(Rest(data, n - 1))
        BY <2>1, <2>2, <3>2
      <4>2. Len(Rest(data, n - 1)) = 1 /\ Rest(data, n - 1)[1] = b + n
        <5>1. /\ Len(Rest(data, n - 1)) = Len(data) - (n - 1)
              /\ \A i \in 1..(Len(data) - (n - 1)) : Rest(data, n - 1)[i] = data[(n - 1) + i]
          BY <1>1, <2>1, RestProperties
        <5>2. 1 \in 1..(Len(data) - (n - 1)) /\ (n - 1) + 1 = n /\ n \in 1..n
          BY <1>1, <2>1
        <5> QED BY <1>1, <2>1, <5>1, <5>2
      <4>3. ~IsSep(Rest(data, n - 1), 1, 1)
        <5>1. \A j \in 1..2 : j <= 1 => j = 1
          OBVIOUS
        <5> QED BY <1>0, <4>1, <4>2, <5>1 DEF StartsLikeSep
      <4>4. stream[b + n] # Separator[1]
        <5>1. b + n # 0
          BY <1>1, <1>7
        <5> QED BY <4>2, <4>3, <5>1 DEF IsSep
      <4>5. b + n + 1 \notin Ends
        <5>1. (b + n + 1) - 1 = b + n
          BY <1>1
        <5> QED BY <4>4, <5>1, EndsAre
      <4> QED BY <1>0, <1>1, <3>2, <4>5 DEF Clear
    <3> QED BY <1>1, <3>1, <3>2
  <2>5. LengthFrom(b + 1) > Limit + 2
    <3>1. LengthFrom(b + 1) \in Int /\ LengthFrom(b + 1) >= n + 1
      BY <1>1, <1>7, LongFrame
    <3> QED BY <1>0, <1>1, <1>7, <3>1
  <2>6. k \in 1..Len(data)
    BY <1>1, <1>7, <1>n, <2>1
  <2> QED BY <2>3, <2>4, <2>5, <2>6, ChunkRefused
<1> QED BY <1>3, <1>4, <1>5, <1>6, <1>7

-----------------------------------------------------------------------------
(* A step of the parser of a buffer *)

LEMMA BlankHolds == ASSUME NEW b \in Nat PROVE Holds(Blank, 0, b)
BY SeparatorFacts DEF Holds, Blank

LEMMA WriteHolds ==
  ASSUME NEW b \in Nat, NEW n \in Nat, NEW mem, Holds(mem, n, b), NEW data, Following(data, b + n), n + Len(data) <= Limit
  PROVE  Holds(Write(mem, n, data), n + Len(data), b)
<1> DEFINE k == Len(data)
           new == Write(mem, n, data)
<1>1. k \in Nat /\ data \in Seq(Nat) /\ (\A i \in 1..k : data[i] = b + n + i) /\ Limit \in Nat
  BY LenProperties, SeparatorFacts DEF Following
<1>2. /\ mem \in [1..Limit -> Nat] /\ (\A i \in 1..n : mem[i] = b + i)
      /\ \A i \in (n + 1)..Limit : mem[i] <= b
  BY DEF Holds
<1>3. new = [i \in 1..Limit |-> IF i - n \in 1..k THEN data[i - n] ELSE mem[i]]
  BY DEF Write
<1> HIDE DEF k, new
<1>4. new \in [1..Limit -> Nat]
  <2>1. \A i \in 1..Limit : i - n \in 1..k => data[i - n] \in Nat
    BY <1>1
  <2> QED BY <1>2, <1>3, <2>1
<1>5. ASSUME NEW i \in 1..(n + k) PROVE new[i] = b + i
  <2>1. i \in 1..Limit
    BY <1>1 DEF k
  <2>2. CASE i <= n
    <3>1. i - n \notin 1..k /\ i \in 1..n
      BY <1>1, <2>2
    <3> QED BY <1>2, <1>3, <2>1, <3>1
  <2>3. CASE ~(i <= n)
    <3>1. i - n \in 1..k /\ b + n + (i - n) = b + i
      BY <1>1, <2>3
    <3>2. new[i] = data[i - n]
      BY <1>3, <2>1, <3>1
    <3> QED BY <1>1, <3>1, <3>2
  <2> QED BY <2>2, <2>3
<1>6. ASSUME NEW i \in (n + k + 1)..Limit PROVE new[i] <= b
  <2>1. i \in 1..Limit /\ i - n \notin 1..k /\ i \in (n + 1)..Limit
    BY <1>1
  <2> QED BY <1>2, <1>3, <2>1
<1> QED BY <1>4, <1>5, <1>6 DEF Holds, k, new

LEMMA BufferIsSequence ==
  ASSUME NEW mem \in [1..Limit -> Nat]
  PROVE  mem \in Seq(Nat) /\ Len(mem) = Limit /\ mem # <<>>
<1>1. Limit \in Nat /\ Limit > 2
  BY SeparatorFacts
<1>2. mem \in Seq(Nat)
  BY <1>1, SeqDef
<1>3. Len(mem) = Limit
  BY <1>1, <1>2, LenProperties
<1> QED BY <1>1, <1>2, <1>3, EmptySeq

\* The buffer for the bytes that follow a packet.
LEMMA SaveHolds ==
  ASSUME NEW b \in Nat, NEW mem, NEW n \in 0..Limit, Holds(mem, n, b), NEW m \in 0..n,
         Save(mem, SubSeq(mem, m + 1, n)), written' = 0
  PROVE  /\ Holds(buffer', n - m, b + m) /\ already' = n - m
         /\ active' = (n # m)
<1> DEFINE left == SubSeq(mem, m + 1, n)
<1>1. Limit \in Nat /\ Limit > 2
  BY SeparatorFacts
<1>2. /\ mem \in [1..Limit -> Nat] /\ (\A i \in 1..n : mem[i] = b + i)
      /\ \A i \in (n + 1)..Limit : mem[i] <= b
  BY DEF Holds
<1>3. Following(left, b + m) /\ Len(left) = n - m
  <2>1. m + 1 \in Int /\ n \in Int /\ (\A i \in (m + 1)..n : mem[i] \in Nat) /\ n - (m + 1) + 1 = n - m
    BY <1>1, <1>2
  <2>2. PICK l : l = m + 1
    OBVIOUS
  <2>3. /\ SubSeq(mem, l, n) \in Seq(Nat) /\ Len(SubSeq(mem, l, n)) = IF l <= n THEN n - l + 1 ELSE 0
        /\ \A i \in 1..(n - l + 1) : SubSeq(mem, l, n)[i] = mem[l + i - 1]
    BY <2>1, <2>2, SubSeqProperties
  <2>4. Len(left) = n - m
    BY <1>1, <2>2, <2>3
  <2>5. ASSUME NEW i \in 1..(n - m) PROVE left[i] = (b + m) + i
    <3>1. l + i - 1 = m + i /\ m + i \in 1..n /\ b + (m + i) = (b + m) + i /\ i \in 1..(n - l + 1)
      BY <1>1, <2>2
    <3> QED BY <1>2, <2>2, <2>3, <3>1
  <2> QED BY <2>2, <2>3, <2>4, <2>5 DEF Following
<1> HIDE DEF left
<1>4. CASE left = <<>>
  <2>1. n = m
    BY <1>1, <1>3, <1>4, EmptySeq
  <2>2. buffer' = mem /\ active' = FALSE /\ already' = 0
    BY <1>4 DEF Save, left
  <2>3. \A i \in 1..Limit : mem[i] <= b + n
    <3> TAKE i \in 1..Limit
    <3>1. i \in 1..n \/ i \in (n + 1)..Limit
      BY <1>1
    <3>2. mem[i] \in Nat
      BY <1>2
    <3> QED BY <1>1, <1>2, <3>1, <3>2
  <2>4. Holds(mem, 0, b + n)
    BY <1>2, <2>3 DEF Holds
  <2>5. n - m = 0 /\ b + m = b + n
    BY <1>1, <2>1
  <2>6. Holds(buffer', n - m, b + m) /\ already' = n - m
    BY <2>2, <2>4, <2>5, Zenon
  <2>7. active' = (n # m)
    BY <2>1, <2>2, Zenon
  <2> QED BY <2>6, <2>7
<1>5. CASE left # <<>>
  <2>1. n # m
    <3>1. left \in Seq(Nat)
      BY <1>3 DEF Following
    <3> QED BY <1>1, <1>3, <1>5, <3>1, EmptySeq
  <2>2. buffer' = Write(Blank, 0, left) /\ active' = TRUE /\ already' = Len(left)
    BY <1>5 DEF Save, left
  <2>3. b + m \in Nat /\ (b + m) + 0 = b + m /\ 0 + Len(left) = n - m /\ n - m <= Limit
    BY <1>1, <1>3
  <2>4. Holds(Write(Blank, 0, left), 0 + Len(left), b + m)
    BY <1>3, <2>3, BlankHolds, WriteHolds
  <2> QED BY <1>3, <2>1, <2>2, <2>3, <2>4
<1> QED BY <1>4, <1>5

BufferTooLong == mode = "buffered" /\ LengthFrom(Min(refused')) >= Limit

LEMMA BufferRefused ==
  ASSUME NEW b \in Nat, NEW mem, NEW n \in 1..Limit, Holds(mem, n, b), refused = {}, NEW k \in 1..Limit,
         refused' = refused \cup (Range(SubSeq(mem, 1, n)) \ Range(Rest(mem, k)))
  PROVE  refused' # {} /\ Min(refused') = b + 1
<1>1. Limit \in Nat /\ n \in Nat /\ k \in Nat
  BY SeparatorFacts
<1>2. /\ mem \in [1..Limit -> Nat] /\ (\A i \in 1..n : mem[i] = b + i)
      /\ (\A i \in (n + 1)..Limit : mem[i] <= b)
      /\ mem \in Seq(Nat) /\ Len(mem) = Limit
  BY BufferIsSequence DEF Holds
<1>3. \A x : x \in Range(SubSeq(mem, 1, n)) <=> x \in (b + 1)..(b + n)
  <2>1. Following(SubSeq(mem, 1, n), b) /\ Len(SubSeq(mem, 1, n)) = n
    BY <1>1, <1>2, FirstBytes
  <2> QED BY <2>1, RangeOfFollowing
<1>4. b + 1 \notin Range(Rest(mem, k))
  <2>1. k \in 0..Len(mem)
    BY <1>1, <1>2
  <2>2. /\ Rest(mem, k) \in Seq(Nat) /\ Len(Rest(mem, k)) = Limit - k
        /\ \A i \in 1..(Limit - k) : Rest(mem, k)[i] = mem[k + i]
    BY <1>2, <2>1, RestProperties
  <2>3. DOMAIN Rest(mem, k) = 1..(Limit - k)
    BY <2>2, LenProperties
  <2>4. ASSUME NEW i \in 1..(Limit - k) PROVE mem[k + i] # b + 1
    <3> DEFINE j == k + i
    <3>1. j \in 2..Limit /\ j # 1
      BY <1>1
    <3>2. j \in 1..n \/ j \in (n + 1)..Limit
      BY <1>1, <3>1
    <3>3. mem[j] \in Nat
      BY <1>1, <1>2, <3>1
    <3> HIDE DEF j
    <3>4. mem[j] # b + 1
      BY <1>1, <1>2, <3>1, <3>2, <3>3
    <3> QED BY <3>4 DEF j
  <2> QED BY <2>2, <2>3, <2>4 DEF Range
<1>5. b + 1 \in refused' /\ refused' \subseteq (b + 1)..(b + n) /\ refused' \subseteq Nat
  <2>1. b + 1 \in (b + 1)..(b + n)
    BY <1>1
  <2> QED BY <1>3, <1>4, <2>1
<1>6. Min(refused') \in refused' /\ \A y \in refused' : Min(refused') <= y
  BY <1>5, MinOfNaturals
<1>7. Min(refused') \in (b + 1)..(b + n) /\ Min(refused') <= b + 1
  BY <1>5, <1>6
<1> QED BY <1>1, <1>5, <1>7

\* What it keeps when it waits for more bytes.
LEMMA BufferWaits ==
  ASSUME mode = "buffered", UNCHANGED <<mode, stream, delivered, refused>>, NEW b \in Nat, NEW n \in 0..Limit,
         NEW mem, Holds(mem, n, b), received' = b + n, received' \in 0..StreamLength, PacketsUpto(b),
         NEW m \in Nat, Clear(b, b + m + 1), Clear(b, b + n),
         buffer' = mem, active' = TRUE, already' = 0, offset' = m, written' = n
  PROVE  FramesInv'
<1>0. Ends' = Ends /\ Limit \in Nat
  BY EndsStay, SeparatorFacts
<1>1. Kept' = n /\ Base' = b /\ Kept' \in 0..received'
  BY <1>0 DEF Kept, Base
<1>2. buffer' # <<>> /\ written' + already' = n
  <2>1. mem # <<>>
    BY BufferIsSequence DEF Holds
  <2> QED BY <1>0, <2>1
<1>3. Holds(buffer, written + already, Base)'
  BY <1>1, <1>2 DEF Holds
<1>4. KeptInv'
  <2>1. BufferKept'
    BY <1>0, <1>2, <1>3 DEF BufferKept
  <2> QED BY <1>1, <2>1 DEF KeptInv
<1>5. SearchInv'
  <2>1. Clear(b, b + m + 1)' /\ Clear(b, b + n)'
    BY <1>0 DEF Clear
  <2>2. Clear(Base, Base + offset + 1)' <=> Clear(b, b + m + 1)'
    BY <1>1 DEF Clear
  <2>3. Clear(Base, received)' <=> Clear(b, b + n)'
    BY <1>1 DEF Clear
  <2> QED BY <2>1, <2>2, <2>3 DEF SearchInv, Searched
<1>6. PacketsInv'
  BY <1>1, PacketsStay DEF PacketsInv
<1> QED BY <1>4, <1>5, <1>6 DEF FramesInv

\* What it keeps when it is done with a packet.
LEMMA BufferLeft ==
  ASSUME mode = "buffered", UNCHANGED <<mode, stream>>, NEW b \in Nat, NEW n \in 0..Limit, NEW k \in 0..n,
         Holds(buffer', n - k, b + k), already' = n - k, active' = (n # k), written' = 0, offset' = 0, at' = "idle",
         received' = b + n, received' \in 0..StreamLength, NEW c, c = b + k, Clear(c, c + 1), PacketsUpto(c)'
  PROVE  FramesInv'
<1>0. Ends' = Ends /\ Ends \subseteq Nat /\ Limit \in Nat /\ c \in Nat
  BY EndsStay, EndsAre, SeparatorFacts
<1>1. Kept' = n - k /\ Base' = c /\ Kept' \in 0..received' /\ written' + already' = n - k
  BY <1>0 DEF Kept, Base
<1>2. buffer' # <<>>
  BY BufferIsSequence DEF Holds
<1>3. Holds(buffer, written + already, Base)'
  BY <1>1 DEF Holds
<1>4. ~active' <=> n = k
  OBVIOUS
<1>5. KeptInv'
  <2>1. written' \in Nat /\ already' \in Nat /\ written' + already' <= Limit /\ (n = k => already' = 0)
    BY <1>0
  <2>2. BufferKept'
    BY <1>2, <1>3, <1>4, <2>1 DEF BufferKept
  <2> QED BY <1>1, <2>2 DEF KeptInv
<1>6. SearchInv'
  <2>1. Clear(c, c + 0 + 1)'
    BY <1>0 DEF Clear
  <2>2. Searched' => received' = c
    <3>1. Searched' => n = k
      BY <1>0, <1>4 DEF Searched
    <3> QED BY <3>1
  <2>3. PICK r : r = received'
    OBVIOUS
  <2>4. Searched' => Clear(c, r)'
    BY <1>0, <2>2, <2>3 DEF Clear
  <2>5. Clear(Base, received)' <=> Clear(c, r)'
    BY <1>1, <2>3 DEF Clear
  <2>6. Clear(Base, Base + offset + 1)' <=> Clear(c, c + 0 + 1)'
    BY <1>1 DEF Clear
  <2> QED BY <2>1, <2>4, <2>5, <2>6 DEF SearchInv
<1>7. PacketsInv'
  BY <1>0, <1>1 DEF PacketsInv
<1> QED BY <1>5, <1>6, <1>7 DEF FramesInv

LEMMA BufferParsed ==
  ASSUME mode = "buffered", refused = {}, UNCHANGED <<mode, stream>>, NEW b \in Nat, NEW n \in 0..Limit,
         NEW mem, Holds(mem, n, b), NEW nbytes, ParsedBytes(nbytes) = n,
         received' = b + n, received' \in 0..StreamLength, PacketsUpto(b),
         offset \in Nat, Clear(b, b + offset + 1), NextBuffered(mem, nbytes)
  PROVE  FramesInv' /\ (refused' # refused => BufferTooLong)
<1> DEFINE out == Outcome(mem, offset, n, BufferedLimit)
           left == IF out.is = "packet" THEN SubSeq(mem, out.offset + 1, n) ELSE Remaining(mem, out.offset)
<1>0. Ends' = Ends /\ Ends \subseteq Nat /\ SepLen = 2 /\ Limit \in Nat /\ Limit > 2 /\ BufferedLimit = Limit - 3
  <2>1. SepLen = 2 /\ Limit \in Nat /\ Limit > 2
    BY SeparatorFacts
  <2> QED BY <2>1, EndsStay, EndsAre DEF BufferedLimit
<1>1. /\ mem \in [1..Limit -> Nat] /\ \A i \in 1..n : mem[i] = b + i
      /\ n \in Nat /\ b + n <= StreamLength /\ StreamLength \in Nat
  BY <1>0, SeparatorFacts DEF Holds
<1>2. /\ \/ /\ out.is = "more"
            /\ buffer' = mem /\ active' = TRUE /\ already' = 0
            /\ offset' = out.offset /\ written' = n
         \/ /\ out.is # "more"
            /\ Save(mem, left)
            /\ offset' = 0 /\ written' = 0
      /\ delivered' = IF out.is = "packet" THEN Append(delivered, SubSeq(mem, 1, out.offset)) ELSE delivered
      /\ refused' = IF out.is = "overrun" THEN refused \cup (Range(SubSeq(mem, 1, n)) \ Range(left)) ELSE refused
      /\ at' = IF out.is = "more" THEN "receiving" ELSE "idle"
  BY DEF NextBuffered, BufferedReadUntil
<1>3. \/ \E m \in Nat : out = More(m) /\ Clear(b, b + m + 1) /\ Clear(b, b + n)
      \/ \E m \in 0..(n - 2) : out = Packet(m) /\ b + m + 2 \in Ends /\ Clear(b, b + m + 1)
      \/ \E m \in 0..(n - 2) : out = Overrun(m) /\ m > Limit /\ b + m + 2 \in Ends /\ Clear(b, b + m + 1)
      \/ out = Overrun(n - 1) /\ n >= 2 /\ n - 1 > Limit - 3 /\ Clear(b, b + n)
  <2>1. BufferedLimit \in Int
    BY <1>0
  <2>2. Tells(out, b, n, BufferedLimit)
    BY <1>1, <2>1, OutcomeIs
  <2> QED BY <1>0, <2>2 DEF Tells
<1> HIDE DEF out
<1>4. ASSUME NEW m \in Nat, out = More(m), Clear(b, b + m + 1), Clear(b, b + n)
      PROVE  FramesInv' /\ refused' = refused
  <2>1. /\ buffer' = mem /\ active' = TRUE /\ already' = 0 /\ offset' = m /\ written' = n
        /\ delivered' = delivered /\ refused' = refused
    <3>1. out.is = "more" /\ out.offset = m
      BY <1>4 DEF More
    <3> QED BY <1>2, <3>1
  <2> QED BY <1>4, <2>1, BufferWaits
<1>5. ASSUME NEW m \in 0..(n - 2), out = Packet(m), b + m + 2 \in Ends, Clear(b, b + m + 1)
      PROVE  FramesInv' /\ refused' = refused
  <2>1. /\ Save(mem, SubSeq(mem, (m + 2) + 1, n)) /\ offset' = 0 /\ written' = 0
        /\ delivered' = Append(delivered, SubSeq(mem, 1, m + 2)) /\ refused' = refused /\ at' = "idle"
    <3>1. out.is = "packet" /\ out.offset = m + 2
      BY <1>0, <1>5 DEF Packet
    <3> QED BY <1>2, <3>1
  <2>2. PICK c : c = b + m + 2
    OBVIOUS
  <2>3. m + 2 \in 0..n /\ m + 2 \in Nat /\ c \in Nat /\ b + (m + 2) = c /\ c - 1 = b + m + 1 /\ \A i \in 1..(m + 2) : i \in 1..n
    BY <1>1, <2>2
  <2>4. Following(SubSeq(mem, 1, m + 2), b) /\ Len(SubSeq(mem, 1, m + 2)) = m + 2
    <3>1. \A i \in 1..(m + 2) : mem[i] = b + i
      BY <1>1, <2>3
    <3> QED BY <2>3, <3>1, FirstBytes
  <2>5. PacketsUpto(c)'
    <3> DEFINE s == SubSeq(mem, 1, m + 2)
    <3>1. Following(s, b) /\ Len(s) >= 1 /\ b + Len(s) \in Ends /\ Clear(b, b + Len(s) - 1) /\ c = b + Len(s)
          /\ delivered' = Append(delivered, s)
      BY <1>5, <2>1, <2>2, <2>3, <2>4
    <3> HIDE DEF s
    <3> QED BY <2>1, <3>1, PacketDelivered
  <2>6. Clear(c, c + 1)
    BY <1>0, <1>5, <2>2, <2>3, EndsAre DEF Clear
  <2>7. PICK k \in 0..n : k = m + 2
    BY <2>3
  <2>8. Holds(buffer', n - k, b + k) /\ already' = n - k /\ active' = (n # k)
    <3>1. Save(mem, SubSeq(mem, k + 1, n)) /\ written' = 0
      BY <2>1, <2>7
    <3> QED BY <3>1, SaveHolds, Zenon
  <2> QED BY <2>1, <2>3, <2>5, <2>6, <2>7, <2>8, BufferLeft
<1>6. ASSUME NEW m \in 0..(n - 2), m > Limit PROVE FALSE
  BY <1>0, <1>6
<1>7. ASSUME out = Overrun(n - 1), n >= 2, n - 1 > Limit - 3, Clear(b, b + n)
      PROVE  FramesInv' /\ BufferTooLong
  <2>1. refused' = refused \cup (Range(SubSeq(mem, 1, n)) \ Range(Remaining(mem, n - 1)))
    <3>1. out.is = "overrun" /\ out.offset = n - 1
      BY <1>7 DEF Overrun
    <3> QED BY <1>2, <3>1
  <2>2. \E k \in 1..Limit : Remaining(mem, n - 1) = Rest(mem, k)
    <3>1. mem \in Seq(Nat) /\ Len(mem) = Limit
      BY <1>1, BufferIsSequence
    <3>2. PICK l \in 0..Len(mem) : l = n - 1
      BY <1>0, <1>7, <3>1
    <3>3. \/ Remaining(mem, l) = Rest(mem, l + 2) /\ Len(mem) - l >= 2
          \/ \E k \in l..Len(mem) : Remaining(mem, l) = Rest(mem, k)
      BY <3>1, RemainingIs
    <3>4. Len(mem) - l >= 2 => l + 2 \in 1..Limit
      BY <1>0, <3>1, <3>2
    <3>5. \A k \in l..Len(mem) : k \in 1..Limit
      BY <1>0, <1>7, <3>1, <3>2
    <3> QED BY <3>2, <3>3, <3>4, <3>5
  <2>3. n \in 1..Limit
    BY <1>0, <1>7
  <2>4. refused' # {} /\ Min(refused') = b + 1
    BY <2>1, <2>2, <2>3, BufferRefused
  <2>5. LengthFrom(b + 1) >= Limit
    <3>1. LengthFrom(b + 1) \in Int /\ LengthFrom(b + 1) >= n + 1
      BY <1>1, <1>7, LongFrame
    <3> QED BY <1>0, <1>1, <1>7, <3>1
  <2>6. ~Sure' /\ mode' \in {"chunks", "buffered"}
    BY <2>4 DEF Sure
  <2> QED BY <2>4, <2>5, <2>6 DEF FramesInv, BufferTooLong
<1> QED BY <1>3, <1>4, <1>5, <1>6, <1>7

-----------------------------------------------------------------------------
(* The steps of recv_packet() *)

\* A packet is refused for its length, as far as that can be told.
RefusedForLength == refused' # refused => TooLong \/ BufferTooLong \/ (mode = "buffered" /\ refused # {})

LEMMA FramesInit == Init => FramesInv
<1> SUFFICES ASSUME Init PROVE FramesInv
  OBVIOUS
<1>1. /\ mode \in {"chunks", "buffered"} /\ received = 0 /\ at = "idle" /\ buffer = <<>> /\ offset = 0
      /\ active = FALSE /\ written = 0 /\ already = 0 /\ delivered = <<>> /\ refused = {}
  BY DEF Init
<1>2. Len(buffer) = 0 /\ buffer \in Seq(Nat) /\ delivered \in Seq(Seq(Nat)) /\ Len(delivered) = 0
  BY <1>1, EmptySeq
<1>3. Kept = 0 /\ Base = 0 /\ StreamLength \in Nat /\ Limit \in Nat
  <2>1. written + already = 0
    BY <1>1
  <2>2. Kept = 0
    BY <1>2, <2>1, Zenon DEF Kept
  <2>3. Base = 0
    BY <1>1, <2>2 DEF Base
  <2> QED BY <2>2, <2>3, SeparatorFacts
<1>4. KeptInv
  BY <1>1, <1>2, <1>3 DEF KeptInv, ChunksKept, BufferKept, Following
<1>5. SearchInv
  <2>1. \A e \in Ends : e \in Nat /\ e >= 2
    BY EndsAre, SeparatorFacts
  <2> QED BY <1>1, <1>3, <2>1 DEF SearchInv, Clear
<1>6. PacketsUpto(0)
  BY <1>1, <1>2 DEF PacketsUpto, EndAt
<1>7. PacketsInv
  BY <1>3, <1>6 DEF PacketsInv
<1> QED BY <1>1, <1>4, <1>5, <1>7 DEF FramesInv

\* Whether the task waits, and whether the stream has ended.
LEMMA TaskMoves ==
  ASSUME FramesInv, UNCHANGED <<wire, received, parser, delivered, refused>>,
         at' = "receiving" => at = "receiving" \/ Searched
  PROVE  FramesInv' /\ RefusedForLength
<1>1. Ends' = Ends
  BY EndsStay DEF wire
<1>2. Base' = Base /\ Kept' = Kept /\ Sure' = Sure /\ mode' = mode
  BY DEF Base, Kept, Sure, wire, parser
<1>3. ASSUME Sure PROVE KeptInv' /\ SearchInv' /\ PacketsInv'
  <2>1. KeptInv /\ SearchInv /\ PacketsInv
    BY <1>3 DEF FramesInv
  <2>2. KeptInv'
    BY <1>2, <2>1 DEF KeptInv, ChunksKept, BufferKept, Holds, Following, wire, parser
  <2>3. SearchInv'
    BY <1>1, <1>2, <2>1 DEF SearchInv, Searched, Clear, wire, parser
  <2>4. PICK b \in Nat : b = Base /\ PacketsUpto(b)
    BY <2>1 DEF PacketsInv
  <2>5. PacketsInv'
    BY <1>2, <2>4, PacketsStay DEF PacketsInv, wire
  <2> QED BY <2>2, <2>3, <2>5
<1> QED BY <1>2, <1>3 DEF FramesInv, RefusedForLength

\* A buffered parser that has refused a packet.
LEMMA NotSure ==
  ASSUME FramesInv, ~Sure, UNCHANGED wire, refused \subseteq refused'
  PROVE  FramesInv' /\ RefusedForLength
BY DEF FramesInv, Sure, RefusedForLength, wire

\* What the invariant says of the bytes that are kept.
LEMMA KeptBytes ==
  ASSUME FramesInv, Sure
  PROVE  \E b \in Nat :
           /\ b = Base /\ PacketsUpto(b) /\ Clear(b, b + offset + 1) /\ offset \in Nat
           /\ received \in Nat /\ received <= StreamLength /\ b + Kept = received
           /\ mode = "chunks" => Following(buffer, b) /\ Kept = Len(buffer) /\ (~active => offset = 0)
           /\ mode = "buffered" =>
                /\ Kept = written + already /\ Kept \in 0..Limit /\ (~active => Kept = 0)
                /\ IF buffer = <<>> THEN ~active ELSE Holds(buffer, Kept, b)
<1>1. KeptInv /\ SearchInv /\ PacketsInv
  BY DEF FramesInv
<1>2. PICK b \in Nat : b = Base /\ PacketsUpto(b)
  BY <1>1 DEF PacketsInv
<1>3. received \in Nat /\ received <= StreamLength /\ Kept \in Nat /\ b + Kept = received /\ offset \in Nat
  BY <1>1, <1>2, SeparatorFacts DEF KeptInv, Base
<1>4. Clear(b, b + offset + 1)
  BY <1>1, <1>2 DEF SearchInv
<1>5. mode = "chunks" => Following(buffer, b) /\ Kept = Len(buffer) /\ (~active => offset = 0)
  BY <1>1, <1>2 DEF KeptInv, ChunksKept, Kept
<1>6. ASSUME mode = "buffered"
      PROVE  /\ Kept = written + already /\ Kept \in 0..Limit /\ (~active => Kept = 0)
             /\ IF buffer = <<>> THEN ~active ELSE Holds(buffer, Kept, b)
  <2>1. Kept = written + already
    BY <1>6 DEF Kept
  <2>2. BufferKept
    BY <1>1, <1>6 DEF KeptInv
  <2> QED BY <1>2, <1>3, <2>1, <2>2, SeparatorFacts DEF BufferKept
<1> QED BY <1>2, <1>3, <1>4, <1>5, <1>6

LEMMA CallStep == FramesInv /\ Call => FramesInv' /\ RefusedForLength
<1> SUFFICES ASSUME FramesInv, Call PROVE FramesInv' /\ RefusedForLength
  OBVIOUS
<1>1. UNCHANGED <<wire, received>> /\ UNCHANGED <<mode, stream>>
  BY DEF Call, wire
<1>2. CASE /\ IF mode = "chunks" THEN active \/ buffer = <<>> ELSE ~active \/ already = 0
           /\ at' = IF eof THEN "idle" ELSE "receiving"
           /\ UNCHANGED <<parser, delivered, refused>>
  BY <1>1, <1>2, TaskMoves DEF Searched
<1>3. CASE mode = "chunks" /\ ~active /\ buffer # <<>> /\ NextChunk(buffer)
  <2>1. Sure
    BY <1>3 DEF Sure
  <2>2. PICK b \in Nat :
          /\ b = Base /\ PacketsUpto(b) /\ Clear(b, b + offset + 1) /\ offset \in Nat
          /\ received \in Nat /\ received <= StreamLength /\ b + Kept = received
          /\ Following(buffer, b) /\ Kept = Len(buffer) /\ (~active => offset = 0)
    BY <1>3, <2>1, KeptBytes
  <2>3. received' = b + Len(buffer) /\ received' \in 0..StreamLength
    BY <1>1, <2>2, SeparatorFacts
  <2>4. FramesInv' /\ (refused' # refused => TooLong)
    BY <1>1, <1>3, <2>2, <2>3, ChunkParsed
  <2> QED BY <2>4, Zenon DEF RefusedForLength
<1>4. CASE mode = "buffered" /\ active /\ already > 0 /\ NextBuffered(buffer, 0)
  <2>1. CASE ~Sure
    <3>1. refused \subseteq refused'
      BY <1>4 DEF NextBuffered
    <3> QED BY <1>1, <2>1, <3>1, NotSure
  <2>2. CASE Sure
    <3>1. PICK b \in Nat :
            /\ b = Base /\ PacketsUpto(b) /\ Clear(b, b + offset + 1) /\ offset \in Nat
            /\ received \in Nat /\ received <= StreamLength /\ b + Kept = received
            /\ Kept = written + already /\ Kept \in 0..Limit
            /\ IF buffer = <<>> THEN ~active ELSE Holds(buffer, Kept, b)
      BY <1>4, <2>2, KeptBytes
    <3>2. PICK n \in 0..Limit : n = Kept
      BY <3>1
    <3>3. n = ParsedBytes(0) /\ Holds(buffer, n, b) /\ received' = b + n /\ received' \in 0..StreamLength
      BY <1>1, <1>4, <3>1, <3>2, SeparatorFacts DEF ParsedBytes
    <3>4. refused = {}
      BY <1>4, <2>2 DEF Sure
    <3>5. FramesInv' /\ (refused' # refused => BufferTooLong)
      BY <1>1, <1>4, <3>1, <3>3, <3>4, BufferParsed
    <3> QED BY <3>5, Zenon DEF RefusedForLength
  <2> QED BY <2>1, <2>2
<1> QED BY <1>2, <1>3, <1>4 DEF Call

LEMMA ReceiveChunkStep ==
  ASSUME FramesInv, NEW k \in 1..(StreamLength - received), ReceiveChunk(k)
  PROVE  FramesInv' /\ RefusedForLength
<1>1. mode = "chunks" /\ UNCHANGED <<mode, stream>> /\ received' = received + k /\ NextChunk(buffer \o Chunk(k))
  BY DEF ReceiveChunk, wire
<1>2. Sure
  BY <1>1 DEF Sure
<1>3. PICK b \in Nat :
        /\ b = Base /\ PacketsUpto(b) /\ Clear(b, b + offset + 1) /\ offset \in Nat
        /\ received \in Nat /\ received <= StreamLength /\ b + Kept = received
        /\ Following(buffer, b) /\ Kept = Len(buffer) /\ (~active => offset = 0)
  BY <1>1, <1>2, KeptBytes
<1>4. k \in Nat /\ Following(Chunk(k), received) /\ Len(Chunk(k)) = k
  <2>1. k \in Nat
    BY <1>3, SeparatorFacts
  <2> QED BY <1>3, <2>1, FollowingProperties DEF Chunk
<1>5. Following(buffer \o Chunk(k), b) /\ Len(buffer \o Chunk(k)) = Len(buffer) + Len(Chunk(k)) /\ Len(buffer) \in Nat
  <2>1. Following(Chunk(k), b + Len(buffer))
    BY <1>3, <1>4
  <2> QED BY <1>3, <2>1, FollowingProperties
<1>6. received' = b + Len(buffer \o Chunk(k)) /\ received' \in 0..StreamLength
  BY <1>1, <1>3, <1>4, <1>5, SeparatorFacts
<1>7. FramesInv' /\ (refused' # refused => TooLong)
  BY <1>1, <1>3, <1>5, <1>6, ChunkParsed
<1> QED BY <1>7, Zenon DEF RefusedForLength

LEMMA ReceiveIntoStep ==
  ASSUME FramesInv, NEW k \in 1..(StreamLength - received), ReceiveInto(k)
  PROVE  FramesInv' /\ RefusedForLength
<1> DEFINE mem == IF buffer = <<>> THEN Blank ELSE buffer
           from == IF active THEN written + already ELSE 0
<1>1. /\ mode = "buffered" /\ UNCHANGED <<mode, stream>> /\ received' = received + k /\ k <= Limit - from
      /\ NextBuffered(Write(mem, from, Chunk(k)), k)
  BY DEF ReceiveInto, wire
<1>2. CASE ~Sure
  <2>1. refused \subseteq refused'
    BY <1>1 DEF NextBuffered
  <2> QED BY <1>1, <1>2, <2>1, NotSure DEF wire
<1>3. CASE Sure
  <2>1. PICK b \in Nat :
          /\ b = Base /\ PacketsUpto(b) /\ Clear(b, b + offset + 1) /\ offset \in Nat
          /\ received \in Nat /\ received <= StreamLength /\ b + Kept = received
          /\ Kept = written + already /\ Kept \in 0..Limit /\ (~active => Kept = 0)
          /\ IF buffer = <<>> THEN ~active ELSE Holds(buffer, Kept, b)
    BY <1>1, <1>3, KeptBytes
  <2>2. PICK n \in 0..Limit : n = Kept
    BY <2>1
  <2>3. from = n /\ k \in Nat /\ Limit \in Nat /\ n \in Nat /\ received = b + n
    BY <2>1, <2>2, SeparatorFacts
  <2>4. Holds(mem, n, b)
    <3>1. CASE buffer = <<>>
      BY <2>1, <2>2, <3>1, BlankHolds
    <3>2. CASE buffer # <<>>
      BY <2>1, <2>2, <3>2
    <3> QED BY <3>1, <3>2
  <2> HIDE DEF mem, from
  <2>5. Following(Chunk(k), b + n) /\ Len(Chunk(k)) = k
    BY <2>1, <2>3, FollowingProperties DEF Chunk
  <2>6. Holds(Write(mem, n, Chunk(k)), n + k, b)
    <3>1. n + Len(Chunk(k)) <= Limit
      BY <1>1, <2>3, <2>5
    <3>2. Holds(Write(mem, n, Chunk(k)), n + Len(Chunk(k)), b)
      BY <2>3, <2>4, <2>5, <3>1, WriteHolds
    <3> QED BY <2>5, <3>2
  <2>7. PICK q \in 0..Limit : q = n + k
    BY <1>1, <2>3
  <2>8. ParsedBytes(k) = q /\ received' = b + q /\ received' \in 0..StreamLength
    <3>1. received' = received + k /\ received + k <= StreamLength
      BY <1>1, <2>1, SeparatorFacts
    <3>2. written + already = n
      BY <2>1, <2>2
    <3> QED BY <2>3, <2>7, <3>1, <3>2, SeparatorFacts DEF ParsedBytes
  <2>9. PICK new : new = Write(mem, n, Chunk(k))
    OBVIOUS
  <2>10. Holds(new, q, b) /\ NextBuffered(new, k) /\ refused = {}
    BY <1>1, <1>3, <2>3, <2>6, <2>7, <2>9 DEF Sure
  <2>11. FramesInv' /\ (refused' # refused => BufferTooLong)
    BY <1>1, <2>1, <2>8, <2>10, BufferParsed
  <2> QED BY <2>11, Zenon DEF RefusedForLength
<1> QED BY <1>2, <1>3

LEMMA FramesStep == FramesInv /\ [Next]_vars => FramesInv' /\ (UNCHANGED vars \/ RefusedForLength)
<1> SUFFICES ASSUME FramesInv, [Next]_vars PROVE FramesInv' /\ (UNCHANGED vars \/ RefusedForLength)
  OBVIOUS
<1>1. CASE Call
  BY <1>1, CallStep
<1>2. CASE Eof
  BY <1>2, TaskMoves DEF Eof
<1>3. CASE Cancel
  BY <1>3, TaskMoves DEF Cancel
<1>4. ASSUME NEW k \in 1..(StreamLength - received), ReceiveChunk(k) PROVE FramesInv' /\ RefusedForLength
  BY <1>4, ReceiveChunkStep
<1>5. ASSUME NEW k \in 1..(StreamLength - received), ReceiveInto(k) PROVE FramesInv' /\ RefusedForLength
  BY <1>5, ReceiveIntoStep
<1>6. CASE UNCHANGED vars
  BY <1>6, TaskMoves DEF vars
<1> QED BY <1>1, <1>2, <1>3, <1>4, <1>5, <1>6 DEF Next

LEMMA FramesInvariant == ReceptionSpec => [](FramesInv)
<1>1. ReceptionInit => FramesInv
  BY FramesInit DEF ReceptionInit
<1>2. FramesInv /\ [ReceptionNext]_<<part, vars, jsonVars, packetVars, serverVars>> => FramesInv'
  <2>1. [ReceptionNext]_<<part, vars, jsonVars, packetVars, serverVars>> => [Next]_vars
    BY DEF ReceptionNext
  <2> QED BY <2>1, FramesStep
<1> QED BY <1>1, <1>2, PTL DEF ReceptionSpec

\* The bytes that are kept for the packet to come follow those of the packets, and a task
\* that waits for the transport has no frame among them.
FramesTile ==
  Sure =>
    \E b \in 0..received :
      /\ Following(Held, b) /\ Len(Held) = received - b
      /\ PacketsUpto(b)
      /\ at = "receiving" => Clear(b, received)

\* recv_packet(): however the stream is cut in chunks, and whichever call is cancelled, the
\* packets of StreamDataConsumer.next() and of BufferedStreamDataConsumer.next() are
\* frames of the stream, in order, each with the end of no other; the bytes that
\* are kept are those that follow, so that each byte is in a packet, refused, or
\* kept, once; and while no packet is refused they are all the frames.  Of the
\* buffered consumer, this is said until it refuses a packet.
THEOREM FramesFollow == ReceptionSpec => []FramesTile
<1>1. FramesInv => FramesTile
  <2> SUFFICES ASSUME FramesInv, Sure
               PROVE  \E b \in 0..received :
                        /\ Following(Held, b) /\ Len(Held) = received - b
                        /\ PacketsUpto(b)
                        /\ at = "receiving" => Clear(b, received)
    BY DEF FramesTile
  <2>1. PICK b \in Nat :
          /\ b = Base /\ PacketsUpto(b) /\ received \in Nat /\ b + Kept = received
          /\ mode = "chunks" => Following(buffer, b) /\ Kept = Len(buffer)
          /\ mode = "buffered" =>
               /\ Kept = written + already /\ Kept \in 0..Limit /\ (~active => Kept = 0)
               /\ IF buffer = <<>> THEN ~active ELSE Holds(buffer, Kept, b)
    BY KeptBytes
  <2>2. Kept \in Nat /\ b \in 0..received /\ Kept = received - b
    <3>1. Kept \in Nat
      BY DEF FramesInv, KeptInv
    <3> QED BY <2>1, <3>1
  <2>3. Following(Held, b) /\ Len(Held) = received - b
    <3>1. CASE mode = "chunks"
      BY <2>1, <2>2, <3>1 DEF Held
    <3>2. CASE mode = "buffered"
      <4>1. Held = SubSeq(buffer, 1, Kept)
        BY <2>1, <3>2 DEF Held
      <4>2. \A i \in 1..Kept : buffer[i] = b + i
        <5>1. CASE buffer = <<>>
          BY <2>1, <2>2, <3>2, <5>1
        <5>2. CASE buffer # <<>>
          BY <2>1, <3>2, <5>2 DEF Holds
        <5> QED BY <5>1, <5>2
      <4>3. PICK k \in Nat : k = Kept
        BY <2>2
      <4> QED BY <2>2, <4>1, <4>2, <4>3, FirstBytes
    <3> QED BY <3>1, <3>2 DEF FramesInv
  <2>4. at = "receiving" => Clear(b, received)
    BY <2>1 DEF FramesInv, SearchInv
  <2> QED BY <2>1, <2>2, <2>3, <2>4
<1> QED BY <1>1, FramesInvariant, PTL

\* LimitOverrunError: read_until() refuses only a packet of more than Limit bytes, and
\* _buffered_readuntil() at first only one that leaves no byte of the buffer free with its
\* separator, whatever the chunks in which they are received.
THEOREM FramesRefusedForLength == ReceptionSpec => OnlyLongFramesRefused
<1>1. FramesInv /\ [ReceptionNext]_<<part, vars, jsonVars, packetVars, serverVars>> =>
        [refused' # refused =>
           \/ mode = "chunks" /\ LengthFrom(Min(refused' \ refused)) > Limit + SepLen
           \/ mode = "buffered" /\ (LengthFrom(Min(refused')) >= Limit \/ refused # {})]_vars
  <2>1. [ReceptionNext]_<<part, vars, jsonVars, packetVars, serverVars>> => [Next]_vars
    BY DEF ReceptionNext
  <2> QED BY <2>1, FramesStep DEF RefusedForLength, TooLong, BufferTooLong
<1> QED BY <1>1, FramesInvariant, PTL DEF ReceptionSpec, OnlyLongFramesRefused

-----------------------------------------------------------------------------
(***************************************************************************)
(* Packets of a fixed size, from files and from compressors                *)
(***************************************************************************)

SizedTypes ==
  /\ kind \in {"fixed", "file", "compressor"} /\ packetMode \in {"chunks", "buffered"}
  /\ packets \in [1..MaxPackets -> [size : Nat \ {0}, valid : BOOLEAN]]
  /\ kind = "fixed" => \A i \in 1..MaxPackets : packets[i].size = FixedSize
  /\ packetReceived \in Nat /\ packetReceived <= Sized!Upto(MaxPackets)
  /\ packetAt \in {"idle", "receiving", "lost"}

Loaded == Len(loaded)
\* Where the next packet begins.
Begun == Sized!Upto(Loaded)

\* The packets given are the first ones, whole; the bytes that follow are in the generator
\* or in the consumer, not in both, and the generator waits for more of them, or they were
\* dropped, and nothing else was.
SizedBytes ==
  /\ loaded \in Seq(Seq(Nat)) /\ Loaded \in 0..MaxPackets /\ \A i \in 1..Loaded : loaded[i] = Sized!Bytes(i)
  /\ packetAt # "lost" =>
       /\ packetRefused = {}
       /\ \/ rest = <<>> /\ Following(held, Begun) /\ Begun + Len(held) = packetReceived
          \/ held = <<>> /\ Following(rest, Begun) /\ Begun + Len(rest) = packetReceived
       /\ Loaded < MaxPackets => Len(held) < packets[Loaded + 1].size
       /\ packetAt = "receiving" => rest = <<>>
  /\ packetAt = "lost" =>
       /\ held = <<>> /\ rest = <<>> /\ Begun <= packetReceived
       /\ packetRefused = (Begun + 1)..packetReceived

SizedInv == SizedTypes /\ SizedBytes

LEMMA SizedOperators ==
  /\ \A s : Sized!SumOf(s) = SumAll(s)
  /\ \A s : Sized!Range(s) = Range(s) /\ Sized!FlattenSeq(s) = FlattenSeq(s)
  /\ \A S : Sized!Cardinality(S) = Cardinality(S)
<1>1. ASSUME NEW s PROVE Sized!SumOf(s) = SumAll(s)
  BY DEF SumAll, Sized!SumOf, Sized!FoldLeft, Sized!MapThenFoldSet, FoldLeft, MapThenFoldSet, Sized!Max, Max
<1>2. ASSUME NEW s PROVE Sized!Range(s) = Range(s)
  BY DEF Sized!Range, Range
<1>3. ASSUME NEW s PROVE Sized!FlattenSeq(s) = FlattenSeq(s)
  BY DEF Sized!FlattenSeq, FlattenSeq, Sized!FoldLeft, Sized!MapThenFoldSet, FoldLeft, MapThenFoldSet, Sized!Max, Max
<1>4. ASSUME NEW S PROVE Sized!Cardinality(S) = Cardinality(S)
  BY DEF Sized!Cardinality, Cardinality
<1> QED BY <1>1, <1>2, <1>3, <1>4

\* Where each packet begins.
LEMMA UptoIs ==
  ASSUME SizedTypes
  PROVE  /\ Sized!Upto(0) = 0 /\ Len(packets) = MaxPackets /\ MaxPackets \in Nat
         /\ \A i \in 0..MaxPackets : Sized!Upto(i) \in Nat
         /\ \A i \in 1..MaxPackets : Sized!Upto(i) = Sized!Upto(i - 1) + packets[i].size /\ packets[i].size \in Nat \ {0}
<1>1. MaxPackets \in Nat
  BY SerializerAssumption DEF Sized!SerializerParameters
<1>2. packets \in [1..MaxPackets -> [size : Nat \ {0}, valid : BOOLEAN]]
  BY DEF SizedTypes
<1>3. Len(packets) = MaxPackets
  BY <1>1, <1>2
<1>4. \A i \in 1..MaxPackets : packets[i].size \in Nat \ {0}
  BY <1>2
<1> DEFINE s == [i \in 1..MaxPackets |-> packets[i].size]
<1>5. s \in Seq(Nat) /\ Len(s) = MaxPackets /\ \A i \in 1..MaxPackets : s[i] = packets[i].size
  <2>1. s \in [1..MaxPackets -> Nat]
    BY <1>4
  <2> QED BY <1>1, <2>1, SeqDef
<1> HIDE DEF s
<1>6. PICK f : /\ Sums(f, s)
               /\ \A i \in 0..Len(s) : f[i] \in Nat /\ SumAll(SubSeq(s, 1, i)) = f[i]
  BY <1>5, PrefixSums
<1>7. ASSUME NEW i \in 0..MaxPackets PROVE Sized!Upto(i) = f[i]
  <2>1. SubSeq(s, 1, i) = [j \in 1..i |-> packets[j].size]
    <3>1. /\ SubSeq(s, 1, i) \in Seq(Nat) /\ Len(SubSeq(s, 1, i)) = IF 1 <= i THEN i - 1 + 1 ELSE 0
          /\ \A j \in 1..(i - 1 + 1) : SubSeq(s, 1, i)[j] = s[1 + j - 1]
      <4>1. \A j \in 1..i : s[j] \in Nat
        BY <1>4, <1>5
      <4> QED BY <4>1, SubSeqProperties
    <3>2. Len(SubSeq(s, 1, i)) = i
      BY <3>1
    <3>3. ASSUME NEW j \in 1..i PROVE SubSeq(s, 1, i)[j] = packets[j].size
      <4>1. j \in 1..(i - 1 + 1) /\ 1 + j - 1 = j /\ j \in 1..MaxPackets
        BY <1>1
      <4> QED BY <1>5, <3>1, <4>1
    <3>4. SubSeq(s, 1, i) = [j \in 1..i |-> SubSeq(s, 1, i)[j]]
      BY <3>1, <3>2, LenProperties
    <3> QED BY <3>3, <3>4
  <2>2. Sized!SumOf([j \in 1..i |-> packets[j].size]) = SumAll([j \in 1..i |-> packets[j].size])
    BY SizedOperators
  <2>3. SumAll([j \in 1..i |-> packets[j].size]) = f[i]
    <3>1. i \in 0..Len(s)
      BY <1>5
    <3> QED BY <1>6, <2>1, <3>1
  <2> QED BY <2>2, <2>3 DEF Sized!Upto
<1>8. f[0] = 0 /\ \A i \in 1..MaxPackets : f[i] = f[i - 1] + s[i]
  BY <1>5, <1>6 DEF Sums
<1>9. \A i \in 1..MaxPackets : i - 1 \in 0..MaxPackets /\ i \in 0..MaxPackets
  BY <1>1
<1>10. \A i \in 0..MaxPackets : Sized!Upto(i) \in Nat
  BY <1>5, <1>6, <1>7
<1>11. 0 \in 0..MaxPackets
  BY <1>1
<1> QED BY <1>1, <1>3, <1>4, <1>5, <1>7, <1>8, <1>9, <1>10, <1>11

LEMMA SizedInit == Sized!Init => SizedInv
<1> SUFFICES ASSUME Sized!Init PROVE SizedInv
  OBVIOUS
<1>1. /\ kind \in {"fixed", "file", "compressor"} /\ packetMode \in {"chunks", "buffered"}
      /\ packets \in [1..MaxPackets -> [size : IF kind = "fixed" THEN {FixedSize} ELSE Sizes, valid : BOOLEAN]]
      /\ packetReceived = 0 /\ packetAt = "idle" /\ held = <<>> /\ rest = <<>> /\ loaded = <<>> /\ packetRefused = {}
  BY DEF Sized!Init
<1>2. MaxPackets \in Nat /\ Sizes \subseteq Nat \ {0} /\ FixedSize \in Nat \ {0}
  BY SerializerAssumption DEF Sized!SerializerParameters
<1>3. /\ packets \in [1..MaxPackets -> [size : Nat \ {0}, valid : BOOLEAN]]
      /\ kind = "fixed" => \A i \in 1..MaxPackets : packets[i].size = FixedSize
  BY <1>1, <1>2
<1>4. SizedTypes
  <2>1. Sized!Upto(MaxPackets) \in Nat
    <3> DEFINE s == [i \in 1..MaxPackets |-> packets[i].size]
    <3>1. s \in Seq(Nat)
      <4>1. s \in [1..MaxPackets -> Nat]
        BY <1>3
      <4> QED BY <1>2, <4>1, SeqDef
    <3>2. Sized!Upto(MaxPackets) = SumAll(s)
      BY SizedOperators DEF Sized!Upto
    <3> HIDE DEF s
    <3>3. PICK f : SumAll(s) = f[Len(s)] /\ \A i \in 0..Len(s) : f[i] \in Nat /\ SumAll(SubSeq(s, 1, i)) = f[i]
      BY <3>1, PrefixSums
    <3>4. Len(s) \in Nat
      BY <3>1, LenProperties
    <3> QED BY <3>2, <3>3, <3>4
  <2> QED BY <1>1, <1>3, <2>1 DEF SizedTypes
<1>5. Loaded = 0 /\ Begun = 0
  BY <1>1, <1>4, UptoIs, EmptySeq DEF Loaded, Begun
<1>6. Following(<<>>, 0) /\ Len(<<>>) = 0 /\ <<>> \in Seq(Seq(Nat))
  BY FollowingProperties, EmptySeq
<1>7. Loaded < MaxPackets => Len(held) < packets[Loaded + 1].size
  <2> SUFFICES ASSUME Loaded < MaxPackets PROVE Len(held) < packets[Loaded + 1].size
    OBVIOUS
  <2>1. 1 \in 1..MaxPackets /\ Loaded + 1 = 1
    BY <1>2, <1>5
  <2> QED BY <1>1, <1>3, <1>6, <2>1
<1>8. SizedBytes
  BY <1>1, <1>2, <1>5, <1>6, <1>7 DEF SizedBytes
<1> QED BY <1>4, <1>8 DEF SizedInv

\* Nothing that the invariant reads has changed.
LEMMA SizedFrame ==
  ASSUME SizedInv, UNCHANGED <<kind, packetMode, packets>>
  PROVE  /\ \A i : Sized!Upto(i)' = Sized!Upto(i) /\ Sized!Bytes(i)' = Sized!Bytes(i)
         /\ packetReceived' \in Nat /\ packetReceived' <= Sized!Upto(MaxPackets) /\ packetAt' \in {"idle", "receiving", "lost"}
            => SizedTypes'
<1>1. \A i : Sized!Upto(i)' = Sized!Upto(i)
  BY DEF Sized!Upto
<1>2. \A i : Sized!Bytes(i)' = Sized!Bytes(i)
  BY <1>1 DEF Sized!Bytes
<1> QED BY <1>1, <1>2 DEF SizedInv, SizedTypes

\* The first k bytes of those that follow b.
LEMMA FirstFollow ==
  ASSUME NEW b \in Nat, NEW s, Following(s, b), NEW k \in 0..Len(s)
  PROVE  Following(SubSeq(s, 1, k), b) /\ Len(SubSeq(s, 1, k)) = k
<1>1. k \in Nat /\ \A i \in 1..k : s[i] = b + i
  BY FollowingProperties DEF Following
<1> QED BY <1>1, FirstBytes

\* The generator has the bytes data, which follow those of the packets given.
LEMMA SizedFeed ==
  ASSUME SizedInv, packetAt # "lost", UNCHANGED <<kind, packetMode, packets>>,
         packetReceived' \in Nat, packetReceived' <= Sized!Upto(MaxPackets),
         NEW new, NEW data, data = held \o new, Sized!Feed(new),
         Following(data, Begun), Begun + Len(data) = packetReceived'
  PROVE  SizedInv'
<1>1. /\ MaxPackets \in Nat /\ FixedSize \in Nat \ {0} /\ Limit \in Nat /\ FileLimit \in Nat \ {0}
  BY SerializerAssumption, Parameters DEF Sized!SerializerParameters
<1>2. PICK n \in 0..MaxPackets : n = Loaded
  BY DEF SizedInv, SizedBytes
<1>3. PICK b \in Nat : b = Begun
  BY <1>2, UptoIs DEF SizedInv, Begun
<1>4. PICK len \in Nat : len = Len(data)
  BY <1>3, FollowingProperties
<1>5. /\ loaded \in Seq(Seq(Nat)) /\ Len(loaded) = n /\ \A i \in 1..n : loaded[i] = Sized!Bytes(i)
      /\ packetRefused = {} /\ SizedTypes
  BY <1>2 DEF SizedInv, SizedBytes, Loaded
<1>6. b = Sized!Upto(n) /\ Following(data, b) /\ b + len = packetReceived'
  BY <1>2, <1>3, <1>4 DEF Begun
<1>7. PICK z \in Nat : n < MaxPackets => z = packets[n + 1].size /\ z # 0 /\ Sized!Upto(n + 1) = b + z
  <2>1. CASE n < MaxPackets
    <3>1. n + 1 \in 1..MaxPackets /\ (n + 1) - 1 = n
      BY <1>1, <2>1
    <3> QED BY <1>5, <1>6, <3>1, UptoIs
  <2> QED BY <2>1
<1>8. n = MaxPackets => len = 0
  BY <1>5, <1>6, UptoIs
<1>9. Sized!Complete(data) <=> n < MaxPackets /\ len >= z
  BY <1>1, <1>4, <1>5, <1>7, UptoIs DEF Sized!Complete, Sized!Following
<1>10. PICK out : out = Sized!Parse(data, Len(new))
  OBVIOUS
<1>11. IF out.is = "more"
       THEN held' = data /\ rest' = <<>> /\ packetAt' = "receiving" /\ UNCHANGED <<loaded, packetRefused>>
       ELSE /\ held' = <<>> /\ rest' = out.rest
            /\ packetAt' = IF out.lost = {} THEN "idle" ELSE "lost"
            /\ loaded' = IF out.is = "packet" THEN Append(loaded, out.doc) ELSE loaded
            /\ packetRefused' = packetRefused \cup out.lost
  BY <1>10 DEF Sized!Feed
<1>12. \/ out.is = "more" /\ ~Sized!Complete(data)
       \/ out = Sized!Gives(z, data) /\ Sized!Complete(data)
       \/ /\ out = [is |-> "overrun", doc |-> <<>>, rest |-> <<>>, lost |-> Range(data)]
          /\ len # 0
       \/ /\ out = [Sized!Gives(z, data) EXCEPT !.rest = <<>>, !.lost = Range(Sized!Gives(z, data).rest)]
          /\ Sized!Complete(data)
  <2>1. CASE kind = "fixed"
    <3>1. out = Sized!ParseFixed(data)
      BY <1>10, <2>1 DEF Sized!Parse
    <3>2. n < MaxPackets => z = FixedSize
      <4>1. n < MaxPackets => n + 1 \in 1..MaxPackets
        BY <1>1
      <4> QED BY <1>5, <1>7, <2>1, <4>1 DEF SizedTypes
    <3>3. CASE len < FixedSize
      <4>1. ~Sized!Complete(data)
        BY <1>9, <3>2, <3>3
      <4> QED BY <1>4, <3>1, <3>3, <4>1 DEF Sized!ParseFixed, Sized!Wants
    <3>4. CASE ~(len < FixedSize)
      <4>1. n < MaxPackets
        BY <1>1, <1>8, <3>4
      <4>2. Sized!Complete(data) /\ z = FixedSize
        BY <1>1, <1>9, <3>2, <3>4, <4>1
      <4> QED BY <1>4, <3>1, <3>4, <4>2 DEF Sized!ParseFixed
    <3> QED BY <3>3, <3>4
  <2>2. CASE kind = "file"
    <3>1. out = Sized!ParseFile(data)
      BY <1>10, <2>2 DEF Sized!Parse
    <3>2. CASE len > FileLimit
      <4>1. out = [is |-> "overrun", doc |-> <<>>, rest |-> <<>>, lost |-> Range(data)]
        BY <1>4, <3>1, <3>2, SizedOperators DEF Sized!ParseFile
      <4> QED BY <1>1, <3>2, <4>1
    <3>3. CASE ~(len > FileLimit) /\ Sized!Complete(data)
      <4>1. packets[Sized!Following].size = z
        BY <1>5, <1>7, <1>9, <3>3 DEF Sized!Following
      <4> QED BY <1>4, <3>1, <3>3, <4>1 DEF Sized!ParseFile
    <3>4. CASE ~(len > FileLimit) /\ ~Sized!Complete(data)
      BY <1>4, <3>1, <3>4 DEF Sized!ParseFile, Sized!Wants
    <3> QED BY <3>2, <3>3, <3>4
  <2>3. CASE kind = "compressor"
    <3>1. out = Sized!ParseCompressed(data)
      BY <1>10, <2>3 DEF Sized!Parse
    <3>2. CASE Sized!Complete(data)
      <4>1. packets[Sized!Following].size = z
        BY <1>5, <1>7, <1>9, <3>2 DEF Sized!Following
      <4> QED BY <3>1, <3>2, <4>1, SizedOperators DEF Sized!ParseCompressed
    <3>3. CASE ~Sized!Complete(data)
      BY <3>1, <3>3 DEF Sized!ParseCompressed, Sized!Wants
    <3> QED BY <3>2, <3>3
  <2> QED BY <1>5, <2>1, <2>2, <2>3 DEF SizedTypes
<1>13. \A i : Sized!Upto(i)' = Sized!Upto(i) /\ Sized!Bytes(i)' = Sized!Bytes(i)
  BY SizedFrame
<1>14. SizedTypes'
  <2>1. packetAt' \in {"idle", "receiving", "lost"}
    BY <1>11
  <2> QED BY <2>1, SizedFrame
<1>15. CASE out.is = "more" /\ ~Sized!Complete(data)
  <2>1. held' = data /\ rest' = <<>> /\ packetAt' = "receiving" /\ UNCHANGED <<loaded, packetRefused>>
    BY <1>11, <1>15
  <2>2. Loaded' = n /\ Begun' = b
    BY <1>2, <1>6, <1>13, <2>1 DEF Loaded, Begun
  <2>3. n < MaxPackets => len < z
    BY <1>9, <1>15
  <2>4. \A i \in 1..n : loaded'[i] = Sized!Bytes(i)'
    BY <1>5, <1>13, <2>1
  <2>5. n < MaxPackets => Len(held') < packets'[n + 1].size
    BY <1>4, <1>7, <2>1, <2>3
  <2>6. SizedBytes'
    BY <1>4, <1>5, <1>6, <2>1, <2>2, <2>4, <2>5 DEF SizedBytes
  <2> QED BY <1>14, <2>6 DEF SizedInv
<1>16. ASSUME Sized!Complete(data)
       PROVE  LET g == Sized!Gives(z, data) IN
              /\ n < MaxPackets /\ len >= z /\ g.is = "packet" /\ g.lost = {}
              /\ Append(loaded, g.doc) \in Seq(Seq(Nat)) /\ Len(Append(loaded, g.doc)) = n + 1
              /\ \A i \in 1..(n + 1) : Append(loaded, g.doc)[i] = Sized!Bytes(i)
              /\ Following(g.rest, b + z) /\ Len(g.rest) = len - z
  <2>1. n < MaxPackets /\ len >= z /\ z \in 0..Len(data)
    BY <1>4, <1>9, <1>16
  <2>2. PICK doc : doc = SubSeq(data, 1, z)
    OBVIOUS
  <2>3. Following(doc, b) /\ Len(doc) = z
    BY <1>6, <2>1, <2>2, FirstFollow
  <2>4. doc = Sized!Bytes(n + 1)
    <3>1. Sized!Bytes(n + 1) = [j \in 1..z |-> b + j]
      <4>1. (n + 1) - 1 = n
        OBVIOUS
      <4> QED BY <1>6, <1>7, <2>1, <4>1 DEF Sized!Bytes
    <3>2. doc \in Seq(Nat) /\ \A j \in 1..z : doc[j] = b + j
      BY <2>3 DEF Following
    <3>3. doc = [j \in 1..z |-> doc[j]]
      BY <2>3, <3>2, LenProperties
    <3> QED BY <3>1, <3>2, <3>3
  <2>5. /\ Append(loaded, doc) \in Seq(Seq(Nat)) /\ Len(Append(loaded, doc)) = n + 1
        /\ \A i \in 1..(n + 1) : Append(loaded, doc)[i] = Sized!Bytes(i)
    <3>1. doc \in Seq(Nat)
      BY <2>3 DEF Following
    <3>2. /\ Append(loaded, doc) \in Seq(Seq(Nat)) /\ Len(Append(loaded, doc)) = n + 1
          /\ \A i \in 1..n : Append(loaded, doc)[i] = loaded[i]
          /\ Append(loaded, doc)[n + 1] = doc
      BY <1>5, <3>1, AppendProperties
    <3>3. ASSUME NEW i \in 1..(n + 1) PROVE Append(loaded, doc)[i] = Sized!Bytes(i)
      <4>1. i \in 1..n \/ i = n + 1
        OBVIOUS
      <4> QED BY <1>5, <2>4, <3>2, <4>1
    <3> QED BY <3>2, <3>3
  <2>6. Following(SubSeq(data, z + 1, Len(data)), b + z) /\ Len(SubSeq(data, z + 1, Len(data))) = len - z
    <3>1. b \in Nat /\ Following(data, b) /\ z \in 0..Len(data)
      BY <1>6, <2>1
    <3>2. Following(Rest(data, z), b + z) /\ Len(Rest(data, z)) = Len(data) - z
      BY <3>1, RestFollows, Zenon
    <3> QED BY <1>4, <3>2 DEF Rest
  <2> QED BY <2>1, <2>2, <2>5, <2>6 DEF Sized!Gives
<1>17. PICK g : g = Sized!Gives(z, data)
  OBVIOUS
<1>18. ASSUME Sized!Complete(data), loaded' = Append(loaded, g.doc)
       PROVE  /\ loaded' \in Seq(Seq(Nat)) /\ Loaded' = n + 1 /\ n + 1 \in 0..MaxPackets /\ Begun' = b + z
              /\ \A i \in 1..(n + 1) : loaded'[i] = Sized!Bytes(i)'
              /\ b + z <= packetReceived'
              /\ n + 1 < MaxPackets => 0 < packets'[(n + 1) + 1].size
  <2>1. /\ n < MaxPackets /\ len >= z
        /\ Append(loaded, g.doc) \in Seq(Seq(Nat)) /\ Len(Append(loaded, g.doc)) = n + 1
        /\ \A i \in 1..(n + 1) : Append(loaded, g.doc)[i] = Sized!Bytes(i)
    BY <1>16, <1>17, <1>18
  <2>2. Loaded' = n + 1 /\ Begun' = b + z
    BY <1>7, <1>13, <1>18, <2>1 DEF Loaded, Begun
  <2>3. n + 1 \in 0..MaxPackets /\ b + z <= packetReceived'
    BY <1>1, <1>6, <2>1
  <2>4. n + 1 < MaxPackets => 0 < packets'[(n + 1) + 1].size
    <3>1. n + 1 < MaxPackets => (n + 1) + 1 \in 1..MaxPackets
      BY <1>1
    <3> QED BY <1>5, <3>1, UptoIs
  <2> QED BY <1>13, <1>18, <2>1, <2>2, <2>3, <2>4
<1>19. CASE out = Sized!Gives(z, data) /\ Sized!Complete(data)
  <2>1. /\ out = g /\ out.is = "packet" /\ out.lost = {} /\ Following(g.rest, b + z) /\ Len(g.rest) = len - z
        /\ len >= z
    BY <1>16, <1>17, <1>19
  <2>2. /\ held' = <<>> /\ rest' = g.rest /\ packetAt' = "idle" /\ loaded' = Append(loaded, g.doc) /\ packetRefused' = {}
    BY <1>5, <1>11, <2>1
  <2>3. (b + z) + Len(rest') = packetReceived'
    BY <1>6, <2>1, <2>2
  <2>4. Len(held') = 0
    BY <2>2, EmptySeq
  <2>5. SizedBytes'
    BY <1>18, <1>19, <2>1, <2>2, <2>3, <2>4 DEF SizedBytes
  <2> QED BY <1>14, <2>5 DEF SizedInv
<1>20. ASSUME NEW lost, NEW c \in Nat, held' = <<>>, rest' = <<>>, packetAt' = IF lost = {} THEN "idle" ELSE "lost",
              packetRefused' = lost, lost = (c + 1)..packetReceived', c <= packetReceived', Begun' = c,
              loaded' \in Seq(Seq(Nat)), Loaded' \in 0..MaxPackets, \A i \in 1..Loaded' : loaded'[i] = Sized!Bytes(i)',
              lost = {} => (Loaded' < MaxPackets => 0 < packets'[Loaded' + 1].size)
       PROVE  SizedInv'
  <2>1. Len(<<>>) = 0 /\ Following(<<>>, c)
    BY EmptySeq, FollowingProperties
  <2>2. lost = {} => c + Len(rest') = packetReceived'
    <3>1. c # packetReceived' => packetReceived' \in (c + 1)..packetReceived'
      BY <1>20
    <3>2. lost = {} => c = packetReceived'
      BY <1>20, <3>1
    <3>3. Len(rest') = 0
      BY <1>20, <2>1
    <3> QED BY <3>2, <3>3
  <2>3. SizedBytes'
    BY <1>20, <2>1, <2>2 DEF SizedBytes
  <2> QED BY <1>14, <2>3 DEF SizedInv
<1>21. CASE out = [is |-> "overrun", doc |-> <<>>, rest |-> <<>>, lost |-> Range(data)] /\ len # 0
  <2>1. /\ held' = <<>> /\ rest' = <<>> /\ packetAt' = (IF Range(data) = {} THEN "idle" ELSE "lost")
        /\ loaded' = loaded /\ packetRefused' = Range(data)
    BY <1>5, <1>11, <1>21
  <2>2. Range(data) = (b + 1)..packetReceived'
    BY <1>4, <1>6, RangeOfFollowing
  <2>3. Range(data) # {}
    <3>1. b + 1 \in (b + 1)..packetReceived'
      BY <1>6, <1>21
    <3> QED BY <2>2, <3>1
  <2>4. Loaded' = n /\ Begun' = b /\ \A i \in 1..n : loaded'[i] = Sized!Bytes(i)'
    BY <1>2, <1>5, <1>6, <1>13, <2>1 DEF Loaded, Begun
  <2>5. b <= packetReceived'
    BY <1>6
  <2> QED BY <1>5, <1>20, <2>1, <2>2, <2>3, <2>4, <2>5
<1>22. CASE /\ out = [Sized!Gives(z, data) EXCEPT !.rest = <<>>, !.lost = Range(Sized!Gives(z, data).rest)]
            /\ Sized!Complete(data)
  <2>1. Following(g.rest, b + z) /\ Len(g.rest) = len - z /\ len >= z
    BY <1>16, <1>17, <1>22
  <2>2. out.is = "packet" /\ out.rest = <<>> /\ out.lost = Range(g.rest) /\ out.doc = g.doc
    BY <1>17, <1>22 DEF Sized!Gives
  <2>3. /\ held' = <<>> /\ rest' = <<>> /\ packetAt' = (IF Range(g.rest) = {} THEN "idle" ELSE "lost")
        /\ loaded' = Append(loaded, g.doc) /\ packetRefused' = Range(g.rest)
    BY <1>5, <1>11, <2>2
  <2>4. Range(g.rest) = ((b + z) + 1)..packetReceived'
    <3>1. PICK c \in Nat : c = b + z
      OBVIOUS
    <3>2. Following(g.rest, c) /\ c + Len(g.rest) = packetReceived'
      BY <1>6, <2>1, <3>1
    <3> QED BY <3>1, <3>2, RangeOfFollowing
  <2>5. PICK c \in Nat : c = b + z
    OBVIOUS
  <2>6. /\ loaded' \in Seq(Seq(Nat)) /\ Loaded' \in 0..MaxPackets /\ \A i \in 1..Loaded' : loaded'[i] = Sized!Bytes(i)'
        /\ Begun' = c /\ c <= packetReceived' /\ (Loaded' < MaxPackets => 0 < packets'[Loaded' + 1].size)
    BY <1>18, <1>22, <2>3, <2>5
  <2> QED BY <1>20, <2>3, <2>4, <2>5, <2>6
<1> QED BY <1>12, <1>15, <1>19, <1>21, <1>22

LEMMA SizedCall == SizedInv /\ Sized!Call => SizedInv'
<1> SUFFICES ASSUME SizedInv, Sized!Call PROVE SizedInv'
  OBVIOUS
<1>1. packetAt = "idle" /\ UNCHANGED <<kind, packetMode, packets, packetReceived>>
  BY DEF Sized!Call, Sized!wire
<1>2. packetReceived' \in Nat /\ packetReceived' <= Sized!Upto(MaxPackets)
  BY <1>1 DEF SizedInv, SizedTypes
<1>3. CASE rest # <<>> /\ Sized!Feed(rest)
  <2>1. held = <<>> /\ Following(rest, Begun) /\ Begun + Len(rest) = packetReceived
    BY <1>1, <1>3 DEF SizedInv, SizedBytes
  <2>2. PICK data : data = rest
    OBVIOUS
  <2>3. data = held \o rest
    <3>1. rest \in Seq(Nat)
      BY <2>1 DEF Following
    <3> QED BY <2>1, <2>2, <3>1
  <2> QED BY <1>1, <1>2, <1>3, <2>1, <2>2, <2>3, SizedFeed
<1>4. CASE rest = <<>> /\ packetAt' = "receiving" /\ UNCHANGED <<held, rest, loaded, packetRefused>>
  <2>1. SizedTypes'
    BY <1>1, <1>2, <1>4, SizedFrame
  <2>2. Loaded' = Loaded /\ Begun' = Begun /\ \A i : Sized!Bytes(i)' = Sized!Bytes(i)
    BY <1>1, <1>4, SizedFrame DEF Loaded, Begun
  <2>3. SizedBytes'
    BY <1>1, <1>4, <2>2 DEF SizedInv, SizedBytes
  <2> QED BY <2>1, <2>3 DEF SizedInv
<1> QED BY <1>3, <1>4 DEF Sized!Call

LEMMA SizedReceive == ASSUME SizedInv, NEW k \in 1..Sized!Extent, Sized!Receive(k) PROVE SizedInv'
<1>1. /\ packetAt = "receiving" /\ packetReceived + k <= Sized!Extent /\ packetReceived' = packetReceived + k
      /\ Sized!Feed([i \in 1..k |-> packetReceived + i]) /\ UNCHANGED <<kind, packetMode, packets>>
  BY DEF Sized!Receive, Sized!wire
<1>2. Sized!Extent = Sized!Upto(MaxPackets) /\ Sized!Upto(MaxPackets) \in Nat
  BY UptoIs DEF SizedInv, Sized!Extent
<1>3. packetReceived \in Nat /\ k \in Nat
  BY <1>2 DEF SizedInv, SizedTypes
<1>4. rest = <<>> /\ Following(held, Begun) /\ Begun + Len(held) = packetReceived
  <2>1. /\ rest = <<>> /\ Loaded \in 0..MaxPackets
        /\ \/ Following(held, Begun) /\ Begun + Len(held) = packetReceived
           \/ held = <<>> /\ Begun + Len(rest) = packetReceived
    BY <1>1 DEF SizedInv, SizedBytes
  <2>2. PICK b \in Nat : b = Begun
    BY <2>1, UptoIs DEF SizedInv, Begun
  <2>3. Following(<<>>, b)
    BY FollowingProperties
  <2> QED BY <2>1, <2>2, <2>3
<1>5. PICK b \in Nat : b = Begun
  <2>1. Loaded \in 0..MaxPackets
    BY DEF SizedInv, SizedBytes
  <2> QED BY <2>1, UptoIs DEF SizedInv, Begun
<1>6. PICK new : new = [i \in 1..k |-> packetReceived + i]
  OBVIOUS
<1>7. Following(new, packetReceived) /\ Len(new) = k
  BY <1>3, <1>6, FollowingProperties
<1>8. PICK data : data = held \o new
  OBVIOUS
<1>9. Following(data, b) /\ Len(data) = Len(held) + k /\ Len(held) \in Nat
  <2>1. Following(held, b) /\ b + Len(held) = packetReceived
    BY <1>4, <1>5
  <2>2. Following(new, b + Len(held))
    BY <1>7, <2>1
  <2>3. Following(held \o new, b) /\ Len(held \o new) = Len(held) + Len(new) /\ Len(held) \in Nat
    BY <2>1, <2>2, FollowingProperties
  <2> QED BY <1>7, <1>8, <2>3
<1>10. Following(data, Begun) /\ Begun + Len(data) = packetReceived'
  BY <1>1, <1>3, <1>4, <1>5, <1>9
<1>11. packetReceived' \in Nat /\ packetReceived' <= Sized!Upto(MaxPackets) /\ Sized!Feed(new) /\ packetAt # "lost"
  BY <1>1, <1>2, <1>3, <1>6
<1> QED BY <1>1, <1>8, <1>10, <1>11, SizedFeed

LEMMA SizedStep == SizedInv /\ [Sized!Next]_packetVars => SizedInv'
<1> SUFFICES ASSUME SizedInv, [Sized!Next]_packetVars PROVE SizedInv'
  OBVIOUS
<1>1. CASE Sized!Cancel \/ UNCHANGED packetVars
  <2>1. /\ UNCHANGED <<kind, packetMode, packets, packetReceived, held, rest, loaded, packetRefused>>
        /\ packetAt' = packetAt \/ (packetAt = "receiving" /\ packetAt' = "idle")
    BY <1>1 DEF Sized!Cancel, Sized!wire, packetVars
  <2>2. SizedTypes'
    BY <2>1, SizedFrame DEF SizedInv, SizedTypes
  <2>3. Loaded' = Loaded /\ Begun' = Begun /\ \A i : Sized!Bytes(i)' = Sized!Bytes(i)
    BY <2>1, SizedFrame DEF Loaded, Begun
  <2>4. SizedBytes'
    BY <2>1, <2>3 DEF SizedInv, SizedBytes
  <2> QED BY <2>2, <2>4 DEF SizedInv
<1>2. CASE Sized!Call
  BY <1>2, SizedCall
<1>3. CASE \E k \in 1..Sized!Extent : Sized!Receive(k)
  BY <1>3, SizedReceive
<1> QED BY <1>1, <1>2, <1>3 DEF Sized!Next

\* Those that follow the first a ones.
LEMMA TwoFollow ==
  ASSUME NEW a \in Nat, NEW s, NEW t, Following(s, 0), Len(s) = a, Following(t, a)
  PROVE  Following(s \o t, 0) /\ Len(s \o t) = a + Len(t) /\ Len(t) \in Nat
<1>1. PICK n \in Nat : n = 0
  OBVIOUS
<1>2. PICK m \in Nat : m = n + Len(s) /\ m = a
  BY <1>1
<1>3. Following(s, n) /\ Following(t, n + Len(s))
  BY <1>1, <1>2
<1>4. Following(s \o t, n) /\ Len(s \o t) = Len(s) + Len(t)
  <2>1. \A x, y : Following(x, n) /\ Following(y, n + Len(x)) =>
                    Following(x \o y, n) /\ Len(x \o y) = Len(x) + Len(y)
    BY FollowingProperties
  <2> QED BY <1>3, <2>1, Zenon
<1>5. Len(t) \in Nat
  BY FollowingProperties
<1> QED BY <1>1, <1>4, <1>5

\* The packets given, the generator and the consumer have all the bytes, in order.
LEMMA SizedIntact == SizedInv => Sized!PacketsIntact
<1> SUFFICES ASSUME SizedInv PROVE Sized!PacketsIntact
  OBVIOUS
<1>1. PICK n \in 0..MaxPackets : n = Len(loaded) /\ n = Loaded /\ loaded \in Seq(Seq(Nat))
  BY DEF SizedInv, SizedBytes, Loaded
<1>2. PICK b \in Nat : b = Begun /\ b = Sized!Upto(n)
  BY <1>1, UptoIs DEF SizedInv, Begun
<1>3. DOMAIN loaded = 1..n /\ \A i \in 1..n : loaded[i] = Sized!Bytes(i)
  <2>1. \A i \in 1..n : loaded[i] = Sized!Bytes(i)
    BY <1>1 DEF SizedInv, SizedBytes
  <2> QED BY <1>1, <2>1, LenProperties
<1>4. MaxPackets \in Nat /\ n \in Nat /\ Len(packets) = MaxPackets /\ packetReceived \in Nat
  BY <1>1, UptoIs DEF SizedInv, SizedTypes
<1>5. packetAt = "receiving" => (Sized!Following <= Len(packets) => Sized!Upto(Sized!Following) > packetReceived)
  <2> SUFFICES ASSUME packetAt = "receiving", n + 1 <= MaxPackets PROVE Sized!Upto(n + 1) > packetReceived
    BY <1>1, <1>4 DEF Sized!Following
  <2>1. n + 1 \in 1..MaxPackets /\ (n + 1) - 1 = n /\ n < MaxPackets
    BY <1>4
  <2>2. Sized!Upto(n + 1) = b + packets[n + 1].size /\ packets[n + 1].size \in Nat
    BY <1>2, <2>1, UptoIs DEF SizedInv
  <2>3. Len(held) < packets[n + 1].size
    BY <1>1, <2>1 DEF SizedInv, SizedBytes
  <2>4. b + Len(held) = packetReceived /\ Len(held) \in Nat
    <3>1. rest = <<>> /\ (\/ Following(held, b) /\ b + Len(held) = packetReceived
                          \/ held = <<>> /\ b + Len(rest) = packetReceived)
      BY <1>2 DEF SizedInv, SizedBytes
    <3>2. Following(<<>>, b)
      BY FollowingProperties
    <3> QED BY <3>1, <3>2, FollowingProperties
  <2> QED BY <2>2, <2>3, <2>4
<1>6. Following(FlattenSeq(loaded), 0) /\ Len(FlattenSeq(loaded)) = b
  <2> DEFINE e == [i \in 0..n |-> Sized!Upto(i)]
  <2>1. Pieces(loaded, e)
    <3>1. e \in [0..n -> Int] /\ loaded \in Seq(Seq(Int))
      <4>1. \A i \in 0..n : i \in 0..MaxPackets /\ Sized!Upto(i) \in Nat
        BY <1>4, UptoIs DEF SizedInv
      <4>2. loaded \in [1..n -> Seq(Int)]
        <5>1. loaded \in [1..n -> Seq(Nat)]
          BY <1>1, LenProperties
        <5>2. \A s \in Seq(Nat) : s \in Seq(Int)
          OBVIOUS
        <5> QED BY <5>1, <5>2
      <4> QED BY <1>4, <4>1, <4>2, SeqDef
    <3>2. ASSUME NEW i \in 1..n PROVE Counts(loaded[i], e[i - 1]) /\ Len(loaded[i]) = e[i] - e[i - 1]
      <4>1. i \in 1..MaxPackets /\ i - 1 \in 0..n /\ i \in 0..n /\ i - 1 \in 0..MaxPackets
        BY <1>4
      <4>2. e[i - 1] = Sized!Upto(i - 1) /\ e[i] = Sized!Upto(i)
        BY <4>1
      <4>3. PICK z \in Nat : z = packets[i].size /\ Sized!Upto(i) = Sized!Upto(i - 1) + z
        BY <4>1, UptoIs DEF SizedInv
      <4>4. PICK a \in Nat : a = Sized!Upto(i - 1)
        BY <4>1, UptoIs DEF SizedInv
      <4>5. loaded[i] = [j \in 1..z |-> a + j]
        BY <1>3, <4>3, <4>4 DEF Sized!Bytes
      <4>6. Following(loaded[i], a) /\ Len(loaded[i]) = z
        <5>1. Following([j \in 1..z |-> a + j], a) /\ Len([j \in 1..z |-> a + j]) = z
          BY FollowingProperties
        <5> QED BY <4>5, <5>1, Zenon
      <4>7. loaded[i] \in Seq(Int)
        BY <4>6 DEF Following
      <4>8. Counts(loaded[i], a)
        BY <4>6, <4>7 DEF Counts, Following
      <4> QED BY <4>2, <4>3, <4>4, <4>6, <4>8
    <3> HIDE DEF e
    <3> QED BY <1>1, <3>1, <3>2 DEF Pieces
  <2>2. e[0] = 0 /\ e[n] = b
    BY <1>2, <1>4, UptoIs DEF SizedInv
  <2> HIDE DEF e
  <2>3. Counts(FlattenSeq(loaded), e[0]) /\ Len(FlattenSeq(loaded)) = e[Len(loaded)] - e[0]
    BY <2>1, FlattenPieces
  <2>4. PICK s : s = FlattenSeq(loaded)
    OBVIOUS
  <2>5. s \in Seq(Int) /\ Len(s) = b /\ \A i \in 1..b : s[i] = i
    <3>1. n = Len(loaded) /\ n \in Nat
      BY <1>1
    <3>2. Counts(s, e[0]) /\ Len(s) = e[n] - e[0]
      BY <2>3, <2>4, <3>1, Zenon
    <3>3. Counts(s, 0) /\ Len(s) = b - 0
      BY <2>2, <3>2, Zenon
    <3> QED BY <3>3 DEF Counts
  <2>6. s \in Seq(Nat)
    <3>1. s \in [1..b -> Int]
      BY <2>5, LenProperties
    <3>2. s \in [1..b -> Nat]
      BY <2>5, <3>1
    <3> QED BY <3>2, SeqDef
  <2> QED BY <2>4, <2>5, <2>6 DEF Following
<1>7. PICK c \in Nat : c = b + Len(held) + Len(rest) /\ Following((FlattenSeq(loaded) \o held) \o rest, 0)
                       /\ Len((FlattenSeq(loaded) \o held) \o rest) = c
  <2>1. \/ held = <<>> /\ Following(rest, b)
        \/ rest = <<>> /\ Following(held, b)
    <3>1. Following(<<>>, b)
      BY FollowingProperties
    <3> QED BY <1>2, <3>1 DEF SizedInv, SizedTypes, SizedBytes
  <2>2. PICK s : s = FlattenSeq(loaded)
    OBVIOUS
  <2>3. Following(s, 0) /\ Len(s) = b /\ s \in Seq(Nat) /\ 0 + Len(s) = b /\ 0 \in Nat /\ Len(<<>>) = 0
    BY <1>6, <2>2, EmptySeq DEF Following
  <2>4. CASE held = <<>> /\ Following(rest, b)
    <3>1. Following(s \o rest, 0) /\ Len(s \o rest) = b + Len(rest) /\ Len(rest) \in Nat
      BY <2>3, <2>4, TwoFollow
    <3>2. s \o held = s
      BY <2>3, <2>4
    <3> QED BY <2>2, <2>3, <2>4, <3>1, <3>2
  <2>5. CASE rest = <<>> /\ Following(held, b)
    <3>1. Following(s \o held, 0) /\ Len(s \o held) = b + Len(held) /\ Len(held) \in Nat
      BY <2>3, <2>5, TwoFollow
    <3>2. (s \o held) \o rest = s \o held
      BY <2>5, <3>1 DEF Following
    <3> QED BY <2>2, <2>3, <2>5, <3>1, <3>2
  <2> QED BY <2>1, <2>4, <2>5
<1>8. packetReceived - Cardinality(packetRefused) = c
  <2>1. CASE packetAt # "lost"
    <3>1. packetRefused = {} /\ Cardinality({}) = 0 /\ Len(<<>>) = 0
      BY <2>1, FS_EmptySet, EmptySeq DEF SizedInv, SizedBytes
    <3>2. /\ Len(held) \in Nat /\ Len(rest) \in Nat
          /\ \/ rest = <<>> /\ b + Len(held) = packetReceived
             \/ held = <<>> /\ b + Len(rest) = packetReceived
      <4>1. /\ \/ rest = <<>> /\ Following(held, b) /\ b + Len(held) = packetReceived
               \/ held = <<>> /\ Following(rest, b) /\ b + Len(rest) = packetReceived
        BY <1>2, <2>1 DEF SizedInv, SizedBytes
      <4> QED BY <3>1, <4>1, FollowingProperties
    <3> QED BY <1>4, <1>7, <3>1, <3>2
  <2>2. CASE packetAt = "lost"
    <3>1. held = <<>> /\ rest = <<>> /\ b <= packetReceived /\ packetRefused = (b + 1)..packetReceived /\ Len(<<>>) = 0
      BY <1>2, <2>2, EmptySeq DEF SizedInv, SizedBytes
    <3>2. PICK a \in Int : a = b + 1
      OBVIOUS
    <3>3. Cardinality(a..packetReceived) = IF a > packetReceived THEN 0 ELSE packetReceived - a + 1
      BY <1>4, FS_Interval
    <3>4. Cardinality(packetRefused) = packetReceived - b
      BY <1>4, <3>1, <3>2, <3>3
    <3> QED BY <1>4, <1>7, <3>1, <3>4
  <2> QED BY <2>1, <2>2
<1>9. (FlattenSeq(loaded) \o held) \o rest = [i \in 1..c |-> i]
  <2>1. PICK s : s = (FlattenSeq(loaded) \o held) \o rest
    OBVIOUS
  <2>2. s \in Seq(Nat) /\ Len(s) = c /\ \A i \in 1..c : s[i] = i
    BY <1>7, <2>1 DEF Following
  <2>3. s = [i \in 1..c |-> s[i]]
    BY <2>2, LenProperties
  <2> QED BY <2>1, <2>2, <2>3
<1>10. Sized!FlattenSeq(loaded) = FlattenSeq(loaded) /\ Sized!Cardinality(packetRefused) = Cardinality(packetRefused)
  BY SizedOperators
<1> QED BY <1>3, <1>5, <1>8, <1>9, <1>10 DEF Sized!PacketsIntact

\* The serializer's constants allow it, and so does every step of the component.
LEMMA SizedInvariant == ReceptionSpec => []SizedInv
<1>1. ReceptionInit => SizedInv
  BY SizedInit DEF ReceptionInit
<1>2. SizedInv /\ [ReceptionNext]_<<part, vars, jsonVars, packetVars, serverVars>> => SizedInv'
  <2>1. [ReceptionNext]_<<part, vars, jsonVars, packetVars, serverVars>> => [Sized!Next]_packetVars
    BY DEF ReceptionNext
  <2> QED BY <2>1, SizedStep
<1> QED BY <1>1, <1>2, PTL DEF ReceptionSpec

\* FixedSizePacketSerializer, FileBasedPacketSerializer and the compressors: whatever the
\* chunks and whichever calls are cancelled, the packets given are those of the stream,
\* in order and whole, a receiver waits only when the next one is not complete, and the
\* bytes of the packets, of the generator and of the consumer are all those received
\* but the ones of a refusal, each of them once.
THEOREM SizedPacketsAreIntact == ReceptionSpec => []Sized!PacketsIntact
  BY SizedInvariant, SizedIntact, PTL

-----------------------------------------------------------------------------
(* The packets and the frames *)

\* A frame begins where the one before ended.
LEMMA FrameIs ==
  ASSUME NEW e \in Ends
  PROVE  \E c \in 0..(e - 1) :
           /\ FrameStart(e) = c + 1 /\ (c = 0 \/ c \in Ends) /\ Clear(c, e - 1)
           /\ Following(Frame(e), c) /\ Len(Frame(e)) = e - c
<1>1. e \in Nat /\ e >= 2 /\ e <= StreamLength /\ StreamLength \in Nat /\ \A f \in Ends : f \in Nat /\ f >= 2 /\ f <= StreamLength
  BY EndsAre, SeparatorFacts
<1> DEFINE Before == {f \in Ends : f < e}
<1>2. PICK c \in 0..(e - 1) : FrameStart(e) = c + 1 /\ (c = 0 \/ c \in Ends) /\ Clear(c, e - 1)
  <2>1. CASE Before = {}
    <3>1. FrameStart(e) = 0 + 1
      <4>1. ~(\E f \in Ends : f < e)
        BY <2>1
      <4> QED BY <4>1 DEF FrameStart
    <3>2. Clear(0, e - 1)
      BY <1>1, <2>1 DEF Clear
    <3> QED BY <1>1, <3>1, <3>2
  <2>2. CASE Before # {}
    <3>1. FrameStart(e) = Max(Before) + 1
      <4>1. \E f \in Ends : f < e
        BY <2>2
      <4> QED BY <4>1, Zenon DEF FrameStart
    <3>2. Before \in SUBSET (1..StreamLength)
      <4>1. ASSUME NEW f \in Before PROVE f \in 1..StreamLength
        BY <1>1
      <4> HIDE DEF Before
      <4> QED BY <4>1
    <3>3. Max(Before) \in Before /\ \A y \in Before : y <= Max(Before)
      <4> HIDE DEF Before
      <4> QED BY <1>1, <2>2, <3>2, MaxOfPart
    <3>4. PICK c : c = Max(Before)
      OBVIOUS
    <3>5. c \in Ends /\ c < e /\ c \in 0..(e - 1) /\ FrameStart(e) = c + 1
      <4>1. c \in Before
        BY <3>3, <3>4
      <4>2. FrameStart(e) = c + 1
        BY <3>1, <3>4
      <4>3. c \in Ends /\ c < e
        BY <4>1
      <4> QED BY <1>1, <4>2, <4>3
    <3>6. \A y \in Ends : y < e => y <= c
      BY <3>3, <3>4
    <3>7. Clear(c, e - 1)
      BY <1>1, <3>5, <3>6 DEF Clear
    <3> QED BY <3>5, <3>7
  <2> QED BY <2>1, <2>2
<1>3. Frame(e) = [i \in 1..(e - c) |-> c + i]
  <2>1. e - (c + 1) + 1 = e - c /\ \A i \in 1..(e - c) : (c + 1) + i - 1 = c + i
    BY <1>1
  <2>2. [i \in 1..(e - (c + 1) + 1) |-> (c + 1) + i - 1] = [i \in 1..(e - c) |-> c + i]
    BY <2>1
  <2> QED BY <1>2, <2>2 DEF Frame
<1>4. Following(Frame(e), c) /\ Len(Frame(e)) = e - c
  <2>1. PICK k \in Nat : k = e - c
    BY <1>1
  <2>2. Following([i \in 1..k |-> c + i], c) /\ Len([i \in 1..k |-> c + i]) = k
    BY FollowingProperties
  <2> QED BY <1>3, <2>1, <2>2
<1> QED BY <1>2, <1>4

\* Bytes that follow others are said by where they begin and by how many they are.
LEMMA FollowingSame ==
  ASSUME NEW a \in Nat, NEW s, NEW t, Following(s, a), Following(t, a), Len(s) = Len(t)
  PROVE  s = t
<1>1. s \in Seq(Nat) /\ t \in Seq(Nat) /\ \A i \in 1..Len(s) : s[i] = t[i]
  BY DEF Following
<1> QED BY <1>1, SeqEqual

\* The last bytes of a frame.
LEMMA EndOfFrame ==
  ASSUME NEW a \in Nat, NEW c \in Nat, NEW e \in Nat, c <= a, a <= e, NEW s, NEW t,
         Following(s, a), Len(s) = e - a, Following(t, c), Len(t) = e - c
  PROVE  IsSuffix(s, t)
<1>1. s \in Seq(Nat) /\ t \in Seq(Nat) /\ (\A i \in 1..(e - a) : s[i] = a + i) /\ (\A i \in 1..(e - c) : t[i] = c + i)
  BY DEF Following
<1>2. PICK r, u : r = Reverse(s) /\ u = Reverse(t)
  OBVIOUS
<1>3. r = [i \in 1..(e - a) |-> s[((e - a) - i) + 1]] /\ u = [i \in 1..(e - c) |-> t[((e - c) - i) + 1]]
  BY <1>2 DEF Reverse
<1>4. \A i \in 1..(e - a) : r[i] = e - i + 1
  <2> TAKE i \in 1..(e - a)
  <2>1. ((e - a) - i) + 1 \in 1..(e - a) /\ a + (((e - a) - i) + 1) = e - i + 1
    OBVIOUS
  <2> QED BY <1>1, <1>3, <2>1
<1>5. \A i \in 1..(e - c) : u[i] = e - i + 1
  <2> TAKE i \in 1..(e - c)
  <2>1. ((e - c) - i) + 1 \in 1..(e - c) /\ c + (((e - c) - i) + 1) = e - i + 1
    OBVIOUS
  <2> QED BY <1>1, <1>3, <2>1
<1>6. r \in Seq(Int) /\ Len(r) = e - a /\ u \in Seq(Int) /\ Len(u) = e - c
  <2>1. r = [i \in 1..(e - a) |-> e - i + 1] /\ u = [i \in 1..(e - c) |-> e - i + 1]
    BY <1>3, <1>4, <1>5
  <2>2. PICK k \in Nat, l \in Nat : k = e - a /\ l = e - c
    OBVIOUS
  <2>3. r \in [1..k -> Int] /\ u \in [1..l -> Int]
    BY <2>1, <2>2
  <2>4. r \in Seq(Int) /\ u \in Seq(Int)
    BY <2>3, SeqDef
  <2>5. DOMAIN r = 1..k /\ DOMAIN u = 1..l
    BY <2>3
  <2>6. Len(r) = k /\ Len(u) = l
    <3>1. \A m, n \in Nat : 1..m = 1..n => m = n
      <4> SUFFICES ASSUME NEW m \in Nat, NEW n \in Nat, 1..m = 1..n PROVE m = n
        OBVIOUS
      <4>1. \A i \in Nat : i \in 1..m <=> i \in 1..n
        OBVIOUS
      <4>2. (m # 0 => m \in 1..n) /\ (n # 0 => n \in 1..m)
        BY <4>1
      <4> QED BY <4>2
    <3>2. Len(r) \in Nat /\ Len(u) \in Nat /\ DOMAIN r = 1..Len(r) /\ DOMAIN u = 1..Len(u)
      BY <2>4, LenProperties
    <3> QED BY <2>5, <3>1, <3>2
  <2> QED BY <2>2, <2>4, <2>6, Zenon
<1>7. SubSeq(r, 1, Len(r)) = SubSeq(u, 1, Len(r))
  <2>1. PICK k \in Nat : k = e - a /\ k = Len(r)
    BY <1>6
  <2>2. ASSUME NEW i \in 1..k PROVE r[i] = u[i] /\ r[i] \in Int
    <3>1. i \in 1..(e - a) /\ i \in 1..(e - c) /\ e - i + 1 \in Int
      BY <2>1
    <3> QED BY <1>4, <1>5, <3>1
  <2>3. \A v : (\A i \in 1..k : v[i] \in Int) =>
               /\ SubSeq(v, 1, k) \in Seq(Int) /\ Len(SubSeq(v, 1, k)) = k
               /\ \A i \in 1..k : SubSeq(v, 1, k)[i] = v[i]
    <3> SUFFICES ASSUME NEW v, \A i \in 1..k : v[i] \in Int
                 PROVE  /\ SubSeq(v, 1, k) \in Seq(Int) /\ Len(SubSeq(v, 1, k)) = k
                        /\ \A i \in 1..k : SubSeq(v, 1, k)[i] = v[i]
      OBVIOUS
    <3>1. 1 \in Int /\ k \in Int /\ k - 1 + 1 = k /\ \A i \in 1..k : 1 + i - 1 = i
      OBVIOUS
    <3>2. /\ SubSeq(v, 1, k) \in Seq(Int) /\ Len(SubSeq(v, 1, k)) = IF 1 <= k THEN k - 1 + 1 ELSE 0
          /\ \A i \in 1..(k - 1 + 1) : SubSeq(v, 1, k)[i] = v[1 + i - 1]
      BY <3>1, SubSeqProperties
    <3> QED BY <3>1, <3>2
  <2>4. /\ SubSeq(r, 1, k) \in Seq(Int) /\ Len(SubSeq(r, 1, k)) = k /\ \A i \in 1..k : SubSeq(r, 1, k)[i] = r[i]
        /\ SubSeq(u, 1, k) \in Seq(Int) /\ Len(SubSeq(u, 1, k)) = k /\ \A i \in 1..k : SubSeq(u, 1, k)[i] = u[i]
    BY <2>2, <2>3
  <2>5. PICK v, w : v = SubSeq(r, 1, k) /\ w = SubSeq(u, 1, k)
    OBVIOUS
  <2>6. v \in Seq(Int) /\ w \in Seq(Int) /\ Len(v) = Len(w) /\ \A i \in 1..Len(v) : v[i] = w[i]
    BY <2>2, <2>4, <2>5
  <2>7. v = w
    BY <2>6, SeqEqual
  <2> QED BY <2>1, <2>5, <2>7
<1>8. Len(r) <= Len(u)
  BY <1>6
<1> QED BY <1>2, <1>7, <1>8 DEF IsSuffix, IsPrefix

\* What is known of a packet: its bytes, and where it ends.
LEMMA PacketIs ==
  ASSUME NEW b \in Nat, PacketsUpto(b), NEW i \in 1..Len(delivered)
  PROVE  \E a \in Nat, c \in Nat :
           /\ EndAt(i - 1) <= a /\ a < EndAt(i) /\ EndAt(i) \in Ends /\ EndAt(i) = Last(delivered[i])
           /\ EndAt(i - 1) \in Nat /\ EndAt(i) <= b
           /\ Following(delivered[i], a) /\ Len(delivered[i]) = EndAt(i) - a
           /\ c <= a /\ (c = 0 \/ c \in Ends) /\ Clear(c, EndAt(i) - 1)
           /\ Following(Frame(EndAt(i)), c) /\ Len(Frame(EndAt(i))) = EndAt(i) - c
           /\ refused = {} => a = EndAt(i - 1)
<1>1. PICK a \in EndAt(i - 1)..(EndAt(i) - 1) : PacketFrom(i, a)
  BY DEF PacketsUpto
<1>2. EndAt(i) \in 0..b /\ EndAt(i - 1) \in 0..b
  <2>1. Len(delivered) \in Nat
    BY LenProperties DEF PacketsUpto
  <2>2. i \in 0..Len(delivered) /\ i - 1 \in 0..Len(delivered)
    BY <2>1
  <2> QED BY <2>2 DEF PacketsUpto
<1>3. /\ EndAt(i) \in Ends /\ Clear(a, EndAt(i) - 1) /\ (refused = {} => a = EndAt(i - 1))
      /\ Following(delivered[i], a) /\ Len(delivered[i]) = EndAt(i) - a
  BY <1>1 DEF PacketFrom
<1>4. PICK e \in Ends : e = EndAt(i)
  BY <1>3
<1>5. PICK c \in 0..(e - 1) :
        /\ (c = 0 \/ c \in Ends) /\ Clear(c, e - 1)
        /\ Following(Frame(e), c) /\ Len(Frame(e)) = e - c
  BY FrameIs
<1>6. a \in Nat /\ EndAt(i - 1) <= a /\ a < e /\ e \in Nat /\ c \in Nat
  BY <1>1, <1>2, <1>4
<1>7. c <= a
  BY <1>3, <1>4, <1>5, <1>6 DEF Clear
<1>8. EndAt(i) = Last(delivered[i])
  BY DEF EndAt
<1> QED BY <1>2, <1>3, <1>4, <1>5, <1>6, <1>7, <1>8

\* While no packet is refused, a packet is a frame.
LEMMA PacketIsFrame ==
  ASSUME NEW b \in Nat, PacketsUpto(b), refused = {}, NEW i \in 1..Len(delivered)
  PROVE  /\ Last(delivered[i]) = EndAt(i) /\ EndAt(i) \in Ends /\ delivered[i] = Frame(EndAt(i))
         /\ EndAt(i - 1) \in Nat /\ EndAt(i - 1) < EndAt(i) /\ Clear(EndAt(i - 1), EndAt(i) - 1)
<1>1. PICK a \in Nat, c \in Nat :
        /\ EndAt(i - 1) <= a /\ a < EndAt(i) /\ EndAt(i) \in Ends /\ EndAt(i) = Last(delivered[i])
        /\ EndAt(i - 1) \in Nat /\ EndAt(i) <= b
        /\ Following(delivered[i], a) /\ Len(delivered[i]) = EndAt(i) - a
        /\ c <= a /\ (c = 0 \/ c \in Ends) /\ Clear(c, EndAt(i) - 1)
        /\ Following(Frame(EndAt(i)), c) /\ Len(Frame(EndAt(i))) = EndAt(i) - c
        /\ refused = {} => a = EndAt(i - 1)
  BY PacketIs
<1>2. a = EndAt(i - 1)
  BY <1>1
<1>3. a = 0 \/ a \in Ends
  <2>1. CASE i - 1 = 0
    BY <1>2, <2>1 DEF EndAt
  <2>2. CASE i - 1 # 0
    <3>1. i - 1 \in 1..Len(delivered)
      <4>1. Len(delivered) \in Nat
        BY LenProperties DEF PacketsUpto
      <4> QED BY <2>2, <4>1
    <3> QED BY <1>2, <3>1, PacketIs
  <2> QED BY <2>1, <2>2
<1>4. EndAt(i) \in Nat
  BY <1>1, EndsAre
<1>5. a = c
  <2>1. a <= EndAt(i) - 1
    BY <1>1, <1>4
  <2>2. a \in Ends => ~(c < a /\ a <= EndAt(i) - 1)
    BY <1>1 DEF Clear
  <2> QED BY <1>1, <1>3, <2>1, <2>2
<1>6. delivered[i] = Frame(EndAt(i))
  <2>1. PICK s, t : s = delivered[i] /\ t = Frame(EndAt(i))
    OBVIOUS
  <2>2. Following(s, a) /\ Following(t, a) /\ Len(s) = Len(t)
    BY <1>1, <1>5, <2>1
  <2> QED BY <2>1, <2>2, FollowingSame
<1> QED BY <1>1, <1>2, <1>5, <1>6

\* The frames that end up to x.
EndsUpto(x) == {f \in Ends : f <= x}

LEMMA EndsAreFinite == ASSUME NEW x PROVE IsFiniteSet(EndsUpto(x))
<1>1. Ends \subseteq 0..StreamLength /\ 0 \in Int /\ StreamLength \in Int
  BY EndsAre, SeparatorFacts
<1>2. IsFiniteSet(0..StreamLength)
  BY <1>1, FS_Interval
<1>3. IsFiniteSet(Ends)
  BY <1>1, <1>2, FS_Subset
<1>4. EndsUpto(x) \subseteq Ends
  BY DEF EndsUpto
<1> QED BY <1>3, <1>4, FS_Subset

\* The i-th packet is the i-th frame.
LEMMA PacketsAreCounted ==
  ASSUME NEW b \in Nat, PacketsUpto(b), refused = {}
  PROVE  \A i \in 0..Len(delivered) : Cardinality(EndsUpto(EndAt(i))) = i
<1>1. PICK n \in Nat : n = Len(delivered)
  BY LenProperties DEF PacketsUpto
<1> DEFINE P == {i \in 0..n : Cardinality(EndsUpto(EndAt(i))) = i}
<1>2. 0 \in P
  <2>1. EndsUpto(0) = {}
    BY EndsAre, SeparatorFacts DEF EndsUpto
  <2>2. EndAt(0) = 0
    BY DEF EndAt
  <2> QED BY <2>1, <2>2, FS_EmptySet
<1>3. ASSUME NEW k \in 0..(n - 1), k \in P PROVE k + 1 \in P
  <2>1. PICK i \in 1..n : i = k + 1 /\ i - 1 = k
    OBVIOUS
  <2>2. PICK x \in Nat : x = EndAt(i - 1)
    BY <1>1, PacketIsFrame
  <2>3. PICK e \in Ends : e = EndAt(i) /\ x < e /\ Clear(x, e - 1)
    BY <1>1, <2>2, PacketIsFrame
  <2>4. e \in Nat
    BY EndsAre
  <2>5. EndsUpto(e) = EndsUpto(x) \cup {e} /\ e \notin EndsUpto(x)
    <3>1. ASSUME NEW f \in Ends PROVE f <= e <=> f <= x \/ f = e
      <4>1. ~(x < f /\ f <= e - 1) /\ f \in Nat
        BY <2>3, EndsAre DEF Clear
      <4> QED BY <2>3, <2>4, <4>1
    <3>2. ~(e <= x)
      BY <2>3, <2>4
    <3> QED BY <3>1, <3>2 DEF EndsUpto
  <2>6. Cardinality(EndsUpto(x)) = k
    BY <1>3, <2>1, <2>2
  <2>7. Cardinality(EndsUpto(e)) = k + 1
    BY <2>5, <2>6, EndsAreFinite, FS_AddElement
  <2> QED BY <2>1, <2>3, <2>7
<1> HIDE DEF P
<1>4. \A i \in 0..n : i \in P
  BY <1>2, <1>3, InductiveUpto
<1> QED BY <1>1, <1>4 DEF P

\* While no packet is refused, nothing is lost between the packets.
LEMMA PacketsAreJoined ==
  ASSUME NEW b \in Nat, PacketsUpto(b), refused = {}
  PROVE  Following(FlattenSeq(delivered), 0) /\ Len(FlattenSeq(delivered)) = b
<1>1. PICK n \in Nat : n = Len(delivered)
  BY LenProperties DEF PacketsUpto
<1>2. delivered \in Seq(Seq(Nat)) /\ (\A i \in 0..n : EndAt(i) \in 0..b) /\ EndAt(n) = b
  BY <1>1 DEF PacketsUpto
<1> DEFINE e == [i \in 0..n |-> EndAt(i)]
<1>3. Pieces(delivered, e)
  <2>1. e \in [0..n -> Int] /\ delivered \in Seq(Seq(Int))
    <3>1. \A s \in Seq(Nat) : s \in Seq(Int)
      OBVIOUS
    <3>2. delivered \in [1..n -> Seq(Nat)]
      BY <1>1, <1>2, LenProperties
    <3>3. delivered \in [1..n -> Seq(Int)]
      BY <3>1, <3>2
    <3> QED BY <1>2, <3>3, SeqDef
  <2>2. ASSUME NEW i \in 1..n PROVE Counts(delivered[i], e[i - 1]) /\ Len(delivered[i]) = e[i] - e[i - 1]
    <3>1. PICK s : s = delivered[i]
      OBVIOUS
    <3>2. PICK a \in Nat : a = EndAt(i - 1) /\ Following(s, a) /\ Len(s) = EndAt(i) - a
      BY <1>1, <3>1, PacketIs
    <3>3. i - 1 \in 0..n /\ i \in 0..n
      OBVIOUS
    <3>4. e[i - 1] = a /\ e[i] = EndAt(i)
      BY <3>2, <3>3
    <3>5. Counts(s, a)
      <4>1. s \in Seq(Int)
        BY <3>2 DEF Following
      <4> QED BY <3>2, <4>1 DEF Counts, Following
    <3> HIDE DEF e
    <3> QED BY <3>1, <3>2, <3>4, <3>5
  <2> HIDE DEF e
  <2> QED BY <1>1, <2>1, <2>2 DEF Pieces
<1>4. e[0] = 0 /\ e[n] = b
  <2>1. EndAt(0) = 0 /\ 0 \in 0..n /\ n \in 0..n
    BY DEF EndAt
  <2> QED BY <1>2, <2>1
<1> HIDE DEF e
<1>5. Counts(FlattenSeq(delivered), e[0]) /\ Len(FlattenSeq(delivered)) = e[Len(delivered)] - e[0]
  BY <1>3, FlattenPieces
<1>6. PICK s : s = FlattenSeq(delivered)
  OBVIOUS
<1>7. Counts(s, e[0]) /\ Len(s) = e[n] - e[0]
  BY <1>1, <1>5, <1>6, Zenon
<1>8. Counts(s, 0) /\ Len(s) = b - 0
  BY <1>4, <1>7, Zenon
<1>9. s \in Seq(Int) /\ Len(s) = b /\ \A i \in 1..b : s[i] = i
  BY <1>8 DEF Counts
<1>10. s \in Seq(Nat)
  <2>1. s \in [1..b -> Int]
    BY <1>9, LenProperties
  <2>2. s \in [1..b -> Nat]
    BY <1>9, <2>1
  <2> QED BY <2>2, SeqDef
<1> QED BY <1>6, <1>9, <1>10 DEF Following

\* The bytes of the packets are increasing, and they are those that were not refused.
LEMMA PacketsRise ==
  ASSUME NEW b \in Nat, PacketsUpto(b)
  PROVE  /\ Rises(FlattenSeq(delivered), 0, b)
         /\ \A x : x \in Range(FlattenSeq(delivered)) <=> \E i \in 1..Len(delivered) : x \in Range(delivered[i])
<1>1. PICK n \in Nat : n = Len(delivered)
  BY LenProperties DEF PacketsUpto
<1>2. delivered \in Seq(Seq(Nat)) /\ \A i \in 0..n : EndAt(i) \in 0..b
  BY <1>1 DEF PacketsUpto
<1> DEFINE e == [i \in 0..n |-> IF i = n THEN b ELSE EndAt(i)]
<1>3. Layers(delivered, e)
  <2>1. e \in [0..n -> Int] /\ delivered \in Seq(Seq(Int))
    <3>1. \A s \in Seq(Nat) : s \in Seq(Int)
      OBVIOUS
    <3>2. delivered \in [1..n -> Seq(Nat)]
      BY <1>1, <1>2, LenProperties
    <3>3. delivered \in [1..n -> Seq(Int)]
      BY <3>1, <3>2
    <3> QED BY <1>2, <3>3, SeqDef
  <2>2. ASSUME NEW i \in 1..n PROVE e[i - 1] <= e[i] /\ Rises(delivered[i], e[i - 1], e[i])
    <3>1. PICK s : s = delivered[i]
      OBVIOUS
    <3>2. PICK a \in Nat : /\ EndAt(i - 1) <= a /\ a < EndAt(i) /\ Following(s, a) /\ Len(s) = EndAt(i) - a
                           /\ EndAt(i - 1) \in Nat /\ EndAt(i) <= b
      BY <1>1, <3>1, PacketIs
    <3>3. i - 1 \in 0..n /\ i \in 0..n /\ i - 1 # n
      OBVIOUS
    <3>4. EndAt(i) \in Nat
      BY <1>2, <3>3
    <3>5. PICK l \in Nat, h \in Nat : l = e[i - 1] /\ h = e[i] /\ l = EndAt(i - 1) /\ EndAt(i) <= h
      BY <3>2, <3>3, <3>4
    <3> HIDE DEF e
    <3>6. s \in Seq(Int) /\ \A j \in 1..Len(s) : s[j] = a + j
      BY <3>2 DEF Following
    <3>7. \A j \in 1..Len(s) : l < s[j] /\ s[j] <= h
      BY <3>2, <3>4, <3>5, <3>6
    <3>8. \A j, k \in 1..Len(s) : j < k => s[j] < s[k]
      BY <3>6
    <3>9. Rises(s, l, h)
      BY <3>6, <3>7, <3>8 DEF Rises
    <3>10. l <= h
      BY <3>2, <3>4, <3>5
    <3> QED BY <3>1, <3>5, <3>9, <3>10
  <2> HIDE DEF e
  <2> QED BY <1>1, <2>1, <2>2 DEF Layers
<1>4. e[0] \in Int /\ 0 <= e[0] /\ e[n] = b
  <2>1. 0 \in 0..n /\ n \in 0..n /\ EndAt(0) = 0
    BY DEF EndAt
  <2> QED BY <2>1
<1> HIDE DEF e
<1>5. PICK s : s = FlattenSeq(delivered)
  OBVIOUS
<1>6. Rises(s, e[0], b) /\ \A x : x \in Range(s) <=> \E i \in 1..Len(delivered) : x \in Range(delivered[i])
  BY <1>1, <1>3, <1>4, <1>5, FlattenLayers
<1>7. Rises(s, 0, b)
  <2>1. PICK a \in Int : a = e[0] /\ 0 <= a
    BY <1>4
  <2>2. s \in Seq(Int) /\ (\A i \in 1..Len(s) : a < s[i] /\ s[i] <= b) /\ \A i, j \in 1..Len(s) : i < j => s[i] < s[j]
    BY <1>6, <2>1 DEF Rises
  <2>3. \A i \in 1..Len(s) : s[i] \in Int
    BY <2>2, ElementOfSeq
  <2>4. \A i \in 1..Len(s) : 0 < s[i] /\ s[i] <= b
    BY <2>1, <2>2, <2>3
  <2> QED BY <2>2, <2>4 DEF Rises
<1> QED BY <1>5, <1>6, <1>7

\* A byte of the packet i comes after the packets before it, and before those after it.
LEMMA BytesOfPacket ==
  ASSUME NEW b \in Nat, PacketsUpto(b), NEW i \in 1..Len(delivered), NEW x, x \in Range(delivered[i])
  PROVE  x \in Nat /\ EndAt(i - 1) < x /\ x <= EndAt(i) /\ x <= b /\ x > 0
<1>1. PICK s : s = delivered[i]
  OBVIOUS
<1>2. PICK a \in Nat : /\ EndAt(i - 1) <= a /\ Following(s, a) /\ Len(s) = EndAt(i) - a
                       /\ EndAt(i - 1) \in Nat /\ EndAt(i) <= b /\ EndAt(i) \in Ends
  BY <1>1, PacketIs
<1>3. EndAt(i) \in Nat
  BY <1>2, EndsAre
<1>4. x \in (a + 1)..(a + Len(s))
  BY <1>1, <1>2, RangeOfFollowing
<1> QED BY <1>2, <1>3, <1>4

\* Packets end one after the other.
LEMMA EndsGrow ==
  ASSUME NEW b \in Nat, PacketsUpto(b)
  PROVE  \A i, j \in 0..Len(delivered) : i <= j => EndAt(i) <= EndAt(j) /\ EndAt(i) \in Nat
<1>1. PICK n \in Nat : n = Len(delivered)
  BY LenProperties DEF PacketsUpto
<1>2. \A i \in 0..n : EndAt(i) \in Nat
  BY <1>1 DEF PacketsUpto
<1> DEFINE P == {j \in 0..n : \A i \in 0..j : EndAt(i) <= EndAt(j)}
<1>3. 0 \in P
  BY <1>2
<1>4. ASSUME NEW k \in 0..(n - 1), k \in P PROVE k + 1 \in P
  <2>1. PICK j \in 1..n : j = k + 1 /\ j - 1 = k
    OBVIOUS
  <2>2. EndAt(k) < EndAt(j) /\ EndAt(k) \in Nat /\ EndAt(j) \in Nat
    <3>1. PICK a \in Nat : EndAt(j - 1) <= a /\ a < EndAt(j)
      BY <1>1, PacketIs
    <3>2. k \in 0..n /\ j \in 0..n
      OBVIOUS
    <3> QED BY <1>2, <2>1, <3>1, <3>2
  <2>3. ASSUME NEW i \in 0..j PROVE EndAt(i) <= EndAt(j)
    <3>1. CASE i = j
      BY <2>2, <3>1
    <3>2. CASE i # j
      <4>1. i \in 0..k /\ i \in 0..n
        BY <2>1, <3>2
      <4>2. EndAt(i) <= EndAt(k) /\ EndAt(i) \in Nat
        BY <1>2, <1>4, <4>1
      <4> QED BY <2>2, <4>2
    <3> QED BY <3>1, <3>2
  <2> QED BY <2>1, <2>3
<1> HIDE DEF P
<1>5. \A j \in 0..n : j \in P
  BY <1>3, <1>4, InductiveUpto
<1> QED BY <1>1, <1>2, <1>5 DEF P

\* When what comes before a packet in its frame is missing, it was refused.
LEMMA MissingIsRefused ==
  ASSUME NEW b \in Nat, PacketsUpto(b), NEW i \in 1..Len(delivered)
  PROVE  /\ Last(delivered[i]) \in Ends /\ IsSuffix(delivered[i], Frame(Last(delivered[i])))
         /\ Range(Frame(Last(delivered[i]))) \subseteq refused \cup Range(delivered[i])
<1>1. PICK n \in Nat : n = Len(delivered)
  BY LenProperties DEF PacketsUpto
<1>2. PICK e \in Ends : e = EndAt(i)
  BY PacketIs
<1>3. PICK s, t : s = delivered[i] /\ t = Frame(e)
  OBVIOUS
<1>4. PICK a \in Nat, c \in Nat :
        /\ EndAt(i - 1) <= a /\ a < e /\ e = Last(delivered[i]) /\ EndAt(i - 1) \in Nat /\ e <= b
        /\ Following(s, a) /\ Len(s) = e - a /\ c <= a /\ (c = 0 \/ c \in Ends) /\ Clear(c, e - 1)
        /\ Following(t, c) /\ Len(t) = e - c
  BY <1>2, <1>3, PacketIs
<1>5. e \in Nat /\ a <= e
  BY <1>4, EndsAre
<1>6. IsSuffix(s, t)
  BY <1>4, <1>5, EndOfFrame
<1>7. ASSUME NEW x, x \in Range(t) PROVE x \in refused \cup Range(s)
  <2>1. x \in (c + 1)..e /\ x \in 1..b
    <3>1. x \in (c + 1)..(c + Len(t))
      BY <1>4, <1>7, RangeOfFollowing
    <3> QED BY <1>4, <1>5, <3>1
  <2>2. CASE x > a
    <3>1. x \in (a + 1)..(a + Len(s))
      BY <1>4, <1>5, <2>1, <2>2
    <3> QED BY <1>4, <3>1, RangeOfFollowing
  <2>3. CASE x <= a
    <3> SUFFICES ASSUME x \notin refused PROVE FALSE
      OBVIOUS
    <3>1. PICK j \in 1..n : x \in Range(delivered[j])
      BY <1>1, <2>1 DEF PacketsUpto
    <3>2. EndAt(j - 1) < x /\ x <= EndAt(j)
      BY <1>1, <3>1, BytesOfPacket
    <3>3. j - 1 \in 0..n /\ j \in 0..n /\ i - 1 \in 0..n /\ i \in 0..n
      BY <1>1
    <3>4. \A k, l \in 0..n : k <= l => EndAt(k) <= EndAt(l) /\ EndAt(k) \in Nat
      BY <1>1, EndsGrow
    <3>5. EndAt(j) \in Nat /\ EndAt(j - 1) \in Nat
      BY <3>3, <3>4
    <3>6. CASE j < i
      <4>1. EndAt(j) <= EndAt(i - 1)
        BY <3>3, <3>4, <3>6
      <4>2. EndAt(j) \in Ends
        BY <1>1, PacketIs
      <4>3. ~(c < EndAt(j) /\ EndAt(j) <= e - 1)
        BY <1>4, <4>2 DEF Clear
      <4>4. x \in Nat /\ c < x /\ x <= EndAt(j)
        BY <2>1, <3>2
      <4>5. EndAt(j) <= e - 1
        <5>1. EndAt(i - 1) \in Nat /\ EndAt(i - 1) <= a
          BY <1>4
        <5>2. a <= e - 1
          BY <1>4, <1>5
        <5>3. EndAt(j) <= a
          BY <3>5, <4>1, <5>1
        <5> QED BY <1>5, <3>5, <5>2, <5>3
      <4>6. c < EndAt(j)
        BY <3>5, <4>4
      <4> QED BY <4>3, <4>5, <4>6
    <3>7. CASE j = i
      <4>1. x \in Range(s)
        BY <1>3, <3>1, <3>7
      <4>2. x \in (a + 1)..(a + Len(s))
        BY <1>4, <4>1, RangeOfFollowing
      <4> QED BY <1>4, <2>3, <4>2
    <3>8. CASE j > i
      <4>1. e <= EndAt(j - 1)
        BY <1>2, <3>3, <3>4, <3>8
      <4>2. e \in Nat /\ x \in Nat /\ x <= e
        BY <1>4, <1>5, <2>1, <2>3
      <4> QED BY <3>2, <3>5, <4>1, <4>2
    <3> QED BY <1>1, <3>6, <3>7, <3>8
  <2> QED BY <1>4, <2>1, <2>2, <2>3
<1> QED BY <1>3, <1>4, <1>6, <1>7

\* FramesIntact follows from what the packets, the bytes kept and the frames are.
LEMMA FramesAreIntact ==
  ASSUME NEW b \in Nat, PacketsUpto(b), Following(Held, b), Len(Held) = received - b, received \in Nat,
         b <= received, at = "receiving" => Clear(b, received)
  PROVE  FramesIntact
<1>1. PICK n \in Nat : n = Len(delivered)
  BY LenProperties DEF PacketsUpto
<1>2. DOMAIN delivered = 1..n
  BY <1>1, LenProperties DEF PacketsUpto
<1>3. PICK s : s = FlattenSeq(delivered)
  OBVIOUS
<1>4. PICK all : all = s \o Held
  OBVIOUS
<1>5. ASSUME refused = {}
      PROVE  /\ \A i \in 1..n :
                  /\ Last(delivered[i]) \in Ends /\ delivered[i] = Frame(Last(delivered[i]))
                  /\ Cardinality({f \in Ends : f <= Last(delivered[i])}) = i
             /\ all = [i \in 1..received |-> i]
             /\ at = "receiving" => n = Cardinality({e \in Ends : e <= received})
  <2>1. \A i \in 0..n : Cardinality(EndsUpto(EndAt(i))) = i
    BY <1>1, <1>5, PacketsAreCounted
  <2>2. ASSUME NEW i \in 1..n
        PROVE  /\ Last(delivered[i]) \in Ends /\ delivered[i] = Frame(Last(delivered[i]))
               /\ Cardinality({f \in Ends : f <= Last(delivered[i])}) = i
    <3>1. Last(delivered[i]) = EndAt(i) /\ EndAt(i) \in Ends /\ delivered[i] = Frame(EndAt(i))
      BY <1>1, <1>5, PacketIsFrame
    <3>2. i \in 0..n
      OBVIOUS
    <3>3. Cardinality(EndsUpto(Last(delivered[i]))) = i
      BY <2>1, <3>1, <3>2
    <3> QED BY <3>1, <3>3 DEF EndsUpto
  <2>3. all = [i \in 1..received |-> i]
    <3>1. Following(s, 0) /\ Len(s) = b
      BY <1>3, <1>5, PacketsAreJoined
    <3>2. Following(all, 0) /\ Len(all) = b + Len(Held)
      BY <1>4, <3>1, TwoFollow
    <3>3. all \in Seq(Nat) /\ Len(all) = received /\ \A i \in 1..received : all[i] = i
      BY <3>2 DEF Following
    <3>4. all = [i \in 1..received |-> all[i]]
      BY <3>3, LenProperties
    <3> QED BY <3>3, <3>4
  <2>4. ASSUME at = "receiving" PROVE n = Cardinality({e \in Ends : e <= received})
    <3>1. EndAt(n) = b /\ n \in 0..n
      BY <1>1, <1>5 DEF PacketsUpto
    <3>2. EndsUpto(received) = EndsUpto(b)
      <4>1. \A f \in Ends : f \in Nat /\ ~(b < f /\ f <= received)
        BY <2>4, EndsAre DEF Clear
      <4> QED BY <4>1 DEF EndsUpto
    <3>3. Cardinality(EndsUpto(b)) = n
      BY <2>1, <3>1
    <3> QED BY <3>2, <3>3 DEF EndsUpto
  <2> QED BY <2>2, <2>3, <2>4
<1>6. Rises(s, 0, b) /\ \A x : x \in Range(s) <=> \E i \in 1..n : x \in Range(delivered[i])
  BY <1>1, <1>3, PacketsRise
<1>7. /\ Rises(all, 0, received) /\ \A x : x \in Range(all) <=> x \in Range(s) \/ x \in Range(Held)
  <2>1. Held \in Seq(Int) /\ \A i \in 1..Len(Held) : Held[i] = b + i
    <3>1. \A u \in Seq(Nat) : u \in Seq(Int)
      OBVIOUS
    <3> QED BY <3>1 DEF Following
  <2>2. \A i \in 1..Len(Held) : b < Held[i] /\ Held[i] <= received
    BY <2>1
  <2>3. \A i, j \in 1..Len(Held) : i < j => Held[i] < Held[j]
    BY <2>1
  <2>4. Rises(Held, b, received)
    BY <2>1, <2>2, <2>3 DEF Rises
  <2>5. PICK z \in Int : z = 0
    OBVIOUS
  <2>6. PICK t : t = Held
    OBVIOUS
  <2>7. z <= b /\ Rises(s, z, b) /\ Rises(t, b, received)
    BY <1>6, <2>4, <2>5, <2>6
  <2>8. Rises(s \o t, z, received) /\ \A x : x \in Range(s \o t) <=> x \in Range(s) \/ x \in Range(t)
    BY <2>7, RisesConcat
  <2> QED BY <1>4, <2>5, <2>6, <2>8
<1>8. DOMAIN all = 1..Len(all)
  BY <1>7, LenProperties DEF Rises
<1>9. \A i, j \in DOMAIN all : i < j => all[i] < all[j]
  BY <1>7, <1>8 DEF Rises
<1>10. \A x : x \in Range(Held) <=> x \in (b + 1)..received
  <2>1. \A x : x \in Range(Held) <=> x \in (b + 1)..(b + Len(Held))
    BY RangeOfFollowing
  <2>2. b + Len(Held) = received
    OBVIOUS
  <2> QED BY <2>1, <2>2
<1>11. Range(all) \cup refused = 1..received /\ Range(all) \cap refused = {}
  <2>1. refused \subseteq 1..b /\ \A x \in 1..b : x \in refused <=> x \notin Range(s)
    BY <1>1, <1>6 DEF PacketsUpto
  <2>2. \A x : x \in Range(s) => x \in 1..b
    <3> SUFFICES ASSUME NEW x, x \in Range(s) PROVE x \in 1..b
      OBVIOUS
    <3>1. PICK i \in 1..n : x \in Range(delivered[i])
      BY <1>6
    <3> QED BY <1>1, <3>1, BytesOfPacket
  <2>3. \A x : x \in 1..received <=> x \in 1..b \/ x \in (b + 1)..received
    OBVIOUS
  <2>4. \A x : ~(x \in 1..b /\ x \in (b + 1)..received)
    OBVIOUS
  <2> QED BY <1>7, <1>10, <2>1, <2>2, <2>3, <2>4, Zenon
<1>12. \A i \in 1..n : /\ Last(delivered[i]) \in Ends /\ IsSuffix(delivered[i], Frame(Last(delivered[i])))
                       /\ Range(Frame(Last(delivered[i]))) \subseteq refused \cup Range(delivered[i])
  BY <1>1, MissingIsRefused
<1> QED BY <1>1, <1>2, <1>3, <1>4, <1>5, <1>9, <1>11, <1>12 DEF FramesIntact

\* recv_packet() with StreamReader.read_until() and with _buffered_readuntil(): the packets
\* are the frames of the stream, none lost and none given twice, and a task that waits for
\* the transport has given all those that are there; after a refusal the bytes of the
\* packets, the refused ones and those kept are all the bytes, each of them once.
THEOREM FramesGiven == ReceptionSpec => []FramesIntact
<1>1. FramesInv /\ FramesTile => FramesIntact
  <2> SUFFICES ASSUME FramesInv, FramesTile PROVE FramesIntact
    OBVIOUS
  <2>1. CASE Sure
    <3>1. PICK b \in 0..received : /\ Following(Held, b) /\ Len(Held) = received - b
                                   /\ PacketsUpto(b) /\ (at = "receiving" => Clear(b, received))
      BY <2>1 DEF FramesTile
    <3>2. received \in Nat /\ b \in Nat /\ b <= received
      BY <2>1, KeptBytes
    <3> QED BY <3>1, <3>2, FramesAreIntact
  <2>2. CASE ~Sure
    BY <2>2 DEF Sure, FramesIntact
  <2> QED BY <2>1, <2>2
<1> QED BY <1>1, FramesInvariant, FramesFollow, PTL

-----------------------------------------------------------------------------
(* JSON documents: what a reader of one byte at a time knows              *)

\* The states of a reader.
Readings == [escaped : BOOLEAN, string : BOOLEAN, depth : Int]
Fresh == [escaped |-> FALSE, string |-> FALSE, depth |-> 0]

LeftBracket == "{"
RightBracket == "}"

\* What a reader in state s becomes with byte v.
Becomes(c, s, v) ==
  /\ s.escaped => c.escaped = FALSE /\ c.string = s.string /\ c.depth = s.depth
  /\ ~s.escaped =>
       /\ c.escaped = (v = "escape")
       /\ c.string = IF v = "quote" THEN ~s.string ELSE s.string
       /\ c.depth = IF v = LeftBracket /\ ~s.string THEN s.depth + 1 ELSE IF v = RightBracket /\ ~s.string THEN s.depth - 1 ELSE s.depth

\* What Reader does.
LEMMA ReaderIs ==
  ASSUME NEW s \in Readings, NEW v
  PROVE  JSON!Reader(s, v) \in Readings /\ Becomes(JSON!Reader(s, v), s, v)
<1>0. s.escaped \in BOOLEAN /\ s.string \in BOOLEAN /\ s.depth \in Int /\ s.depth + 1 \in Int /\ s.depth - 1 \in Int
  BY DEF Readings
<1>1. CASE s.escaped
  <2>1. JSON!Reader(s, v) = [s EXCEPT !.escaped = FALSE]
    BY <1>1 DEF JSON!Reader
  <2> QED BY <1>0, <1>1, <2>1 DEF Readings, Becomes, LeftBracket, RightBracket
<1>2. CASE ~s.escaped /\ v = "escape"
  <2>1. JSON!Reader(s, v) = [s EXCEPT !.escaped = TRUE]
    BY <1>2 DEF JSON!Reader
  <2> QED BY <1>0, <1>2, <2>1 DEF Readings, Becomes, LeftBracket, RightBracket
<1>3. CASE ~s.escaped /\ v = "quote"
  <2>1. JSON!Reader(s, v) = [s EXCEPT !.string = ~s.string]
    BY <1>3 DEF JSON!Reader
  <2> QED BY <1>0, <1>3, <2>1 DEF Readings, Becomes, LeftBracket, RightBracket
<1>4. CASE ~s.escaped /\ v = "{" /\ ~s.string
  <2>1. JSON!Reader(s, v) = [s EXCEPT !.depth = s.depth + 1]
    BY <1>4 DEF JSON!Reader
  <2> QED BY <1>0, <1>4, <2>1 DEF Readings, Becomes, LeftBracket, RightBracket
<1>5. CASE ~s.escaped /\ v = "}" /\ ~s.string
  <2>1. JSON!Reader(s, v) = [s EXCEPT !.depth = s.depth - 1]
    BY <1>5 DEF JSON!Reader
  <2> QED BY <1>0, <1>5, <2>1 DEF Readings, Becomes, LeftBracket, RightBracket
<1>6. CASE /\ ~s.escaped /\ v # "escape" /\ v # "quote"
           /\ ~(v = "{" /\ ~s.string) /\ ~(v = "}" /\ ~s.string)
  <2>1. JSON!Reader(s, v) = s
    BY <1>6 DEF JSON!Reader
  <2> QED BY <1>0, <1>6, <2>1 DEF Readings, Becomes, LeftBracket, RightBracket
<1> QED BY <1>1, <1>2, <1>3, <1>4, <1>5, <1>6

\* What is read of a sequence of bytes.
ReadAll(s) == JSON!FoldLeft(JSON!Reader, Fresh, s)

\* f has what is read of the prefixes of s, of n bytes.
Reads(f, s, n) ==
  f \in [0..n -> Readings] /\ f[0] = Fresh /\ \A k \in 1..n : f[k] = JSON!Reader(f[k - 1], s[k])

\* A reader of the bytes of s passes through n + 1 states, the last of which is the fold's.
LEMMA ReadsExist ==
  ASSUME NEW n \in Nat, NEW s, DOMAIN s = 1..n
  PROVE  \E f : Reads(f, s, n) /\ ReadAll(s) = f[n]
<1> DEFINE S == DOMAIN s
           Eq(iter) == iter = [t \in SUBSET S |-> IF t = {} THEN Fresh ELSE JSON!Reader(iter[t \ {Max(t)}], s[Max(t)])]
           iter == CHOOSE iter : Eq(iter)
           step == [p \in (1..n) \X Readings |-> JSON!Reader(p[2], s[p[1]])]
<1>1. ReadAll(s) = iter[S]
  BY DEF ReadAll, JSON!FoldLeft, JSON!MapThenFoldSet, JSON!Max, Max
<1>2. S = 1..n
  OBVIOUS
<1> HIDE DEF S
<1>3. Fresh \in Readings
  BY DEF Fresh, Readings
<1>4. \A k \in 1..n, v \in Readings : step[<<k, v>>] = JSON!Reader(v, s[k]) /\ step[<<k, v>>] \in Readings
  BY ReaderIs
<1> HIDE DEF step
<1>s. Stepping(n, Readings, Fresh, step)
  BY <1>3, <1>4 DEF Stepping
<1>5. \A t \in SUBSET S : t # {} => Max(t) \in 1..n
  BY <1>2, MaxOfPart
<1>6. Eq(iter)
  <2>1. PICK g \in [SUBSET S -> Readings] :
          \A t \in SUBSET S : g[t] = IF t = {} THEN Fresh ELSE step[<<Max(t), g[t \ {Max(t)}]>>]
    <3>1. PICK g : g \in [SUBSET (1..n) -> Readings] /\ LeftFold(g, n, Readings, Fresh, step)
      BY <1>s, FoldExists
    <3>2. ASSUME NEW t \in SUBSET S, t # {} PROVE g[t] = step[<<Max(t), g[t \ {Max(t)}]>>]
      <4>1. g[t \ {Max(t)}] \in Readings
        BY <1>2, <3>1
      <4> QED BY <1>2, <3>1, <3>2, <4>1 DEF LeftFold
    <3> QED BY <1>2, <3>1, <3>2 DEF LeftFold
  <2>2. \A t \in SUBSET S : g[t] = IF t = {} THEN Fresh ELSE JSON!Reader(g[t \ {Max(t)}], s[Max(t)])
    <3> TAKE t \in SUBSET S
    <3>1. t \ {Max(t)} \in SUBSET S
      OBVIOUS
    <3>2. g[t \ {Max(t)}] \in Readings
      BY <3>1
    <3> QED BY <1>4, <1>5, <2>1, <3>2
  <2>3. g = [t \in SUBSET S |-> IF t = {} THEN Fresh ELSE JSON!Reader(g[t \ {Max(t)}], s[Max(t)])]
    BY <2>2
  <2>4. \E h : Eq(h)
    BY <2>3
  <2> HIDE DEF Eq
  <2> QED BY <2>4, Zenon
<1> HIDE DEF iter
<1>7. iter[{}] = Fresh
  BY <1>6
<1>8. LeftFold(iter, n, Readings, Fresh, step)
  <2>1. ASSUME NEW t \in SUBSET S, t # {}, iter[t \ {Max(t)}] \in Readings
        PROVE  iter[t] = step[<<Max(t), iter[t \ {Max(t)}]>>]
    <3>1. iter[t] = JSON!Reader(iter[t \ {Max(t)}], s[Max(t)])
      BY <1>6, <2>1
    <3> QED BY <1>4, <1>5, <2>1, <3>1
  <2> QED BY <1>2, <1>7, <2>1 DEF LeftFold
<1>9. PICK f : Chain(f, n, Readings, Fresh, step) /\ f[n] = iter[1..n]
  BY <1>s, <1>8, FoldIsChain
<1>10. f \in [0..n -> Readings] /\ f[0] = Fresh /\ \A k \in 1..n : f[k] = step[<<k, f[k - 1]>>]
  BY <1>9 DEF Chain
<1>11. \A k \in 1..n : f[k] = JSON!Reader(f[k - 1], s[k])
  <2> TAKE k \in 1..n
  <2>1. f[k - 1] \in Readings
    BY <1>10
  <2> QED BY <1>4, <1>10, <2>1
<1> QED BY <1>1, <1>2, <1>9, <1>10, <1>11 DEF Reads

\* Two readers of the same bytes are in the same state.
LEMMA ReadsAgree ==
  ASSUME NEW n \in Nat, NEW m \in Nat, m <= n, NEW s, NEW t, NEW f, NEW g,
         Reads(f, s, n), Reads(g, t, m), \A k \in 1..m : s[k] = t[k]
  PROVE  f[m] = g[m]
<1> DEFINE P == {k \in 0..m : f[k] = g[k]}
<1>1. 0 \in P
  BY DEF Reads
<1>2. ASSUME NEW k \in 0..(m - 1), k \in P PROVE k + 1 \in P
  <2>1. k + 1 \in 1..n /\ k + 1 \in 1..m /\ (k + 1) - 1 = k /\ k + 1 \in 0..m
    OBVIOUS
  <2>2. /\ f[k + 1] = JSON!Reader(f[k], s[k + 1]) /\ g[k + 1] = JSON!Reader(g[k], t[k + 1])
        /\ s[k + 1] = t[k + 1] /\ f[k] = g[k]
    BY <1>2, <2>1 DEF Reads
  <2> QED BY <2>1, <2>2
<1> HIDE DEF P
<1>3. \A k \in 0..m : k \in P
  BY <1>1, <1>2, InductiveUpto
<1>4. m \in P
  BY <1>3
<1> QED BY <1>4 DEF P

\* What the peer sends.
JSONStream == JSONLength \in Nat /\ jsonStream \in [1..JSONLength -> JSON!Chars]

\* The bytes of the stream from p to e.
LEMMA BytesFrom ==
  ASSUME JSONStream, NEW p \in 1..(JSONLength + 1), NEW e \in (p - 1)..JSONLength
  PROVE  /\ DOMAIN SubSeq(jsonStream, p, e) = 1..(e - p + 1)
         /\ \A k \in 1..(e - p + 1) : SubSeq(jsonStream, p, e)[k] = jsonStream[p + k - 1]
<1>1. jsonStream \in Seq(JSON!Chars) /\ Len(jsonStream) = JSONLength /\ JSONLength \in Nat
  BY SeqDef, LenProperties DEF JSONStream
<1>2. p \in 1..(Len(jsonStream) + 1) /\ e \in (p - 1)..Len(jsonStream)
  BY <1>1
<1>3. /\ SubSeq(jsonStream, p, e) \in Seq(JSON!Chars) /\ Len(SubSeq(jsonStream, p, e)) = IF p <= e THEN e - p + 1 ELSE 0
      /\ \A k \in 1..(e - p + 1) : SubSeq(jsonStream, p, e)[k] = jsonStream[p + k - 1]
  <2>1. \A k \in p..e : jsonStream[k] \in JSON!Chars
    BY <1>1, <1>2, ElementOfSeq
  <2> QED BY <2>1, SubSeqProperties
<1>4. Len(SubSeq(jsonStream, p, e)) = e - p + 1
  BY <1>1, <1>3
<1> QED BY <1>3, <1>4, LenProperties

\* A byte more is read.
LEMMA AfterIs ==
  ASSUME JSONStream, NEW p \in 1..JSONLength
  PROVE  /\ JSON!After(p, p - 1) = Fresh
         /\ \A e \in (p - 1)..JSONLength : JSON!After(p, e) \in Readings
         /\ \A e \in p..JSONLength : JSON!After(p, e) = JSON!Reader(JSON!After(p, e - 1), jsonStream[e])
<1>1. JSONLength \in Nat
  BY DEF JSONStream
<1>2. PICK n \in Nat : n = JSONLength - p + 1
  BY <1>1
<1>3. PICK s : /\ DOMAIN s = 1..n /\ \A k \in 1..n : s[k] = jsonStream[p + k - 1]
  <2>1. JSONLength \in (p - 1)..JSONLength /\ p \in 1..(JSONLength + 1)
    BY <1>1
  <2>2. DOMAIN SubSeq(jsonStream, p, JSONLength) = 1..n
    BY <1>2, <2>1, BytesFrom
  <2>3. \A k \in 1..n : SubSeq(jsonStream, p, JSONLength)[k] = jsonStream[p + k - 1]
    BY <1>2, <2>1, BytesFrom
  <2> QED BY <2>2, <2>3
<1>4. PICK f : Reads(f, s, n)
  BY <1>3, ReadsExist
<1>5. ASSUME NEW e \in (p - 1)..JSONLength PROVE JSON!After(p, e) = f[e - p + 1]
  <2>1. PICK m \in Nat : m = e - p + 1 /\ m <= n
    BY <1>1, <1>2
  <2>2. p \in 1..(JSONLength + 1)
    BY <1>1
  <2>3. PICK t : t = SubSeq(jsonStream, p, e)
    OBVIOUS
  <2>4. DOMAIN t = 1..m /\ \A k \in 1..m : t[k] = jsonStream[p + k - 1]
    BY <2>1, <2>2, <2>3, BytesFrom
  <2>5. PICK g : Reads(g, t, m) /\ ReadAll(t) = g[m]
    BY <2>4, ReadsExist
  <2>6. \A k \in 1..m : s[k] = t[k]
    BY <1>3, <2>1, <2>4
  <2>7. f[m] = g[m]
    BY <1>4, <2>1, <2>5, <2>6, ReadsAgree
  <2>8. JSON!After(p, e) = ReadAll(t)
    BY <2>3 DEF JSON!After, ReadAll, Fresh
  <2> QED BY <2>1, <2>5, <2>7, <2>8
<1>6. f \in [0..n -> Readings] /\ f[0] = Fresh /\ \A k \in 1..n : f[k] = JSON!Reader(f[k - 1], s[k])
  BY <1>4 DEF Reads
<1>7. JSON!After(p, p - 1) = Fresh
  BY <1>1, <1>5, <1>6
<1>8. \A e \in (p - 1)..JSONLength : JSON!After(p, e) \in Readings
  <2> TAKE e \in (p - 1)..JSONLength
  <2>1. e - p + 1 \in 0..n
    BY <1>1, <1>2
  <2> QED BY <1>5, <1>6, <2>1
<1>9. ASSUME NEW e \in p..JSONLength
      PROVE  JSON!After(p, e) = JSON!Reader(JSON!After(p, e - 1), jsonStream[e])
  <2>1. PICK k \in 1..n : k = e - p + 1
    BY <1>1, <1>2
  <2>2. /\ e \in (p - 1)..JSONLength /\ e - 1 \in (p - 1)..JSONLength
        /\ k - 1 = (e - 1) - p + 1 /\ p + k - 1 = e
    BY <1>1, <2>1
  <2>3. JSON!After(p, e) = f[k] /\ JSON!After(p, e - 1) = f[k - 1] /\ s[k] = jsonStream[e]
    BY <1>3, <1>5, <2>1, <2>2
  <2> QED BY <1>6, <2>3
<1> QED BY <1>7, <1>8, <1>9

-----------------------------------------------------------------------------
(* The loop over the tokens, from any index, knows what the reader knows   *)

\* What the loop over the tokens becomes in state s with byte v, of index i.
Goes(t, s, v, i, end, open) ==
  /\ s.hidden => t = [s EXCEPT !.hidden = FALSE]
  /\ ~s.hidden /\ v = "escape" => \E b \in BOOLEAN : (b <=> i + 1 < end) /\ t = [s EXCEPT !.hidden = b]
  /\ ~s.hidden /\ v = "quote" /\ open = LeftBracket =>
       t = [s EXCEPT !.quoted = ~s.quoted, !.count = s.count, !.end = IF s.count = 0 THEN i + 1 ELSE -1]
  /\ ~s.hidden /\ v = "quote" /\ open = "quote" =>
       t = [s EXCEPT !.quoted = ~s.quoted, !.count = s.count - 1, !.end = IF s.count - 1 = 0 THEN i + 1 ELSE -1]
  /\ ~s.hidden /\ v = LeftBracket /\ open = LeftBracket =>
       \E n : /\ n = IF s.quoted THEN s.count ELSE s.count + 1
              /\ t = [s EXCEPT !.quoted = s.quoted, !.count = n, !.end = IF n = 0 THEN i + 1 ELSE -1]
  /\ ~s.hidden /\ v = RightBracket /\ open = LeftBracket =>
       \E n : /\ n = IF s.quoted THEN s.count ELSE s.count - 1
              /\ t = [s EXCEPT !.quoted = s.quoted, !.count = n, !.end = IF n = 0 THEN i + 1 ELSE -1]
  /\ ~s.hidden /\ v \notin {"escape", "quote"} /\ (open = "quote" \/ v \notin {LeftBracket, RightBracket}) => t = s

\* What Token does, by the byte.
LEMMA TokenIs ==
  ASSUME NEW p, p.end \in Int, NEW i \in Int, NEW s, s.end = -1, NEW open, open \in {LeftBracket, "quote"}
  PROVE  Goes(JSON!Token(p, open, i, s), s, JSON!At(p.mem, i), i, p.end, open)
<1> DEFINE v == JSON!At(p.mem, i)
           t == JSON!Token(p, open, i, s)
<1>1. ASSUME s.hidden PROVE t = [s EXCEPT !.hidden = FALSE]
  BY <1>1 DEF JSON!Token, LeftBracket, RightBracket
<1>2. ASSUME ~s.hidden, v = "escape"
      PROVE  \E b \in BOOLEAN : (b <=> i + 1 < p.end) /\ t = [s EXCEPT !.hidden = b]
  <2>1. CASE i + 1 < p.end
    <3>1. t = [s EXCEPT !.hidden = TRUE]
      BY <1>2, <2>1 DEF JSON!Token
    <3> QED BY <2>1, <3>1
  <2>2. CASE ~(i + 1 < p.end)
    <3>1. t = [s EXCEPT !.hidden = i + 1 < p.end]
      BY <1>2 DEF JSON!Token
    <3>2. (i + 1 < p.end) = FALSE
      BY <2>2
    <3>3. t = [s EXCEPT !.hidden = FALSE]
      BY <3>1, <3>2, Zenon
    <3> QED BY <2>2, <3>3
  <2> QED BY <2>1, <2>2
<1>3. ASSUME ~s.hidden, v = "quote", open = LeftBracket
      PROVE t = [s EXCEPT !.quoted = ~s.quoted, !.count = s.count, !.end = IF s.count = 0 THEN i + 1 ELSE -1]
  BY <1>3 DEF JSON!Token, JSON!CloseOf, LeftBracket, RightBracket
<1>4. ASSUME ~s.hidden, v = "quote", open = "quote"
      PROVE  t = [s EXCEPT !.quoted = ~s.quoted, !.count = s.count - 1, !.end = IF s.count - 1 = 0 THEN i + 1 ELSE -1]
  BY <1>4 DEF JSON!Token, JSON!CloseOf, LeftBracket, RightBracket
<1>5. ASSUME ~s.hidden, v = LeftBracket, open = LeftBracket, NEW n, n = IF s.quoted THEN s.count ELSE s.count + 1
      PROVE  t = [s EXCEPT !.quoted = s.quoted, !.count = n, !.end = IF n = 0 THEN i + 1 ELSE -1]
  BY <1>5 DEF JSON!Token, JSON!CloseOf, LeftBracket, RightBracket
<1>6. ASSUME ~s.hidden, v = RightBracket, open = LeftBracket, NEW n, n = IF s.quoted THEN s.count ELSE s.count - 1
      PROVE  t = [s EXCEPT !.quoted = s.quoted, !.count = n, !.end = IF n = 0 THEN i + 1 ELSE -1]
  BY <1>6 DEF JSON!Token, JSON!CloseOf, LeftBracket, RightBracket
<1>7. ASSUME ~s.hidden, v \notin {"escape", "quote"}, open = "quote" \/ v \notin {LeftBracket, RightBracket} PROVE t = s
  BY <1>7 DEF JSON!Token, JSON!CloseOf, LeftBracket, RightBracket
<1> HIDE DEF t, v
<1>8. Goes(t, s, v, i, p.end, open)
  <2>1. \E n : n = IF s.quoted THEN s.count ELSE s.count + 1
    OBVIOUS
  <2>2. \E n : n = IF s.quoted THEN s.count ELSE s.count - 1
    OBVIOUS
  <2> QED BY <1>1, <1>2, <1>3, <1>4, <1>5, <1>6, <1>7, <2>1, <2>2, Zenon DEF Goes
<1> QED BY <1>8 DEF t, v

LEMMA BytesDiffer ==
  /\ LeftBracket # "quote" /\ RightBracket # "quote" /\ LeftBracket # RightBracket /\ "quote" # "escape"
  /\ LeftBracket # "escape" /\ RightBracket # "escape" /\ LeftBracket # "newline" /\ RightBracket # "newline"
  /\ LeftBracket # "control" /\ RightBracket # "control"
BY Zenon DEF LeftBracket, RightBracket

LEMMA FreshIs ==
  ASSUME NEW c \in Readings
  PROVE  /\ c.string \in BOOLEAN /\ c.escaped \in BOOLEAN /\ c.depth \in Int
         /\ c = Fresh <=> ~c.escaped /\ ~c.string /\ c.depth = 0
BY DEF Readings, Fresh

\* The states of the loop over the tokens.
TokenStates == [hidden : BOOLEAN, quoted : BOOLEAN, count : Int, end : Int]

\* Inside of a document, that brackets enclose or quotes, the loop knows what a reader knows.
Knows(s, a, brackets) ==
  /\ s.end = -1 /\ s.quoted = a.string
  /\ brackets => s.count = a.depth /\ a.depth >= 1
  /\ ~brackets => s.count = 1 /\ a.depth = 0 /\ a.string

\* It ends with the byte that ends the document.
EndsWith(t, c, brackets, i, end) ==
  \/ c = Fresh /\ t.end = i + 1
  \/ c # Fresh /\ Knows(t, c, brackets) /\ (i + 1 < end => t.hidden = c.escaped)

LEMMA TokenHides ==
  ASSUME NEW s \in TokenStates, NEW b \in BOOLEAN, NEW t, t = [s EXCEPT !.hidden = b]
  PROVE  t \in TokenStates /\ t.hidden = b /\ t.quoted = s.quoted /\ t.count = s.count /\ t.end = s.end
BY DEF TokenStates

Counted(t, s, q, n, e) == t = [s EXCEPT !.quoted = q, !.count = n, !.end = e]

LEMMA TokenCounts ==
  ASSUME NEW s \in TokenStates, NEW q \in BOOLEAN, NEW n \in Int, NEW e \in Int, NEW t, Counted(t, s, q, n, e)
  PROVE  t \in TokenStates /\ t.hidden = s.hidden /\ t.quoted = q /\ t.count = n /\ t.end = e
BY DEF TokenStates, Counted

\* A document that begins with a bracket: a token keeps what is known.
LEMMA BracketReads ==
  ASSUME NEW end \in Int, NEW i \in Nat, NEW s \in TokenStates, NEW a \in Readings, Knows(s, a, TRUE), s.hidden = a.escaped,
         NEW v, NEW t, Goes(t, s, v, i, end, LeftBracket), NEW c \in Readings, Becomes(c, a, v)
  PROVE  t \in TokenStates /\ EndsWith(t, c, TRUE, i, end)
<1>1. /\ s.hidden \in BOOLEAN /\ s.quoted \in BOOLEAN /\ s.count \in Int /\ s.end \in Int
      /\ a.escaped \in BOOLEAN /\ a.string \in BOOLEAN /\ a.depth \in Int
  BY DEF TokenStates, Readings
<1>k. s.end = -1 /\ s.quoted = a.string /\ s.count = a.depth /\ a.depth >= 1
  BY DEF Knows
<1>3. /\ c.string \in BOOLEAN /\ c.escaped \in BOOLEAN /\ c.depth \in Int
      /\ c = Fresh <=> ~c.escaped /\ ~c.string /\ c.depth = 0
  BY FreshIs
<1>4. CASE a.escaped
  <2>1. t = [s EXCEPT !.hidden = FALSE]
    BY <1>4, BytesDiffer DEF Goes
  <2>2. c.escaped = FALSE /\ c.string = a.string /\ c.depth = a.depth
    BY <1>4, BytesDiffer DEF Becomes
  <2>3. t \in TokenStates /\ t.hidden = FALSE /\ t.end = s.end /\ t.quoted = s.quoted /\ t.count = s.count
    BY <1>1, <2>1, TokenHides
  <2>4. c # Fresh
    BY <1>1, <1>k, <1>3, <2>2
  <2>5. Knows(t, c, TRUE)
    BY <1>k, <2>2, <2>3 DEF Knows
  <2> QED BY <1>1, <1>4, <2>2, <2>3, <2>4, <2>5 DEF EndsWith
<1>5. CASE ~a.escaped /\ v = "escape"
  <2>1. PICK b \in BOOLEAN : (b <=> i + 1 < end) /\ t = [s EXCEPT !.hidden = b]
    BY <1>5, BytesDiffer DEF Goes
  <2>2. c.escaped = TRUE /\ c.string = a.string /\ c.depth = a.depth
    BY <1>5, BytesDiffer DEF Becomes
  <2>3. t \in TokenStates /\ t.hidden = b /\ t.end = s.end /\ t.quoted = s.quoted /\ t.count = s.count
    BY <2>1, TokenHides
  <2>4. c # Fresh
    BY <1>1, <1>k, <1>3, <2>2
  <2>5. Knows(t, c, TRUE)
    BY <1>k, <2>2, <2>3 DEF Knows
  <2> QED BY <2>1, <2>2, <2>3, <2>4, <2>5 DEF EndsWith
<1>6. CASE ~a.escaped /\ v = "quote"
  <2>0. PICK q \in BOOLEAN : q = ~s.quoted
    BY <1>1
  <2>1. t = [s EXCEPT !.quoted = q, !.count = s.count, !.end = IF s.count = 0 THEN i + 1 ELSE -1]
    BY <1>6, <2>0, BytesDiffer DEF Goes
  <2>2. c.escaped = FALSE /\ c.string = ~a.string /\ c.depth = a.depth
    BY <1>6, BytesDiffer DEF Becomes
  <2>3. PICK e \in Int : e = -1 /\ e = IF s.count = 0 THEN i + 1 ELSE -1
    BY <1>1, <1>k
  <2>4. t \in TokenStates /\ t.hidden = s.hidden /\ t.quoted = q /\ t.count = s.count /\ t.end = e
    <3>1. PICK n \in Int : n = s.count
      BY <1>1
    <3>2. Counted(t, s, q, n, e)
      BY <2>1, <2>3, <3>1, Zenon DEF Counted
    <3> QED BY <1>1, <3>1, <3>2, TokenCounts
  <2>5. c # Fresh
    BY <1>1, <1>k, <1>3, <2>2
  <2>6. Knows(t, c, TRUE)
    BY <1>k, <2>0, <2>2, <2>3, <2>4 DEF Knows
  <2> QED BY <1>1, <1>6, <2>2, <2>4, <2>5, <2>6 DEF EndsWith
<1>7. CASE ~a.escaped /\ v = LeftBracket
  <2>1. PICK n : /\ n = IF s.quoted THEN s.count ELSE s.count + 1
                 /\ t = [s EXCEPT !.quoted = s.quoted, !.count = n, !.end = IF n = 0 THEN i + 1 ELSE -1]
    BY <1>7, BytesDiffer DEF Goes
  <2>2. c.escaped = FALSE /\ c.string = a.string /\ c.depth = IF a.string THEN a.depth ELSE a.depth + 1
    BY <1>7, BytesDiffer DEF Becomes
  <2>3. n \in Int /\ n >= 1 /\ c.depth = n
    BY <1>1, <1>k, <2>1, <2>2
  <2>4. PICK e \in Int : e = -1 /\ e = IF n = 0 THEN i + 1 ELSE -1
    BY <2>3
  <2>5. t \in TokenStates /\ t.hidden = s.hidden /\ t.quoted = s.quoted /\ t.count = n /\ t.end = e
    <3>1. PICK q \in BOOLEAN : q = s.quoted
      BY <1>1
    <3>2. Counted(t, s, q, n, e)
      BY <2>1, <2>4, <3>1, Zenon DEF Counted
    <3> QED BY <2>3, <3>1, <3>2, TokenCounts
  <2>6. c # Fresh
    BY <1>3, <2>3
  <2>7. Knows(t, c, TRUE)
    BY <1>k, <2>2, <2>3, <2>4, <2>5 DEF Knows
  <2> QED BY <1>1, <1>7, <2>2, <2>5, <2>6, <2>7 DEF EndsWith
<1>8. CASE ~a.escaped /\ v = RightBracket
  <2>1. PICK n : /\ n = IF s.quoted THEN s.count ELSE s.count - 1
                 /\ t = [s EXCEPT !.quoted = s.quoted, !.count = n, !.end = IF n = 0 THEN i + 1 ELSE -1]
    BY <1>8, BytesDiffer DEF Goes
  <2>2. c.escaped = FALSE /\ c.string = a.string /\ c.depth = IF a.string THEN a.depth ELSE a.depth - 1
    BY <1>8, BytesDiffer DEF Becomes
  <2>3. n \in Int /\ c.depth = n /\ n >= 0 /\ (n = 0 => ~a.string)
    BY <1>1, <1>k, <2>1, <2>2
  <2>4. PICK e \in Int : e = IF n = 0 THEN i + 1 ELSE -1
    BY <2>3
  <2>5. t \in TokenStates /\ t.hidden = s.hidden /\ t.quoted = s.quoted /\ t.count = n /\ t.end = e
    <3>1. PICK q \in BOOLEAN : q = s.quoted
      BY <1>1
    <3>2. Counted(t, s, q, n, e)
      BY <2>1, <2>4, <3>1, Zenon DEF Counted
    <3> QED BY <2>3, <3>1, <3>2, TokenCounts
  <2>6. CASE n = 0
    <3>1. c = Fresh
      BY <1>3, <2>2, <2>3, <2>6
    <3> QED BY <2>4, <2>5, <2>6, <3>1 DEF EndsWith
  <2>7. CASE n # 0
    <3>1. c # Fresh
      BY <1>3, <2>3, <2>7
    <3>2. Knows(t, c, TRUE)
      BY <1>k, <2>2, <2>3, <2>4, <2>5, <2>7 DEF Knows
    <3> QED BY <1>1, <1>8, <2>2, <2>5, <3>1, <3>2 DEF EndsWith
  <2> QED BY <2>6, <2>7
<1>9. CASE ~a.escaped /\ v \notin {"escape", "quote", LeftBracket, RightBracket}
  <2>1. t = s
    BY <1>9, BytesDiffer DEF Goes
  <2>2. c.escaped = FALSE /\ c.string = a.string /\ c.depth = a.depth
    BY <1>9, BytesDiffer DEF Becomes
  <2>3. c # Fresh
    BY <1>1, <1>k, <1>3, <2>2
  <2>4. Knows(t, c, TRUE)
    BY <1>k, <2>1, <2>2 DEF Knows
  <2> QED BY <1>1, <1>9, <2>1, <2>2, <2>3, <2>4 DEF EndsWith
<1> QED BY <1>1, <1>4, <1>5, <1>6, <1>7, <1>8, <1>9

\* A document that begins with a quote: a token keeps what is known.
LEMMA QuoteReads ==
  ASSUME NEW end \in Int, NEW i \in Nat, NEW s \in TokenStates, NEW a \in Readings, Knows(s, a, FALSE), s.hidden = a.escaped,
         NEW v, NEW t, Goes(t, s, v, i, end, "quote"), NEW c \in Readings, Becomes(c, a, v)
  PROVE  t \in TokenStates /\ EndsWith(t, c, FALSE, i, end)
<1>1. /\ s.hidden \in BOOLEAN /\ s.quoted \in BOOLEAN /\ s.count \in Int /\ s.end \in Int
      /\ a.escaped \in BOOLEAN /\ a.string \in BOOLEAN /\ a.depth \in Int
  BY DEF TokenStates, Readings
<1>k. s.end = -1 /\ s.quoted = a.string /\ s.count = 1 /\ a.depth = 0 /\ a.string
  BY DEF Knows
<1>3. /\ c.string \in BOOLEAN /\ c.escaped \in BOOLEAN /\ c.depth \in Int
      /\ c = Fresh <=> ~c.escaped /\ ~c.string /\ c.depth = 0
  BY FreshIs
<1>4. CASE a.escaped
  <2>1. t = [s EXCEPT !.hidden = FALSE]
    BY <1>4, BytesDiffer DEF Goes
  <2>2. c.escaped = FALSE /\ c.string = a.string /\ c.depth = a.depth
    BY <1>4, BytesDiffer DEF Becomes
  <2>3. t \in TokenStates /\ t.hidden = FALSE /\ t.end = s.end /\ t.quoted = s.quoted /\ t.count = s.count
    BY <1>1, <2>1, TokenHides
  <2>4. c # Fresh
    BY <1>k, <1>3, <2>2
  <2>5. Knows(t, c, FALSE)
    BY <1>k, <2>2, <2>3 DEF Knows
  <2> QED BY <1>1, <1>4, <2>2, <2>3, <2>4, <2>5 DEF EndsWith
<1>5. CASE ~a.escaped /\ v = "escape"
  <2>1. PICK b \in BOOLEAN : (b <=> i + 1 < end) /\ t = [s EXCEPT !.hidden = b]
    BY <1>5, BytesDiffer DEF Goes
  <2>2. c.escaped = TRUE /\ c.string = a.string /\ c.depth = a.depth
    BY <1>5, BytesDiffer DEF Becomes
  <2>3. t \in TokenStates /\ t.hidden = b /\ t.end = s.end /\ t.quoted = s.quoted /\ t.count = s.count
    BY <2>1, TokenHides
  <2>4. c # Fresh
    BY <1>k, <1>3, <2>2
  <2>5. Knows(t, c, FALSE)
    BY <1>k, <2>2, <2>3 DEF Knows
  <2> QED BY <2>1, <2>2, <2>3, <2>4, <2>5 DEF EndsWith
<1>6. CASE ~a.escaped /\ v = "quote"
  <2>0. PICK q \in BOOLEAN : q = ~s.quoted
    BY <1>1
  <2>1. t = [s EXCEPT !.quoted = q, !.count = s.count - 1, !.end = IF s.count - 1 = 0 THEN i + 1 ELSE -1]
    BY <1>6, <2>0, BytesDiffer DEF Goes
  <2>2. c.escaped = FALSE /\ c.string = FALSE /\ c.depth = 0
    BY <1>6, <1>k, BytesDiffer DEF Becomes
  <2>3. PICK n \in Int, e \in Int : n = s.count - 1 /\ e = i + 1 /\ e = IF s.count - 1 = 0 THEN i + 1 ELSE -1
    BY <1>1, <1>k
  <2>4. t \in TokenStates /\ t.hidden = s.hidden /\ t.quoted = q /\ t.count = n /\ t.end = e
    <3>1. Counted(t, s, q, n, e)
      BY <2>1, <2>3, Zenon DEF Counted
    <3> QED BY <3>1, TokenCounts
  <2>5. c = Fresh
    BY <1>3, <2>2
  <2> QED BY <2>3, <2>4, <2>5 DEF EndsWith
<1>7. CASE ~a.escaped /\ v \notin {"escape", "quote"}
  <2>1. t = s
    BY <1>7, BytesDiffer DEF Goes
  <2>2. c.escaped = FALSE /\ c.string = a.string /\ c.depth = a.depth
    BY <1>7, <1>k, BytesDiffer DEF Becomes
  <2>3. c # Fresh
    BY <1>k, <1>3, <2>2
  <2>4. Knows(t, c, FALSE)
    BY <1>k, <2>1, <2>2 DEF Knows
  <2> QED BY <1>1, <1>7, <2>1, <2>2, <2>3, <2>4 DEF EndsWith
<1> QED BY <1>1, <1>4, <1>5, <1>6, <1>7

Encloses(open) == open \in {LeftBracket, "quote"}

\* Either document.
LEMMA TokenReads ==
  ASSUME NEW p, p.end \in Int, NEW i \in Nat, NEW open, Encloses(open), NEW s \in TokenStates, NEW a \in Readings,
         Knows(s, a, open = LeftBracket), s.hidden = a.escaped,
         NEW t, t = JSON!Token(p, open, i, s), NEW c, c = JSON!Reader(a, JSON!At(p.mem, i))
  PROVE  t \in TokenStates /\ EndsWith(t, c, open = LeftBracket, i, p.end)
<1>1. PICK v : v = JSON!At(p.mem, i)
  OBVIOUS
<1>2. c \in Readings /\ Becomes(c, a, v)
  BY <1>1, ReaderIs
<1>3. Goes(t, s, v, i, p.end, open)
  <2>1. s.end = -1
    BY DEF Knows
  <2>2. open \in {LeftBracket, "quote"}
    BY DEF Encloses
  <2> QED BY <1>1, <2>1, <2>2, TokenIs
<1>e. PICK end \in Int : end = p.end
  OBVIOUS
<1>4. CASE open = LeftBracket
  <2>1. (open = LeftBracket) = TRUE
    BY <1>4
  <2>2. Knows(s, a, TRUE) /\ Goes(t, s, v, i, end, LeftBracket)
    BY <1>3, <1>4, <1>e, <2>1, Zenon
  <2>3. t \in TokenStates /\ EndsWith(t, c, TRUE, i, end)
    BY <1>2, <2>2, BracketReads
  <2> QED BY <1>e, <2>1, <2>3, Zenon
<1>5. CASE open # LeftBracket
  <2>1. (open = LeftBracket) = FALSE /\ open = "quote"
    BY <1>5 DEF Encloses
  <2>2. Knows(s, a, FALSE) /\ Goes(t, s, v, i, end, "quote")
    BY <1>3, <1>e, <2>1, Zenon
  <2>3. t \in TokenStates /\ EndsWith(t, c, FALSE, i, end)
    BY <1>2, <2>2, QuoteReads
  <2> QED BY <1>e, <2>1, <2>3, Zenon
<1> QED BY <1>4, <1>5

LEMMA TokenType ==
  ASSUME NEW p, p.end \in Int, NEW i \in Int, NEW open, Encloses(open), NEW s \in TokenStates
  PROVE  JSON!Token(p, open, i, s) \in TokenStates /\ (s.end # -1 => JSON!Token(p, open, i, s) = s)
<1>1. PICK t, v : t = JSON!Token(p, open, i, s) /\ v = JSON!At(p.mem, i)
  OBVIOUS
<1>2. s.end # -1 => t = s
  BY <1>1 DEF JSON!Token
<1>3. ASSUME s.end = -1 PROVE t \in TokenStates
  <2>0. PICK end \in Int : end = p.end
    OBVIOUS
  <2>1. Goes(t, s, v, i, end, open)
    <3>1. open \in {LeftBracket, "quote"}
      BY DEF Encloses
    <3> QED BY <1>1, <1>3, <2>0, <3>1, TokenIs
  <2>2. s.hidden \in BOOLEAN /\ s.quoted \in BOOLEAN /\ s.count \in Int /\ s.end \in Int
    BY DEF TokenStates
  <2>3. \A q \in BOOLEAN, n \in Int, e \in Int : Counted(t, s, q, n, e) => t \in TokenStates
    BY TokenCounts
  <2>4. CASE s.hidden
    <3>1. t = [s EXCEPT !.hidden = FALSE]
      BY <2>1, <2>4 DEF Goes
    <3> QED BY <3>1, TokenHides
  <2>5. CASE ~s.hidden /\ v = "escape"
    <3>1. PICK b \in BOOLEAN : t = [s EXCEPT !.hidden = b]
      BY <2>1, <2>5 DEF Goes
    <3> QED BY <3>1, TokenHides
  <2>6. CASE ~s.hidden /\ v = "quote" /\ open = LeftBracket
    <3>0. PICK q \in BOOLEAN : q = ~s.quoted
      BY <2>2
    <3>1. PICK n \in Int, e \in Int : n = s.count /\ e = IF s.count = 0 THEN i + 1 ELSE -1
      BY <2>2
    <3>2. Counted(t, s, q, n, e)
      BY <2>1, <2>6, <3>0, <3>1, Zenon DEF Goes, Counted
    <3> QED BY <2>3, <3>2
  <2>7. CASE ~s.hidden /\ v = "quote" /\ open = "quote"
    <3>0. PICK q \in BOOLEAN : q = ~s.quoted
      BY <2>2
    <3>1. PICK n \in Int, e \in Int : n = s.count - 1 /\ e = IF n = 0 THEN i + 1 ELSE -1
      BY <2>2
    <3>2. Counted(t, s, q, n, e)
      BY <2>1, <2>7, <3>0, <3>1, Zenon DEF Goes, Counted
    <3> QED BY <2>3, <3>2
  <2>8. CASE ~s.hidden /\ v = LeftBracket /\ open = LeftBracket
    <3>1. PICK n : /\ n = IF s.quoted THEN s.count ELSE s.count + 1
                   /\ t = [s EXCEPT !.quoted = s.quoted, !.count = n, !.end = IF n = 0 THEN i + 1 ELSE -1]
      BY <2>1, <2>8 DEF Goes
    <3>2. n \in Int
      BY <2>2, <3>1
    <3>3. PICK q \in BOOLEAN, e \in Int : q = s.quoted /\ e = IF n = 0 THEN i + 1 ELSE -1
      BY <2>2
    <3>4. Counted(t, s, q, n, e)
      BY <3>1, <3>3, Zenon DEF Counted
    <3> QED BY <2>3, <3>2, <3>4
  <2>9. CASE ~s.hidden /\ v = RightBracket /\ open = LeftBracket
    <3>1. PICK n : /\ n = IF s.quoted THEN s.count ELSE s.count - 1
                   /\ t = [s EXCEPT !.quoted = s.quoted, !.count = n, !.end = IF n = 0 THEN i + 1 ELSE -1]
      BY <2>1, <2>9 DEF Goes
    <3>2. n \in Int
      BY <2>2, <3>1
    <3>3. PICK q \in BOOLEAN, e \in Int : q = s.quoted /\ e = IF n = 0 THEN i + 1 ELSE -1
      BY <2>2
    <3>4. Counted(t, s, q, n, e)
      BY <3>1, <3>3, Zenon DEF Counted
    <3> QED BY <2>3, <3>2, <3>4
  <2>10. CASE ~s.hidden /\ v \notin {"escape", "quote"} /\ (open = "quote" \/ v \notin {LeftBracket, RightBracket})
    BY <2>1, <2>10 DEF Goes
  <2> QED BY <2>4, <2>5, <2>6, <2>7, <2>8, <2>9, <2>10, Zenon DEF Encloses
<1> QED BY <1>1, <1>2, <1>3

\* What the loop over the tokens of p knows before the first one, and f after each of n ones.
Begins(p) == [hidden |-> FALSE, quoted |-> p.quoted, count |-> p.count, end |-> -1]
Tokenizes(f, p, open, n) ==
  f \in [0..n -> TokenStates] /\ f[0] = Begins(p) /\ \A k \in 1..n : f[k] = JSON!Token(p, open, p.search + k - 1, f[k - 1])

\* The loop over the tokens is the last of a chain of states.
LEMMA ScanIs ==
  ASSUME NEW p, NEW n \in Nat, p.search \in Nat, p.end = p.search + n, p.count \in Int, p.quoted \in BOOLEAN,
         NEW open, Encloses(open)
  PROVE  \E f : Tokenizes(f, p, open, n) /\ JSON!Scan(p, open) = f[n]
<1> DEFINE places == [k \in 1..(p.end - p.search) |-> p.search + k - 1]
           S == DOMAIN places
           Eq(iter) == iter = [t \in SUBSET S |-> IF t = {} THEN Begins(p)
                                                  ELSE JSON!Token(p, open, places[Max(t)], iter[t \ {Max(t)}])]
           iter == CHOOSE iter : Eq(iter)
           step == [x \in (1..n) \X TokenStates |-> JSON!Token(p, open, places[x[1]], x[2])]
<1>1. JSON!Scan(p, open) = iter[S]
  BY DEF JSON!Scan, JSON!FoldLeft, JSON!MapThenFoldSet, JSON!Max, Max, Begins
<1>2. S = 1..n /\ \A k \in 1..n : places[k] = p.search + k - 1 /\ places[k] \in Int
  OBVIOUS
<1> HIDE DEF S, places
<1>3. Begins(p) \in TokenStates
  BY DEF Begins, TokenStates
<1>4. \A k \in 1..n, v \in TokenStates :
        step[<<k, v>>] = JSON!Token(p, open, places[k], v) /\ step[<<k, v>>] \in TokenStates
  <2> TAKE k \in 1..n, v \in TokenStates
  <2>1. PICK i \in Int : i = places[k]
    BY <1>2
  <2>2. JSON!Token(p, open, i, v) \in TokenStates
    <3>1. p.end \in Int
      OBVIOUS
    <3> QED BY <3>1, TokenType
  <2> QED BY <2>1, <2>2
<1> HIDE DEF step
<1>s. Stepping(n, TokenStates, Begins(p), step)
  BY <1>3, <1>4 DEF Stepping
<1>5. \A t \in SUBSET S : t # {} => Max(t) \in 1..n
  BY <1>2, MaxOfPart
<1>6. Eq(iter)
  <2>1. PICK g \in [SUBSET S -> TokenStates] :
          \A t \in SUBSET S : g[t] = IF t = {} THEN Begins(p) ELSE step[<<Max(t), g[t \ {Max(t)}]>>]
    <3>1. PICK g : g \in [SUBSET (1..n) -> TokenStates] /\ LeftFold(g, n, TokenStates, Begins(p), step)
      <4>1. PICK base : base = Begins(p)
        OBVIOUS
      <4> QED BY <1>s, <4>1, FoldExists
    <3>2. ASSUME NEW t \in SUBSET S, t # {} PROVE g[t] = step[<<Max(t), g[t \ {Max(t)}]>>]
      <4>1. g[t \ {Max(t)}] \in TokenStates
        BY <1>2, <3>1
      <4> QED BY <1>2, <3>1, <3>2, <4>1 DEF LeftFold
    <3> QED BY <1>2, <3>1, <3>2 DEF LeftFold
  <2>2. \A t \in SUBSET S : g[t] = IF t = {} THEN Begins(p) ELSE JSON!Token(p, open, places[Max(t)], g[t \ {Max(t)}])
    <3> TAKE t \in SUBSET S
    <3>1. t \ {Max(t)} \in SUBSET S
      OBVIOUS
    <3>2. g[t \ {Max(t)}] \in TokenStates
      BY <3>1
    <3> QED BY <1>4, <1>5, <2>1, <3>2
  <2>3. g = [t \in SUBSET S |-> IF t = {} THEN Begins(p) ELSE JSON!Token(p, open, places[Max(t)], g[t \ {Max(t)}])]
    BY <2>2
  <2>4. \E h : Eq(h)
    BY <2>3
  <2> HIDE DEF Eq
  <2> QED BY <2>4, Zenon
<1> HIDE DEF iter
<1>7. iter[{}] = Begins(p)
  BY <1>6
<1>8. LeftFold(iter, n, TokenStates, Begins(p), step)
  <2>1. ASSUME NEW t \in SUBSET S, t # {}, iter[t \ {Max(t)}] \in TokenStates
        PROVE  iter[t] = step[<<Max(t), iter[t \ {Max(t)}]>>]
    <3>1. iter[t] = JSON!Token(p, open, places[Max(t)], iter[t \ {Max(t)}])
      BY <1>6, <2>1
    <3> QED BY <1>4, <1>5, <2>1, <3>1
  <2> QED BY <1>2, <1>7, <2>1 DEF LeftFold
<1>9. PICK f : Chain(f, n, TokenStates, Begins(p), step) /\ f[n] = iter[1..n]
  <2>1. PICK base : base = Begins(p)
    OBVIOUS
  <2> QED BY <1>s, <1>8, <2>1, FoldIsChain
<1>10. f \in [0..n -> TokenStates] /\ f[0] = Begins(p) /\ \A k \in 1..n : f[k] = step[<<k, f[k - 1]>>]
  BY <1>9 DEF Chain
<1>11. \A k \in 1..n : f[k] = JSON!Token(p, open, p.search + k - 1, f[k - 1])
  <2> TAKE k \in 1..n
  <2>1. f[k - 1] \in TokenStates
    BY <1>10
  <2> QED BY <1>2, <1>4, <1>10, <2>1
<1> QED BY <1>1, <1>2, <1>9, <1>10, <1>11 DEF Tokenizes

\* A reader, after i bytes of the document that follows byte b.
Read(b, i) == JSON!After(b + 1, b + i)

\* The reader of the document that follows byte b, byte after byte.
LEMMA ReadIs ==
  ASSUME JSONStream, NEW b \in Nat, b < JSONLength
  PROVE  /\ Read(b, 0) = Fresh
         /\ \A i \in 0..(JSONLength - b) : Read(b, i) \in Readings
         /\ \A i \in 0..(JSONLength - b - 1) : Read(b, i + 1) = JSON!Reader(Read(b, i), jsonStream[b + i + 1])
<1>1. PICK p \in 1..JSONLength : p = b + 1
  BY DEF JSONStream
<1>2. /\ JSON!After(p, p - 1) = Fresh
      /\ \A e \in (p - 1)..JSONLength : JSON!After(p, e) \in Readings
      /\ \A e \in p..JSONLength : JSON!After(p, e) = JSON!Reader(JSON!After(p, e - 1), jsonStream[e])
  BY AfterIs
<1>3. JSONLength \in Nat
  BY DEF JSONStream
<1>4. Read(b, 0) = Fresh
  <2>1. p - 1 = b + 0
    BY <1>1
  <2> QED BY <1>1, <1>2, <2>1 DEF Read
<1>5. ASSUME NEW i \in 0..(JSONLength - b) PROVE Read(b, i) \in Readings
  <2>1. PICK e \in (p - 1)..JSONLength : e = b + i
    BY <1>1, <1>3
  <2> QED BY <1>1, <1>2, <2>1 DEF Read
<1>6. ASSUME NEW i \in 0..(JSONLength - b - 1) PROVE Read(b, i + 1) = JSON!Reader(Read(b, i), jsonStream[b + i + 1])
  <2>1. PICK e \in p..JSONLength : e = b + i + 1 /\ e - 1 = b + i /\ e = b + (i + 1)
    BY <1>1, <1>3
  <2> QED BY <1>1, <1>2, <2>1 DEF Read
<1> QED BY <1>4, <1>5, <1>6

\* What the loop knows after m bytes, if it began after j ones.
Scanned(s, b, j, m, brackets) ==
  \/ s.end = -1 /\ Knows(s, Read(b, m), brackets) /\ \A i \in (j + 1)..m : Read(b, i) # Fresh
  \/ s.end \in (j + 1)..m /\ Read(b, s.end) = Fresh /\ \A i \in (j + 1)..(s.end - 1) : Read(b, i) # Fresh

\* The first n bytes of mem follow byte b of the stream.
ShowsBytes(mem, n, b) == \A i \in 0..(n - 1) : JSON!At(mem, i) = jsonStream[b + i + 1]

\* The loop finds the end of the document at the first byte where the reader is fresh again, or
\* it knows what the reader knows.
LEMMA ScanTells ==
  ASSUME JSONStream, NEW b \in Nat, NEW p, NEW j \in Nat, NEW n \in Nat, p.search = j, p.end = j + n, j >= 1,
         b + j + n <= JSONLength, p.count \in Int, p.quoted \in BOOLEAN, NEW open, Encloses(open),
         ShowsBytes(p.mem, p.end, b), ~Read(b, j).escaped, Knows(Begins(p), Read(b, j), open = LeftBracket)
  PROVE  JSON!Scan(p, open) \in TokenStates /\ Scanned(JSON!Scan(p, open), b, j, j + n, open = LeftBracket)
<1>0. JSONLength \in Nat /\ b < JSONLength
  BY DEF JSONStream
<1>1. PICK f : Tokenizes(f, p, open, n) /\ JSON!Scan(p, open) = f[n]
  BY ScanIs
<1>2. f \in [0..n -> TokenStates] /\ f[0] = Begins(p) /\ \A k \in 1..n : f[k] = JSON!Token(p, open, p.search + k - 1, f[k - 1])
  BY <1>1 DEF Tokenizes
<1>b. PICK brackets \in BOOLEAN : brackets = (open = LeftBracket)
  OBVIOUS
<1> DEFINE Right(k) == /\ Scanned(f[k], b, j, j + k, brackets)
                       /\ f[k].end = -1 /\ k < n => f[k].hidden = Read(b, j + k).escaped
           P == {k \in 0..n : Right(k)}
<1>3. 0 \in P
  <2>1. f[0].hidden = FALSE /\ f[0].end = -1
    BY <1>2 DEF Begins
  <2>2. Scanned(f[0], b, j, j + 0, brackets)
    <3>1. \A i \in (j + 1)..(j + 0) : Read(b, i) # Fresh
      OBVIOUS
    <3>2. j + 0 = j
      OBVIOUS
    <3> QED BY <1>2, <1>b, <2>1, <3>1, <3>2 DEF Scanned
  <2>3. f[0].hidden = Read(b, j + 0).escaped
    <3>1. Read(b, j) \in Readings /\ j + 0 = j
      BY <1>0, ReadIs
    <3>2. Read(b, j).escaped = FALSE
      BY <3>1, FreshIs
    <3> QED BY <2>1, <3>1, <3>2
  <2> QED BY <2>2, <2>3
<1>4. ASSUME NEW k \in 0..(n - 1), k \in P PROVE k + 1 \in P
  <2>1. PICK i \in Nat : i = j + k /\ i + 1 = j + (k + 1) /\ i < p.end /\ b + i + 1 <= JSONLength
    BY <1>0
  <2>2. k + 1 \in 1..n /\ (k + 1) - 1 = k /\ p.search + (k + 1) - 1 = i /\ k < n
    BY <2>1
  <2>3. PICK s \in TokenStates : s = f[k]
    BY <1>2
  <2>4. PICK t : t = f[k + 1] /\ t = JSON!Token(p, open, i, s)
    BY <1>2, <2>2, <2>3
  <2>5. Scanned(s, b, j, i, brackets) /\ (s.end = -1 => s.hidden = Read(b, i).escaped)
    BY <1>4, <2>1, <2>2, <2>3
  <2>6. Scanned(t, b, j, i + 1, brackets) /\ (t.end = -1 /\ k + 1 < n => t.hidden = Read(b, i + 1).escaped)
    <3>1. CASE s.end = -1
      <4>1. Knows(s, Read(b, i), brackets) /\ \A h \in (j + 1)..i : Read(b, h) # Fresh
        BY <2>1, <2>5, <3>1 DEF Scanned
      <4>2. PICK a \in Readings : a = Read(b, i)
        BY <1>0, <2>1, ReadIs
      <4>3. PICK c : c = Read(b, i + 1) /\ c = JSON!Reader(a, JSON!At(p.mem, i))
        <5>1. i \in 0..(p.end - 1) /\ i \in 0..(JSONLength - b - 1)
          BY <1>0, <2>1
        <5>2. JSON!At(p.mem, i) = jsonStream[b + i + 1]
          BY <5>1 DEF ShowsBytes
        <5>3. Read(b, i + 1) = JSON!Reader(Read(b, i), jsonStream[b + i + 1])
          BY <1>0, <5>1, ReadIs
        <5> QED BY <4>2, <5>2, <5>3
      <4>4. t \in TokenStates /\ EndsWith(t, c, brackets, i, p.end)
        <5>1. p.end \in Int
          OBVIOUS
        <5>2. Knows(s, a, open = LeftBracket) /\ s.hidden = a.escaped
          BY <1>b, <2>5, <3>1, <4>1, <4>2, Zenon
        <5>3. t \in TokenStates /\ EndsWith(t, c, open = LeftBracket, i, p.end)
          BY <2>4, <4>3, <5>1, <5>2, TokenReads
        <5> QED BY <1>b, <5>3, Zenon
      <4>5. CASE c = Fresh /\ t.end = i + 1
        <5>1. t.end \in (j + 1)..(i + 1) /\ t.end - 1 = i /\ t.end # -1
          BY <2>1, <4>5
        <5> QED BY <4>1, <4>3, <4>5, <5>1 DEF Scanned
      <4>6. CASE c # Fresh /\ Knows(t, c, brackets) /\ (i + 1 < p.end => t.hidden = c.escaped)
        <5>1. \A h \in (j + 1)..(i + 1) : Read(b, h) # Fresh
          <6> TAKE h \in (j + 1)..(i + 1)
          <6>1. h \in (j + 1)..i \/ h = i + 1
            BY <2>1
          <6> QED BY <4>1, <4>3, <4>6, <6>1
        <5>2. t.end = -1
          BY <4>6 DEF Knows
        <5>3. k + 1 < n => i + 1 < p.end
          BY <2>1
        <5> QED BY <4>3, <4>6, <5>1, <5>2, <5>3 DEF Scanned
      <4> QED BY <4>4, <4>5, <4>6 DEF EndsWith
    <3>2. CASE s.end # -1
      <4>1. t = s
        <5>1. p.end \in Int /\ i \in Int
          OBVIOUS
        <5> QED BY <2>4, <3>2, <5>1, TokenType
      <4>2. s.end \in (j + 1)..i /\ Read(b, s.end) = Fresh /\ \A h \in (j + 1)..(s.end - 1) : Read(b, h) # Fresh
        BY <2>5, <3>2 DEF Scanned
      <4>3. s.end \in (j + 1)..(i + 1)
        BY <2>1, <4>2
      <4> QED BY <3>2, <4>1, <4>2, <4>3 DEF Scanned
    <3> QED BY <3>1, <3>2
  <2>7. k + 1 \in 0..n
    OBVIOUS
  <2> QED BY <2>1, <2>4, <2>6, <2>7
<1> HIDE DEF P, Right
<1>5. \A k \in 0..n : k \in P
  BY <1>3, <1>4, InductiveUpto
<1>6. n \in 0..n /\ n \in P
  BY <1>5
<1>7. Scanned(f[n], b, j, j + n, brackets)
  BY <1>6 DEF P, Right
<1> QED BY <1>1, <1>2, <1>6, <1>7, <1>b, Zenon

-----------------------------------------------------------------------------
(* Where the blanks and the documents end                                  *)

\* The operators of the library are those of the instance.
LEMMA JSONOperators ==
  /\ \A S : JSON!Min(S) = Min(S) /\ JSON!Max(S) = Max(S)
  /\ \A s : JSON!Range(s) = Range(s) /\ JSON!Last(s) = Last(s)
BY DEF JSON!Min, Min, JSON!Max, Max, JSON!Range, Range, JSON!Last, Last

\* Where blanks end.
LEMMA SkipIs ==
  ASSUME NEW mem, NEW from \in Nat, NEW end \in Nat, from <= end
  PROVE  \E k \in from..end : /\ k = JSON!SkipBlanks(mem, from, end)
                              /\ \A i \in from..(k - 1) : JSON!At(mem, i) = "newline"
                              /\ k = end \/ JSON!At(mem, k) # "newline"
<1> DEFINE I == {i \in from..end : i = end \/ JSON!At(mem, i) # "newline"}
<1>1. end \in I /\ I \subseteq Nat /\ I \subseteq from..end
  OBVIOUS
<1>2. \A i \in from..end : i \notin I => JSON!At(mem, i) = "newline"
  OBVIOUS
<1>3. \A i \in I : i = end \/ JSON!At(mem, i) # "newline"
  OBVIOUS
<1>4. JSON!SkipBlanks(mem, from, end) = Min(I)
  BY JSONOperators DEF JSON!SkipBlanks
<1> HIDE DEF I
<1>5. Min(I) \in I /\ \A y \in I : Min(I) <= y
  BY <1>1, MinOfNaturals
<1>6. PICK k \in I : k = Min(I) /\ \A y \in I : k <= y
  BY <1>5
<1>7. k \in from..end
  BY <1>1, <1>6
<1>8. \A i \in from..(k - 1) : i \in from..end /\ i \notin I
  BY <1>6, <1>7
<1> QED BY <1>2, <1>3, <1>4, <1>6, <1>7, <1>8

\* A reader of escapes only.
LEMMA ResumeKnows ==
  ASSUME JSONStream, NEW b \in Nat, NEW i \in Nat, i >= 1, b + i <= JSONLength, NEW mem, ShowsBytes(mem, i, b),
         jsonStream[b + 1] # "escape", NEW p, NEW brackets, Knows(Begins(p), Read(b, i), brackets)
  PROVE  \E j \in 1..i : j = JSON!Resume(mem, i) /\ ~Read(b, j).escaped /\ Knows(Begins(p), Read(b, j), brackets)
<1>0. JSONLength \in Nat /\ b < JSONLength
  BY DEF JSONStream
<1> DEFINE J == {j \in 0..i : j = 0 \/ JSON!At(mem, j - 1) # "escape"}
<1>1. JSON!Resume(mem, i) = Max(J)
  BY JSONOperators DEF JSON!Resume
<1>2. 1 \in J
  <2>1. JSON!At(mem, 0) = jsonStream[b + 0 + 1] /\ b + 0 + 1 = b + 1
    BY DEF ShowsBytes
  <2> QED BY <2>1
<1>3. \A j \in J : j = 0 \/ JSON!At(mem, j - 1) # "escape"
  OBVIOUS
<1>4. \A j \in 1..i : j \notin J => JSON!At(mem, j - 1) = "escape"
  OBVIOUS
<1>5. J \subseteq 0..i
  OBVIOUS
<1> HIDE DEF J
<1>6. PICK j \in J : j = Max(J) /\ \A y \in J : y <= j
  BY <1>2, <1>5, MaxUpto
<1>7. j \in 1..i /\ JSON!At(mem, j - 1) # "escape"
  BY <1>2, <1>3, <1>5, <1>6
<1>8. \A h \in j..(i - 1) : jsonStream[b + h + 1] = "escape"
  <2> TAKE h \in j..(i - 1)
  <2>1. h + 1 \in 1..i /\ h + 1 \notin J /\ (h + 1) - 1 = h /\ h \in 0..(i - 1)
    BY <1>6, <1>7
  <2>2. JSON!At(mem, h) = "escape"
    BY <1>4, <2>1
  <2> QED BY <2>1, <2>2 DEF ShowsBytes
<1>9. Read(b, j).escaped = FALSE
  <2>1. PICK h \in Nat : h = j - 1 /\ h + 1 = j /\ h \in 0..(JSONLength - b - 1) /\ h \in 0..(i - 1)
    BY <1>0, <1>7
  <2>2. jsonStream[b + h + 1] # "escape"
    BY <1>7, <2>1 DEF ShowsBytes
  <2>3. PICK a \in Readings : a = Read(b, h)
    BY <1>0, <2>1, ReadIs
  <2>4. PICK v : v = jsonStream[b + h + 1]
    OBVIOUS
  <2>5. Read(b, h + 1) = JSON!Reader(a, v)
    BY <1>0, <2>1, <2>3, <2>4, ReadIs
  <2>6. Becomes(Read(b, j), a, v)
    BY <2>1, <2>5, ReaderIs
  <2>7. (v = "escape") = FALSE /\ a.escaped \in BOOLEAN
    BY <2>2, <2>4 DEF Readings
  <2> QED BY <2>6, <2>7, Zenon DEF Becomes
<1>10. Read(b, j).string = Read(b, i).string /\ Read(b, j).depth = Read(b, i).depth
  <2> DEFINE P == {k \in 0..(i - j) : Read(b, j + k).string = Read(b, j).string /\ Read(b, j + k).depth = Read(b, j).depth}
  <2>1. 0 \in P
    <3>1. j + 0 = j /\ 0 \in 0..(i - j)
      BY <1>7
    <3> QED BY <3>1
  <2>2. ASSUME NEW k \in 0..((i - j) - 1), k \in P PROVE k + 1 \in P
    <3>1. PICK h \in Nat : h = j + k /\ h + 1 = j + (k + 1) /\ h \in j..(i - 1) /\ h \in 0..(JSONLength - b - 1)
      BY <1>0, <1>7
    <3>2. PICK a \in Readings : a = Read(b, h)
      BY <1>0, <3>1, ReadIs
    <3>3. PICK v : v = jsonStream[b + h + 1] /\ v = "escape"
      BY <1>8, <3>1
    <3>4. Becomes(Read(b, h + 1), a, v)
      <4>1. Read(b, h + 1) = JSON!Reader(a, v)
        BY <1>0, <3>1, <3>2, <3>3, ReadIs
      <4> QED BY <4>1, ReaderIs
    <3>5. Read(b, h + 1).string = a.string /\ Read(b, h + 1).depth = a.depth
      BY <3>2, <3>3, <3>4, BytesDiffer, Zenon DEF Becomes
    <3>6. k + 1 \in 0..(i - j)
      BY <1>7
    <3> QED BY <2>2, <3>1, <3>2, <3>5, <3>6
  <2> HIDE DEF P
  <2>3. \A k \in 0..(i - j) : k \in P
    <3>1. PICK m \in Nat : m = i - j
      BY <1>7
    <3>2. \A k \in 0..m : k \in P
      BY <2>1, <2>2, <3>1, InductiveUpto
    <3> QED BY <3>1, <3>2
  <2>4. i - j \in P /\ j + (i - j) = i
    BY <1>7, <2>3
  <2> QED BY <2>4 DEF P
<1>11. Knows(Begins(p), Read(b, j), brackets)
  BY <1>10 DEF Knows
<1> QED BY <1>1, <1>6, <1>7, <1>9, <1>11

\* The least element, or the place after the stream.
LEMMA FirstOfIs ==
  ASSUME JSONLength \in Nat, NEW S, S \subseteq Nat
  PROVE  /\ S = {} => JSON!FirstOf(S) = JSONLength + 1
         /\ S # {} => JSON!FirstOf(S) \in S /\ \A y \in S : JSON!FirstOf(S) <= y
<1>1. CASE S = {}
  BY <1>1 DEF JSON!FirstOf
<1>2. CASE S # {}
  <2>1. Min(S) \in S /\ \A y \in S : Min(S) <= y
    BY <1>2, MinOfNaturals
  <2>2. JSON!FirstOf(S) = Min(S)
    BY <1>2, JSONOperators DEF JSON!FirstOf
  <2> QED BY <1>2, <2>1, <2>2
<1> QED BY <1>1, <1>2

\* The document that follows byte b does not end with its first i bytes.
Open(b, i) ==
  IF Encloses(jsonStream[b + 1])
  THEN \A k \in 1..i : Read(b, k) # Fresh
  ELSE \A k \in 1..i : JSON!Printable(jsonStream[b + k])

\* It has d bytes.
Ending(b, d) ==
  IF Encloses(jsonStream[b + 1])
  THEN Read(b, d) = Fresh /\ \A k \in 1..(d - 1) : Read(b, k) # Fresh
  ELSE b + d < JSONLength /\ ~JSON!Printable(jsonStream[b + d + 1]) /\ \A k \in 1..d : JSON!Printable(jsonStream[b + k])

\* The end of a document that is enclosed.
LEMMA EnclosedEnd ==
  ASSUME JSONStream, NEW b \in Nat, b < JSONLength, Encloses(jsonStream[b + 1])
  PROVE  /\ JSON!CompleteAt(b + 1) = JSON!EndOf(b + 1) /\ JSON!EndOf(b + 1) \in Nat
         /\ \A i \in Nat : b + i <= JSONLength /\ Open(b, i) => JSON!EndOf(b + 1) > b + i
         /\ \A d \in Nat : d >= 1 /\ b + d <= JSONLength /\ Ending(b, d) => JSON!EndOf(b + 1) = b + d
<1>0. JSONLength \in Nat
  BY DEF JSONStream
<1>1. JSON!Opens(jsonStream[b + 1])
  BY Zenon DEF JSON!Opens, Encloses, LeftBracket
<1> DEFINE S == {e \in (b + 1)..JSONLength : JSON!After(b + 1, e) = Fresh}
<1>2. JSON!CompleteAt(b + 1) = JSON!EndOf(b + 1) /\ JSON!EndOf(b + 1) = JSON!FirstOf(S)
  BY <1>1 DEF JSON!CompleteAt, JSON!EndOf, Fresh
<1>3. S \subseteq Nat /\ S \subseteq (b + 1)..JSONLength
  <2>1. (b + 1)..JSONLength \subseteq Nat
    OBVIOUS
  <2> QED BY <2>1
<1>4. \A e \in (b + 1)..JSONLength : e \in S <=> Read(b, e - b) = Fresh
  <2> TAKE e \in (b + 1)..JSONLength
  <2>1. b + (e - b) = e
    BY <1>0
  <2> QED BY <2>1 DEF Read
<1> HIDE DEF S
<1>5. /\ S = {} => JSON!FirstOf(S) = JSONLength + 1
      /\ S # {} => JSON!FirstOf(S) \in S /\ \A y \in S : JSON!FirstOf(S) <= y
  BY <1>0, <1>3, FirstOfIs
<1>6. PICK m \in Nat : m = JSON!FirstOf(S) /\ (S = {} => m = JSONLength + 1) /\ (S # {} => m \in S /\ \A y \in S : m <= y)
  <2>1. CASE S = {}
    BY <1>0, <1>5, <2>1
  <2>2. CASE S # {}
    BY <1>3, <1>5, <2>2
  <2> QED BY <2>1, <2>2
<1>7. ASSUME NEW i \in Nat, b + i <= JSONLength, Open(b, i) PROVE m > b + i
  <2> SUFFICES ASSUME m <= b + i PROVE FALSE
    BY <1>6
  <2>1. m \in S /\ m \in (b + 1)..JSONLength
    BY <1>0, <1>3, <1>6, <1>7
  <2>2. m - b \in 1..i
    BY <2>1
  <2> QED BY <1>4, <1>7, <2>1, <2>2 DEF Open
<1>8. ASSUME NEW d \in Nat, d >= 1, b + d <= JSONLength, Ending(b, d) PROVE m = b + d
  <2>1. b + d \in (b + 1)..JSONLength /\ (b + d) - b = d
    BY <1>0, <1>8
  <2>2. Read(b, d) = Fresh /\ \A k \in 1..(d - 1) : Read(b, k) # Fresh
    BY <1>8 DEF Ending
  <2>3. b + d \in S
    BY <1>4, <2>1, <2>2
  <2>4. m \in S /\ m <= b + d /\ m \in (b + 1)..JSONLength
    BY <1>3, <1>6, <2>3
  <2>5. Read(b, m - b) = Fresh
    BY <1>4, <2>4
  <2>6. m - b \notin 1..(d - 1)
    BY <2>2, <2>5
  <2> QED BY <1>0, <2>4, <2>6
<1>10. JSON!EndOf(b + 1) = m
  BY <1>2, <1>6
<1>11. \A i \in Nat : b + i <= JSONLength /\ Open(b, i) => m > b + i
  BY <1>7
<1>12. \A d \in Nat : d >= 1 /\ b + d <= JSONLength /\ Ending(b, d) => m = b + d
  BY <1>8
<1>13. JSON!CompleteAt(b + 1) = JSON!EndOf(b + 1) /\ JSON!EndOf(b + 1) \in Nat
  BY <1>2, <1>6, <1>10
<1> QED BY <1>10, <1>11, <1>12, <1>13, Zenon

\* The end of a document that is not enclosed.
LEMMA PlainEnd ==
  ASSUME JSONStream, NEW b \in Nat, b < JSONLength, ~Encloses(jsonStream[b + 1])
  PROVE  /\ JSON!CompleteAt(b + 1) = JSON!EndOf(b + 1) + 1 /\ JSON!EndOf(b + 1) \in Nat
         /\ \A i \in Nat : b + i <= JSONLength /\ Open(b, i) => JSON!EndOf(b + 1) >= b + i
         /\ \A d \in Nat : Ending(b, d) => JSON!EndOf(b + 1) = b + d
<1>0. JSONLength \in Nat
  BY DEF JSONStream
<1>1. ~JSON!Opens(jsonStream[b + 1])
  BY Zenon DEF JSON!Opens, Encloses, LeftBracket
<1> DEFINE S == {e \in (b + 1)..JSONLength : ~JSON!Printable(jsonStream[e])}
<1>2. JSON!CompleteAt(b + 1) = JSON!EndOf(b + 1) + 1 /\ JSON!EndOf(b + 1) = JSON!FirstOf(S) - 1
  BY <1>1 DEF JSON!CompleteAt, JSON!EndOf
<1>3. S \subseteq Nat /\ S \subseteq (b + 1)..JSONLength
  <2>1. (b + 1)..JSONLength \subseteq Nat
    OBVIOUS
  <2> QED BY <2>1
<1>4. \A e \in (b + 1)..JSONLength : e \in S <=> ~JSON!Printable(jsonStream[e])
  OBVIOUS
<1> HIDE DEF S
<1>5. /\ S = {} => JSON!FirstOf(S) = JSONLength + 1
      /\ S # {} => JSON!FirstOf(S) \in S /\ \A y \in S : JSON!FirstOf(S) <= y
  BY <1>0, <1>3, FirstOfIs
<1>6. PICK m \in Nat : m = JSON!FirstOf(S) /\ (S = {} => m = JSONLength + 1) /\ (S # {} => m \in S /\ \A y \in S : m <= y)
  <2>1. CASE S = {}
    BY <1>0, <1>5, <2>1
  <2>2. CASE S # {}
    BY <1>3, <1>5, <2>2
  <2> QED BY <2>1, <2>2
<1>9. m >= b + 1
  BY <1>0, <1>3, <1>6
<1>7. ASSUME NEW i \in Nat, b + i <= JSONLength, Open(b, i) PROVE m > b + i
  <2> SUFFICES ASSUME m <= b + i PROVE FALSE
    BY <1>6
  <2>1. m \in S /\ m \in (b + 1)..JSONLength
    BY <1>0, <1>3, <1>6, <1>7
  <2>2. m - b \in 1..i /\ b + (m - b) = m
    BY <2>1
  <2>3. JSON!Printable(jsonStream[b + (m - b)])
    BY <1>7, <2>2 DEF Open
  <2> QED BY <1>4, <2>1, <2>2, <2>3
<1>8. ASSUME NEW d \in Nat, Ending(b, d) PROVE m = b + d + 1
  <2>1. /\ b + d < JSONLength /\ ~JSON!Printable(jsonStream[b + d + 1])
        /\ \A k \in 1..d : JSON!Printable(jsonStream[b + k])
    BY <1>8 DEF Ending
  <2>2. b + d + 1 \in (b + 1)..JSONLength
    BY <1>0, <2>1
  <2>3. b + d + 1 \in S
    BY <1>4, <2>1, <2>2
  <2>4. m \in S /\ m <= b + d + 1 /\ m \in (b + 1)..JSONLength
    BY <1>3, <1>6, <2>3
  <2>5. ~JSON!Printable(jsonStream[m]) /\ b + (m - b) = m
    BY <1>4, <2>4
  <2>6. m - b \notin 1..d
    BY <2>1, <2>5
  <2> QED BY <1>0, <2>4, <2>6
<1>10. JSON!EndOf(b + 1) = m - 1 /\ m - 1 \in Nat /\ JSON!CompleteAt(b + 1) = (m - 1) + 1
  BY <1>2, <1>6, <1>9
<1>11. \A i \in Nat : b + i <= JSONLength /\ Open(b, i) => m - 1 >= b + i
  BY <1>7
<1>12. \A d \in Nat : Ending(b, d) => m - 1 = b + d
  BY <1>8
<1>13. JSON!CompleteAt(b + 1) = JSON!EndOf(b + 1) + 1 /\ JSON!EndOf(b + 1) \in Nat
  BY <1>10
<1> QED BY <1>10, <1>11, <1>12, <1>13, Zenon

\* Where a document ends, and where it is complete.
LEMMA EndIs ==
  ASSUME JSONStream, NEW b \in Nat, b < JSONLength
  PROVE  /\ JSON!CompleteAt(b + 1) \in Int
         /\ \A i \in Nat : b + i <= JSONLength /\ Open(b, i) => JSON!CompleteAt(b + 1) > b + i
         /\ \A d \in Nat : b + d <= JSONLength /\ Ending(b, d) /\ (Encloses(jsonStream[b + 1]) => d >= 1) =>
              JSON!EndOf(b + 1) = b + d /\ JSON!CompleteAt(b + 1) >= b + d
<1>1. CASE Encloses(jsonStream[b + 1])
  <2>1. /\ JSON!CompleteAt(b + 1) = JSON!EndOf(b + 1) /\ JSON!EndOf(b + 1) \in Nat
        /\ \A i \in Nat : b + i <= JSONLength /\ Open(b, i) => JSON!EndOf(b + 1) > b + i
        /\ \A d \in Nat : d >= 1 /\ b + d <= JSONLength /\ Ending(b, d) => JSON!EndOf(b + 1) = b + d
    BY <1>1, EnclosedEnd
  <2> QED BY <1>1, <2>1
<1>2. CASE ~Encloses(jsonStream[b + 1])
  <2>1. /\ JSON!CompleteAt(b + 1) = JSON!EndOf(b + 1) + 1 /\ JSON!EndOf(b + 1) \in Nat
        /\ \A i \in Nat : b + i <= JSONLength /\ Open(b, i) => JSON!EndOf(b + 1) >= b + i
        /\ \A d \in Nat : Ending(b, d) => JSON!EndOf(b + 1) = b + d
    BY <1>2, PlainEnd
  <2> QED BY <1>2, <2>1
<1> QED BY <1>1, <1>2

\* Blanks follow byte e of the stream, up to byte b.
Blanks(e, b) == \A k \in (e + 1)..b : jsonStream[k] = "newline"

\* Where the next document begins.
LEMMA NextStartIs ==
  ASSUME JSONStream, NEW e \in Nat, NEW b \in Nat, e <= b, b <= JSONLength, Blanks(e, b)
  PROVE  /\ JSON!NextStart(e) \in Nat /\ JSON!NextStart(e) > b
         /\ b < JSONLength /\ jsonStream[b + 1] # "newline" => JSON!NextStart(e) = b + 1
<1>0. JSONLength \in Nat
  BY DEF JSONStream
<1> DEFINE S == {p \in (e + 1)..JSONLength : jsonStream[p] # "newline"}
<1>1. JSON!NextStart(e) = JSON!FirstOf(S)
  BY DEF JSON!NextStart
<1>2. S \subseteq Nat /\ S \subseteq (b + 1)..JSONLength
  <2>1. \A p \in S : p \in Nat /\ p \in (b + 1)..JSONLength
    <3> TAKE p \in S
    <3>1. p \in (e + 1)..JSONLength /\ jsonStream[p] # "newline"
      OBVIOUS
    <3>2. p \notin (e + 1)..b
      BY <3>1 DEF Blanks
    <3> QED BY <1>0, <3>1, <3>2
  <2> QED BY <2>1
<1>3. b < JSONLength /\ jsonStream[b + 1] # "newline" => b + 1 \in S
  BY <1>0
<1> HIDE DEF S
<1>4. /\ S = {} => JSON!FirstOf(S) = JSONLength + 1
      /\ S # {} => JSON!FirstOf(S) \in S /\ \A y \in S : JSON!FirstOf(S) <= y
  BY <1>0, <1>2, FirstOfIs
<1>5. JSON!FirstOf(S) \in Nat /\ JSON!FirstOf(S) > b
  <2>1. CASE S = {}
    BY <1>0, <1>4, <2>1
  <2>2. CASE S # {}
    <3>1. PICK x \in S : x = JSON!FirstOf(S)
      BY <1>4, <2>2
    <3>2. x \in (b + 1)..JSONLength
      BY <1>2
    <3> QED BY <1>0, <3>1, <3>2
  <2> QED BY <2>1, <2>2
<1>6. ASSUME b < JSONLength, jsonStream[b + 1] # "newline" PROVE JSON!FirstOf(S) = b + 1
  BY <1>3, <1>4, <1>5, <1>6
<1> QED BY <1>1, <1>5, <1>6

\* The first n places of mem have the bytes that follow byte b.
Shown(mem, n, b) == \A i \in 1..n : mem[i] = b + i

LEMMA ShownBytes ==
  ASSUME NEW b \in Nat, NEW n \in Nat, NEW mem, Shown(mem, n, b)
  PROVE  ShowsBytes(mem, n, b)
<1>1. ASSUME NEW i \in 0..(n - 1) PROVE JSON!At(mem, i) = jsonStream[b + i + 1]
  <2>1. i + 1 \in 1..n
    OBVIOUS
  <2>2. mem[i + 1] = b + (i + 1)
    BY <2>1 DEF Shown
  <2>3. b + (i + 1) = b + i + 1 /\ b + i + 1 # 0
    OBVIOUS
  <2> QED BY <2>2, <2>3 DEF JSON!At
<1> QED BY <1>1 DEF ShowsBytes

\* The bytes of a slice of the buffer.
LEMMA SliceIs ==
  ASSUME NEW b \in Nat, NEW n \in Nat, NEW mem, Shown(mem, n, b), NEW from \in Nat, NEW upto \in Nat, from <= upto, upto <= n
  PROVE  Following(JSON!Slice(mem, from, upto), b + from) /\ Len(JSON!Slice(mem, from, upto)) = upto - from
<1>1. PICK l \in Int : l = from + 1
  OBVIOUS
<1>2. upto \in Int /\ \A i \in l..upto : mem[i] \in Nat
  <2>1. \A i \in l..upto : i \in 1..n
    BY <1>1
  <2> QED BY <2>1 DEF Shown
<1>3. /\ SubSeq(mem, l, upto) \in Seq(Nat) /\ Len(SubSeq(mem, l, upto)) = IF l <= upto THEN upto - l + 1 ELSE 0
      /\ \A i \in 1..(upto - l + 1) : SubSeq(mem, l, upto)[i] = mem[l + i - 1]
  BY <1>2, SubSeqProperties
<1>4. PICK s : s = SubSeq(mem, l, upto) /\ s = JSON!Slice(mem, from, upto)
  BY <1>1 DEF JSON!Slice
<1>5. Len(s) = upto - from
  BY <1>1, <1>3, <1>4
<1>6. ASSUME NEW i \in 1..(upto - from) PROVE s[i] = (b + from) + i
  <2>1. l + i - 1 = from + i /\ i \in 1..(upto - l + 1) /\ from + i \in 1..n
    BY <1>1
  <2>2. s[i] = mem[from + i] /\ mem[from + i] = b + (from + i)
    BY <1>3, <1>4, <2>1 DEF Shown
  <2> QED BY <2>2
<1> QED BY <1>3, <1>4, <1>5, <1>6 DEF Following

LEMMA SliceToEnd ==
  ASSUME NEW b \in Nat, NEW n \in Nat, NEW mem, Shown(mem, n, b), NEW k \in Nat, k <= n
  PROVE  Following(JSON!Slice(mem, k, n), b + k) /\ Len(JSON!Slice(mem, k, n)) = n - k
<1>1. Following(JSON!Slice(mem, k, n), b + k)
  BY SliceIs
<1>2. Len(JSON!Slice(mem, k, n)) = n - k
  BY SliceIs
<1> QED BY <1>1, <1>2

\* Some bytes are consumed.
LEMMA SomeConsumed ==
  ASSUME NEW b \in Nat, NEW n \in Nat, NEW mem, Shown(mem, n, b), NEW c \in 1..n
  PROVE  JSON!GivesUp(mem, c).is = "overrun" /\ JSON!GivesUp(mem, c).consumed # {}
<1>1. PICK s : s = JSON!Slice(mem, 0, c)
  OBVIOUS
<1>2. Len(s) = c /\ s \in Seq(Nat)
  <2>1. c \in Nat /\ 0 <= c /\ c <= n /\ c - 0 = c
    OBVIOUS
  <2>2. Following(s, b + 0) /\ Len(s) = c - 0
    BY <1>1, <2>1, SliceIs
  <2> QED BY <2>1, <2>2 DEF Following
<1>3. 1 \in DOMAIN s
  BY <1>2, LenProperties
<1>4. s[1] \in Range(s)
  BY <1>3 DEF Range
<1>5. JSON!GivesUp(mem, c).is = "overrun" /\ JSON!GivesUp(mem, c).consumed = Range(s)
  BY <1>1, JSONOperators DEF JSON!GivesUp
<1> QED BY <1>4, <1>5

\* What is answered when a document has d bytes, or is too long, of the ones received after byte b.
LongDocument(out, b) == out.is = "overrun" /\ out.consumed # {} /\ JSON!CompleteAt(b + 1) - b > JSONLimit
Cuts(out, b, d, end) ==
  /\ out.is = "packet" /\ Following(out.doc, b) /\ Len(out.doc) = d
  /\ \E k \in d..end : Following(out.rest, b + k) /\ Len(out.rest) = end - k /\ Blanks(b + d, b + k)

\* __split_final_buffer(): a document, with what follows the blanks after it, or a refusal.
LEMMA SplitIs ==
  ASSUME JSONStream, NEW b \in Nat, b < JSONLength, NEW p, NEW end \in Nat, p.end = end, b + end <= JSONLength,
         Shown(p.mem, end, b), NEW d \in 0..end, Ending(b, d), Encloses(jsonStream[b + 1]) => d >= 1
  PROVE  Cuts(JSON!Split(p, d), b, d, end) \/ LongDocument(JSON!Split(p, d), b)
<1>0. JSONLength \in Nat /\ JSONLimit \in Nat \ {0}
  BY JSONAssumption DEF JSONStream, JSON!JSONParameters
<1>1. PICK mem : mem = p.mem /\ Shown(mem, end, b)
  OBVIOUS
<1>2. PICK k \in d..end : /\ k = JSON!SkipBlanks(mem, d, end) /\ \A i \in d..(k - 1) : JSON!At(mem, i) = "newline"
  BY SkipIs
<1>3. JSON!Split(p, d) = IF d > JSONLimit THEN JSON!GivesUp(mem, k)
                         ELSE JSON!Gives(JSON!Slice(mem, 0, d), JSON!Slice(mem, k, end))
  BY <1>1, <1>2 DEF JSON!Split
<1>4. JSON!CompleteAt(b + 1) >= b + d /\ JSON!CompleteAt(b + 1) \in Int
  BY <1>0, EndIs
<1>5. CASE d > JSONLimit
  <2>1. k \in 1..end
    BY <1>0, <1>5
  <2>2. JSON!Split(p, d) = JSON!GivesUp(mem, k)
    BY <1>3, <1>5
  <2>3. JSON!GivesUp(mem, k).is = "overrun" /\ JSON!GivesUp(mem, k).consumed # {}
    BY <1>1, <2>1, SomeConsumed
  <2>4. JSON!CompleteAt(b + 1) - b > JSONLimit
    BY <1>0, <1>4, <1>5
  <2> QED BY <2>2, <2>3, <2>4 DEF LongDocument
<1>6. CASE ~(d > JSONLimit)
  <2>1. PICK doc, left : doc = JSON!Slice(mem, 0, d) /\ left = JSON!Slice(mem, k, end)
    OBVIOUS
  <2>2. PICK out : out = JSON!Split(p, d) /\ out = JSON!Gives(doc, left)
    BY <1>3, <1>6, <2>1
  <2>3. out.is = "packet" /\ out.doc = doc /\ out.rest = left
    BY <2>2 DEF JSON!Gives
  <2>4. Following(doc, b) /\ Len(doc) = d
    <3>1. d \in Nat /\ d <= end /\ 0 <= d /\ d - 0 = d /\ b + 0 = b
      OBVIOUS
    <3>2. Following(doc, b + 0) /\ Len(doc) = d - 0
      BY <1>1, <2>1, <3>1, SliceIs
    <3> QED BY <3>1, <3>2
  <2>5. Following(left, b + k) /\ Len(left) = end - k
    <3>1. k \in Nat /\ k <= end
      OBVIOUS
    <3>2. Shown(mem, end, b)
      BY <1>1
    <3>3. Following(left, b + k)
      BY <2>1, <3>1, <3>2, SliceToEnd
    <3>4. Len(left) = end - k
      <4>1. PICK h \in Nat : h = k
        BY <3>1
      <4>2. Len(JSON!Slice(mem, h, end)) = end - h
        BY <3>1, <3>2, <4>1, SliceToEnd
      <4> QED BY <2>1, <4>1, <4>2
    <3> QED BY <3>3, <3>4
  <2>6. Blanks(b + d, b + k)
    <3>1. ShowsBytes(mem, end, b)
      BY <1>1, ShownBytes
    <3>2. ASSUME NEW h \in (b + d + 1)..(b + k) PROVE jsonStream[h] = "newline"
      <4>1. PICK i \in d..(k - 1) : b + i + 1 = h
        <5>1. h - b - 1 \in d..(k - 1) /\ b + (h - b - 1) + 1 = h
          OBVIOUS
        <5> QED BY <5>1
      <4>2. i \in 0..(end - 1)
        OBVIOUS
      <4>3. JSON!At(mem, i) = jsonStream[b + i + 1]
        BY <3>1, <4>2 DEF ShowsBytes
      <4> QED BY <1>2, <4>1, <4>3
    <3> QED BY <3>2 DEF Blanks
  <2> QED BY <2>2, <2>3, <2>4, <2>5, <2>6 DEF Cuts
<1> QED BY <1>5, <1>6

-----------------------------------------------------------------------------
(* The parser: what it answers to the bytes it has                         *)

\* The state of the parser.
Parser(p, f, m, e, s, c, q) == p = [phase |-> f, mem |-> m, end |-> e, search |-> s, count |-> c, quoted |-> q]

LEMMA ParserFields ==
  ASSUME NEW p, NEW f, NEW m, NEW e, NEW s, NEW c, NEW q, Parser(p, f, m, e, s, c, q)
  PROVE  p.phase = f /\ p.mem = m /\ p.end = e /\ p.search = s /\ p.count = c /\ p.quoted = q
BY DEF Parser

LEMMA SearchMoves ==
  ASSUME NEW p, NEW f, NEW m, NEW e, NEW s, NEW c, NEW q, Parser(p, f, m, e, s, c, q), NEW x, NEW r, r = [p EXCEPT !.search = x]
  PROVE  Parser(r, f, m, e, x, c, q)
BY DEF Parser

LEMMA ScanMoves ==
  ASSUME NEW p, NEW f, NEW m, NEW e, NEW s, NEW c, NEW q, Parser(p, f, m, e, s, c, q), NEW x, NEW y, NEW z,
         NEW r, r = [p EXCEPT !.search = x, !.count = y, !.quoted = z]
  PROVE  Parser(r, f, m, e, x, y, z)
BY DEF Parser

\* It waits for more than the bytes received, which follow byte b.
Waits(q, b, end) ==
  /\ q.end = end /\ Shown(q.mem, end, b) /\ Open(b, end) /\ q.count \in Int /\ q.quoted \in BOOLEAN
  /\ Encloses(jsonStream[b + 1]) => q.phase = "framed" /\ Knows(Begins(q), Read(b, end), jsonStream[b + 1] = LeftBracket)
  /\ ~Encloses(jsonStream[b + 1]) => q.phase = "plain"

\* What it answers.
Answers(out, b, end) ==
  \/ out.is = "more" /\ Waits(out.p, b, end)
  \/ \E d \in 1..end : Ending(b, d) /\ Cuts(out, b, d, end)
  \/ jsonStream[b + 1] = "control" /\ Cuts(out, b, end, end)
  \/ LongDocument(out, b)

\* __read_data(): the parser waits, or the document is too long.
LEMMA ReadDataIs ==
  ASSUME JSONStream, NEW b \in Nat, NEW end \in Nat, end >= 1, b + end <= JSONLength, NEW q, Waits(q, b, end)
  PROVE  Answers(JSON!ReadData(q), b, end)
<1>0. JSONLength \in Nat /\ JSONLimit \in Nat \ {0} /\ b < JSONLength
  BY JSONAssumption DEF JSONStream, JSON!JSONParameters
<1>1. q.end = end /\ Shown(q.mem, end, b) /\ Open(b, end)
  BY DEF Waits
<1>2. CASE end >= JSONLimit
  <2>1. JSON!ReadData(q) = JSON!GivesUp(q.mem, end)
    BY <1>1, <1>2 DEF JSON!ReadData
  <2>2. JSON!GivesUp(q.mem, end).is = "overrun" /\ JSON!GivesUp(q.mem, end).consumed # {}
    <3>1. end \in 1..end
      OBVIOUS
    <3> QED BY <1>1, <3>1, SomeConsumed
  <2>3. JSON!CompleteAt(b + 1) > b + end /\ JSON!CompleteAt(b + 1) \in Int
    BY <1>0, <1>1, EndIs
  <2>4. JSON!CompleteAt(b + 1) - b > JSONLimit
    BY <1>0, <1>2, <2>3
  <2> QED BY <2>1, <2>2, <2>4 DEF LongDocument, Answers
<1>3. CASE ~(end >= JSONLimit)
  <2>1. JSON!ReadData(q) = JSON!Wants(q)
    BY <1>1, <1>3 DEF JSON!ReadData
  <2>2. JSON!Wants(q).is = "more" /\ JSON!Wants(q).p = q
    BY DEF JSON!Wants
  <2> QED BY <2>1, <2>2 DEF Answers
<1> QED BY <1>2, <1>3

LEMMA FirstByte ==
  ASSUME NEW b \in Nat, NEW n \in Nat, n >= 1, NEW mem, Shown(mem, n, b)
  PROVE  JSON!At(mem, 0) = jsonStream[b + 1]
<1>1. PICK i \in 0..(n - 1) : i = 0 /\ b + i + 1 = b + 1
  <2>1. 0 \in 0..(n - 1) /\ b + 0 + 1 = b + 1
    OBVIOUS
  <2> QED BY <2>1
<1>2. JSON!At(mem, i) = jsonStream[b + i + 1]
  BY ShownBytes DEF ShowsBytes
<1> QED BY <1>1, <1>2

\* What the parser answers for a document that is enclosed.
LEMMA FramedIs ==
  ASSUME JSONStream, NEW b \in Nat, NEW end \in Nat, b + end <= JSONLength, NEW m, Shown(m, end, b),
         NEW j \in Nat, j >= 1, j <= end, NEW c \in Int, NEW u \in BOOLEAN, NEW p, Parser(p, "framed", m, end, j, c, u),
         Encloses(jsonStream[b + 1]), ~Read(b, j).escaped, Knows(Begins(p), Read(b, j), jsonStream[b + 1] = LeftBracket),
         Open(b, j)
  PROVE  Answers(JSON!ParseFramed(p), b, end)
<1>0. JSONLength \in Nat /\ b < JSONLength
  BY DEF JSONStream
<1>1. p.phase = "framed" /\ p.mem = m /\ p.end = end /\ p.search = j /\ p.count = c /\ p.quoted = u
  BY ParserFields, Zenon
<1>2. PICK open : open = jsonStream[b + 1] /\ open = JSON!At(m, 0) /\ Encloses(open)
  <2>1. JSON!At(m, 0) = jsonStream[b + 1]
    BY FirstByte
  <2> QED BY <2>1
<1>3. PICK s \in TokenStates : s = JSON!Scan(p, open) /\ Scanned(s, b, j, end, open = LeftBracket)
  <2>1. PICK n \in Nat : end = j + n
    <3>1. end - j \in Nat /\ end = j + (end - j)
      OBVIOUS
    <3> QED BY <3>1
  <2>2. p.search = j /\ p.end = j + n /\ b + j + n <= JSONLength /\ p.count \in Int /\ p.quoted \in BOOLEAN
    BY <1>0, <1>1, <2>1
  <2>3. ShowsBytes(p.mem, p.end, b)
    BY <1>1, ShownBytes
  <2>4. Knows(Begins(p), Read(b, j), open = LeftBracket)
    BY <1>2, Zenon
  <2>5. JSON!Scan(p, open) \in TokenStates /\ Scanned(JSON!Scan(p, open), b, j, j + n, open = LeftBracket)
    BY <1>2, <2>2, <2>3, <2>4, ScanTells
  <2> QED BY <2>1, <2>5
<1>4. JSON!ParseFramed(p) = IF s.end # -1 THEN JSON!Split(p, s.end)
                            ELSE JSON!ReadData([p EXCEPT !.search = p.end, !.count = s.count, !.quoted = s.quoted])
  BY <1>1, <1>2, <1>3 DEF JSON!ParseFramed
<1>5. s.count \in Int /\ s.quoted \in BOOLEAN
  BY DEF TokenStates
<1>6. \A k \in 1..j : Read(b, k) # Fresh
  BY DEF Open
<1>7. CASE s.end = -1 /\ Knows(s, Read(b, end), open = LeftBracket) /\ \A i \in (j + 1)..end : Read(b, i) # Fresh
  <2>1. PICK q : q = [p EXCEPT !.search = p.end, !.count = s.count, !.quoted = s.quoted]
    OBVIOUS
  <2>2. PICK y, z : y = s.count /\ z = s.quoted
    OBVIOUS
  <2>r. Parser(q, "framed", m, end, end, y, z)
    <3>1. q = [p EXCEPT !.search = end, !.count = y, !.quoted = z]
      BY <1>1, <2>1, <2>2
    <3> QED BY <3>1, ScanMoves, Zenon
  <2>3. q.phase = "framed" /\ q.mem = m /\ q.end = end /\ q.count = s.count /\ q.quoted = s.quoted
    <3>1. q.phase = "framed" /\ q.mem = m /\ q.end = end /\ q.count = y /\ q.quoted = z
      BY <2>r, ParserFields, Zenon
    <3> QED BY <2>2, <3>1
  <2>4. Open(b, end)
    <3>1. \A k \in 1..end : k \in 1..j \/ k \in (j + 1)..end
      OBVIOUS
    <3> QED BY <1>6, <1>7, <3>1 DEF Open
  <2>5. Knows(Begins(q), Read(b, end), jsonStream[b + 1] = LeftBracket)
    <3>1. Begins(q).end = -1 /\ Begins(q).quoted = s.quoted /\ Begins(q).count = s.count
      BY <2>3 DEF Begins
    <3>2. PICK brackets \in BOOLEAN : brackets = (open = LeftBracket)
      OBVIOUS
    <3>3. Knows(s, Read(b, end), brackets)
      BY <1>7, <3>2, Zenon
    <3>4. Knows(Begins(q), Read(b, end), brackets)
      BY <3>1, <3>3 DEF Knows
    <3> QED BY <1>2, <3>2, <3>4, Zenon
  <2>6. Waits(q, b, end)
    BY <1>5, <2>3, <2>4, <2>5 DEF Waits
  <2>7. JSON!ParseFramed(p) = JSON!ReadData(q)
    BY <1>4, <1>7, <2>1
  <2> QED BY <2>6, <2>7, ReadDataIs
<1>8. CASE s.end \in (j + 1)..end /\ Read(b, s.end) = Fresh /\ \A i \in (j + 1)..(s.end - 1) : Read(b, i) # Fresh
  <2>1. PICK d \in 1..end : d = s.end /\ d # -1 /\ d >= j + 1
    BY <1>8
  <2>2. Ending(b, d)
    <3>1. \A k \in 1..(d - 1) : k \in 1..j \/ k \in (j + 1)..(d - 1)
      BY <2>1
    <3> QED BY <1>6, <1>8, <2>1, <3>1 DEF Ending
  <2>3. JSON!ParseFramed(p) = JSON!Split(p, d)
    BY <1>4, <2>1
  <2>4. Cuts(JSON!Split(p, d), b, d, end) \/ LongDocument(JSON!Split(p, d), b)
    <3>1. Shown(p.mem, end, b) /\ p.end = end /\ d \in 0..end /\ d >= 1
      BY <1>1, <2>1
    <3> QED BY <1>0, <2>2, <3>1, SplitIs
  <2> QED BY <2>2, <2>3, <2>4 DEF Answers
<1> QED BY <1>3, <1>7, <1>8 DEF Scanned

\* What the parser answers for a document that is not enclosed.
LEMMA PlainIs ==
  ASSUME JSONStream, NEW b \in Nat, NEW end \in Nat, end >= 1, b + end <= JSONLength, NEW m, Shown(m, end, b),
         NEW j \in Nat, j <= end, NEW c \in Int, NEW u \in BOOLEAN, NEW p, Parser(p, "plain", m, end, j, c, u),
         ~Encloses(jsonStream[b + 1]), jsonStream[b + 1] # "newline", Open(b, j)
  PROVE  Answers(JSON!ParsePlain(p), b, end)
<1>0. JSONLength \in Nat /\ b < JSONLength
  BY DEF JSONStream
<1>1. p.phase = "plain" /\ p.mem = m /\ p.end = end /\ p.search = j /\ p.count = c /\ p.quoted = u
  BY ParserFields, Zenon
<1> DEFINE stops == {i \in j..(end - 1) : ~JSON!Printable(JSON!At(m, i))}
           out == JSON!Split(p, Min(stops))
<1>2. JSON!ParsePlain(p) =
        IF stops = {} THEN JSON!ReadData([p EXCEPT !.search = p.end])
        ELSE IF out.is = "packet" /\ out.doc = <<>> THEN JSON!Gives(out.rest, <<>>)
        ELSE out
  BY <1>1, JSONOperators DEF JSON!ParsePlain
<1>3. \A i \in 0..(end - 1) : JSON!At(m, i) = jsonStream[b + (i + 1)]
  <2> TAKE i \in 0..(end - 1)
  <2>1. ShowsBytes(m, end, b)
    BY ShownBytes
  <2>2. b + i + 1 = b + (i + 1)
    OBVIOUS
  <2> QED BY <2>1, <2>2 DEF ShowsBytes
<1>4. \A i \in j..(end - 1) : i \in stops <=> ~JSON!Printable(jsonStream[b + (i + 1)])
  BY <1>3
<1>5. stops \subseteq j..(end - 1) /\ stops \subseteq Nat
  OBVIOUS
<1>6. \A k \in 1..j : JSON!Printable(jsonStream[b + k])
  BY DEF Open
<1> HIDE DEF stops, out
<1>7. CASE stops = {}
  <2>1. PICK q : q = [p EXCEPT !.search = p.end]
    OBVIOUS
  <2>2. Parser(q, "plain", m, end, p.end, c, u)
    BY <2>1, SearchMoves, Zenon
  <2>3. q.phase = "plain" /\ q.mem = m /\ q.end = end /\ q.count = c /\ q.quoted = u
    BY <2>2, ParserFields, Zenon
  <2>4. Open(b, end)
    <3>1. ASSUME NEW k \in 1..end PROVE JSON!Printable(jsonStream[b + k])
      <4>1. CASE k <= j
        BY <1>6, <4>1
      <4>2. CASE k > j
        <5>1. PICK i \in j..(end - 1) : i + 1 = k
          <6>1. k - 1 \in j..(end - 1) /\ (k - 1) + 1 = k
            BY <4>2
          <6> QED BY <6>1
        <5> QED BY <1>4, <1>7, <5>1
      <4> QED BY <4>1, <4>2
    <3> QED BY <3>1 DEF Open
  <2>5. Waits(q, b, end)
    BY <2>3, <2>4 DEF Waits
  <2>6. JSON!ParsePlain(p) = JSON!ReadData(q)
    BY <1>2, <1>7, <2>1
  <2> QED BY <2>5, <2>6, ReadDataIs
<1>8. CASE stops # {}
  <2>1. PICK d \in stops : d = Min(stops) /\ \A y \in stops : d <= y
    BY <1>5, <1>8, MinOfNaturals
  <2>2. d \in j..(end - 1) /\ d \in 0..end /\ d \in Nat
    BY <1>5
  <2>3. Ending(b, d)
    <3>1. ~JSON!Printable(jsonStream[b + d + 1])
      <4>1. b + (d + 1) = b + d + 1
        BY <2>2
      <4> QED BY <1>4, <2>2, <4>1
    <3>2. ASSUME NEW k \in 1..d PROVE JSON!Printable(jsonStream[b + k])
      <4>1. CASE k <= j
        BY <1>6, <2>2, <4>1
      <4>2. CASE k > j
        <5>1. PICK i \in j..(end - 1) : i + 1 = k /\ ~(d <= i)
          <6>1. k - 1 \in j..(end - 1) /\ (k - 1) + 1 = k /\ ~(d <= k - 1)
            BY <2>2, <4>2
          <6> QED BY <6>1
        <5> QED BY <1>4, <2>1, <5>1
      <4> QED BY <2>2, <4>1, <4>2
    <3>3. b + d < JSONLength
      BY <1>0, <2>2
    <3> QED BY <3>1, <3>2, <3>3 DEF Ending
  <2>4. out = JSON!Split(p, d)
    BY <2>1 DEF out
  <2>5. Cuts(out, b, d, end) \/ LongDocument(out, b)
    <3>1. Shown(p.mem, end, b) /\ p.end = end
      BY <1>1
    <3> QED BY <1>0, <2>2, <2>3, <2>4, <3>1, SplitIs
  <2>6. JSON!ParsePlain(p) = IF out.is = "packet" /\ out.doc = <<>> THEN JSON!Gives(out.rest, <<>>) ELSE out
    BY <1>2, <1>8
  <2>7. CASE LongDocument(out, b)
    <3>1. out.is = "overrun"
      BY <2>7 DEF LongDocument
    <3>2. JSON!ParsePlain(p) = out
      BY <2>6, <3>1
    <3> QED BY <2>7, <3>2 DEF Answers
  <2>8. CASE Cuts(out, b, d, end) /\ d >= 1
    <3>1. Len(out.doc) = d
      BY <2>8 DEF Cuts
    <3>2. out.doc # <<>>
      <4>1. Len(<<>>) = 0
        BY EmptySeq
      <4> QED BY <2>2, <2>8, <3>1, <4>1
    <3>3. JSON!ParsePlain(p) = out
      BY <2>6, <3>2
    <3>4. d \in 1..end
      BY <2>2, <2>8
    <3> QED BY <2>3, <2>8, <3>3, <3>4 DEF Answers
  <2>9. CASE Cuts(out, b, d, end) /\ d = 0
    <3>1. /\ out.is = "packet" /\ Following(out.doc, b) /\ Len(out.doc) = 0
      BY <2>9 DEF Cuts
    <3>2. PICK k \in d..end : Following(out.rest, b + k) /\ Len(out.rest) = end - k /\ Blanks(b + d, b + k)
      BY <2>9 DEF Cuts
    <3>3. k = 0
      <4> SUFFICES ASSUME k # 0 PROVE FALSE
        OBVIOUS
      <4>1. PICK h \in (b + d + 1)..(b + k) : h = b + 1
        BY <2>9
      <4> QED BY <3>2, <4>1 DEF Blanks
    <3>4. Following(out.rest, b) /\ Len(out.rest) = end
      <4>1. b + k = b /\ end - k = end
        BY <3>3
      <4> QED BY <3>2, <4>1
    <3>5. out.doc = <<>>
      <4>1. out.doc \in Seq(Nat)
        BY <3>1 DEF Following
      <4> QED BY <3>1, <4>1, EmptySeq
    <3>6. PICK r : r = JSON!ParsePlain(p)
      OBVIOUS
    <3>7. r.is = "packet" /\ r.doc = out.rest /\ r.rest = <<>>
      BY <2>6, <3>1, <3>5, <3>6 DEF JSON!Gives
    <3>8. jsonStream[b + 1] = "control"
      <4>1. ~JSON!Printable(jsonStream[b + 1])
        <5>1. b + d + 1 = b + 1 /\ ~JSON!Printable(jsonStream[b + d + 1])
          BY <2>3, <2>9 DEF Ending
        <5> QED BY <5>1
      <4> QED BY <4>1 DEF JSON!Printable
    <3>9. Cuts(r, b, end, end)
      <4>1. Following(<<>>, b + end) /\ Len(<<>>) = 0
        BY EmptySeq DEF Following
      <4>2. PICK h \in end..end : h = end /\ end - h = 0
        OBVIOUS
      <4>3. Following(r.rest, b + h) /\ Len(r.rest) = end - h
        BY <3>7, <4>1, <4>2
      <4>4. Blanks(b + end, b + h)
        BY <4>2 DEF Blanks
      <4> QED BY <3>4, <3>7, <4>3, <4>4 DEF Cuts
    <3> QED BY <3>6, <3>8, <3>9 DEF Answers
  <2> QED BY <2>2, <2>5, <2>7, <2>8, <2>9
<1> QED BY <1>7, <1>8

\* What is known with the first byte of a document that is enclosed.
LEMMA FirstKnows ==
  ASSUME JSONStream, NEW b \in Nat, b < JSONLength, NEW open, open = jsonStream[b + 1], Encloses(open),
         NEW q, q.count = 1, q.quoted \in BOOLEAN, q.quoted <=> open = "quote"
  PROVE  /\ ~Read(b, 1).escaped /\ Open(b, 1)
         /\ Knows(Begins(q), Read(b, 1), open = LeftBracket)
<1>0. JSONLength \in Nat
  BY DEF JSONStream
<1>1. PICK c : c = Read(b, 1)
  OBVIOUS
<1>2. Becomes(c, Fresh, open)
  <2>1. PICK i \in 0..(JSONLength - b - 1) : i = 0 /\ i + 1 = 1 /\ b + i + 1 = b + 1
    <3>1. 0 \in 0..(JSONLength - b - 1) /\ 0 + 1 = 1 /\ b + 0 + 1 = b + 1
      BY <1>0
    <3> QED BY <3>1
  <2>2. Read(b, i + 1) = JSON!Reader(Read(b, i), jsonStream[b + i + 1]) /\ Read(b, 0) = Fresh
    BY <2>1, ReadIs
  <2>3. c = JSON!Reader(Fresh, open)
    BY <1>1, <2>1, <2>2
  <2>4. Fresh \in Readings
    BY DEF Fresh, Readings
  <2> QED BY <2>3, <2>4, ReaderIs
<1>3. Fresh.escaped = FALSE /\ Fresh.string = FALSE /\ Fresh.depth = 0
  BY DEF Fresh
<1>4. ~c.escaped
  BY <1>2, <1>3, BytesDiffer DEF Becomes, Encloses
<1>5. Begins(q).end = -1 /\ Begins(q).quoted = q.quoted /\ Begins(q).count = 1
  BY DEF Begins
<1>6. CASE open = LeftBracket
  <2>1. c.string = FALSE /\ c.depth = 1
    BY <1>2, <1>3, <1>6, BytesDiffer DEF Becomes
  <2>2. q.quoted = FALSE
    BY <1>6, BytesDiffer
  <2>3. Knows(Begins(q), c, TRUE) /\ c # Fresh
    <3>1. c # Fresh
      BY <1>3, <2>1
    <3>2. Begins(q).count = c.depth /\ c.depth >= 1
      BY <1>5, <2>1
    <3>4. Begins(q).quoted = c.string
      BY <1>5, <2>1, <2>2, Zenon
    <3>3. Knows(Begins(q), c, TRUE)
      BY <1>5, <3>2, <3>4, Zenon DEF Knows
    <3> QED BY <3>1, <3>3
  <2>4. (open = LeftBracket) = TRUE
    BY <1>6
  <2>5. Knows(Begins(q), c, open = LeftBracket)
    BY <2>3, <2>4, Zenon
  <2>6. \A k \in 1..1 : Read(b, k) # Fresh
    BY <1>1, <2>3
  <2> QED BY <1>1, <1>4, <2>5, <2>6 DEF Open
<1>7. CASE open = "quote"
  <2>1. c.string = TRUE /\ c.depth = 0
    BY <1>2, <1>3, <1>7, BytesDiffer DEF Becomes
  <2>2. q.quoted = TRUE
    BY <1>7
  <2>3. Knows(Begins(q), c, FALSE) /\ c # Fresh
    BY <1>3, <1>5, <2>1, <2>2 DEF Knows
  <2>4. (open = LeftBracket) = FALSE
    BY <1>7, BytesDiffer
  <2>5. Knows(Begins(q), c, open = LeftBracket)
    BY <2>3, <2>4, Zenon
  <2>6. \A k \in 1..1 : Read(b, k) # Fresh
    BY <1>1, <2>3
  <2> QED BY <1>1, <1>4, <2>5, <2>6 DEF Open
<1> QED BY <1>6, <1>7 DEF Encloses

LEMMA PlainBegins ==
  ASSUME NEW p, NEW f, NEW m, NEW e, NEW s, NEW c, NEW q, Parser(p, f, m, e, s, c, q), NEW g, NEW x,
         NEW r, r = [p EXCEPT !.phase = g, !.search = x]
  PROVE  Parser(r, g, m, e, x, c, q)
BY DEF Parser

LEMMA FramedBegins ==
  ASSUME NEW p, NEW f, NEW m, NEW e, NEW s, NEW c, NEW q, Parser(p, f, m, e, s, c, q), NEW g, NEW x, NEW y, NEW z,
         NEW r, r = [p EXCEPT !.phase = g, !.search = x, !.count = y, !.quoted = z]
  PROVE  Parser(r, g, m, e, x, y, z)
BY DEF Parser

\* The buffer without the blanks before the document.
LEMMA ShiftIs ==
  ASSUME NEW b \in Nat, NEW end \in Nat, NEW m, Shown(m, end, b), Len(m) \in Nat, Len(m) >= end, NEW k \in 0..end,
         NEW f, NEW s, NEW c, NEW u, NEW p, Parser(p, f, m, end, s, c, u)
  PROVE  \E w : Parser(JSON!Shift(p, k), f, w, end - k, s, c, u) /\ Shown(w, end - k, b + k)
<1>1. p.phase = f /\ p.mem = m /\ p.end = end
  BY ParserFields, Zenon
<1>2. PICK w : w = [i \in 1..Len(m) |-> IF i <= end - k THEN m[i + k] ELSE m[i]]
  OBVIOUS
<1>3. PICK n, q : n = end - k /\ q = JSON!Shift(p, k)
  OBVIOUS
<1>4. q = [p EXCEPT !.mem = w, !.end = n]
  BY <1>1, <1>2, <1>3 DEF JSON!Shift
<1>5. Parser(q, f, w, n, s, c, u)
  BY <1>4 DEF Parser
<1>6. ASSUME NEW i \in 1..(end - k) PROVE w[i] = (b + k) + i
  <2>1. i \in 1..Len(m) /\ i + k \in 1..end /\ i <= end - k
    OBVIOUS
  <2>2. w[i] = m[i + k]
    BY <1>2, <2>1
  <2>3. m[i + k] = b + (i + k)
    BY <2>1 DEF Shown
  <2> QED BY <2>2, <2>3
<1> QED BY <1>3, <1>5, <1>6 DEF Shown

\* The answer of a parser that has only seen blanks, k of which follow byte b.
Starts(out, p, b, k, end) ==
  /\ Blanks(b, b + k)
  /\ \/ k = end /\ out.is = "more" /\ out.p = p /\ p.phase = "blank"
     \/ k < end /\ jsonStream[(b + k) + 1] # "newline" /\ Answers(out, b + k, end - k)

\* What the parser answers before a document.
LEMMA BlankIs ==
  ASSUME JSONStream, NEW b \in Nat, NEW end \in Nat, b + end <= JSONLength, NEW m, Shown(m, end, b),
         Len(m) \in Nat, Len(m) >= end, NEW s, NEW c \in Int, NEW u \in BOOLEAN, NEW p, Parser(p, "blank", m, end, s, c, u)
  PROVE  \E k \in 0..end : Starts(JSON!ParseBlank(p), p, b, k, end)
<1>0. JSONLength \in Nat
  BY DEF JSONStream
<1>1. p.mem = m /\ p.end = end /\ p.phase = "blank"
  BY ParserFields, Zenon
<1>2. PICK k \in 0..end : /\ k = JSON!SkipBlanks(m, 0, end)
                          /\ \A i \in 0..(k - 1) : JSON!At(m, i) = "newline"
                          /\ k = end \/ JSON!At(m, k) # "newline"
  <2>1. 0 \in Nat /\ 0 <= end
    OBVIOUS
  <2> QED BY <2>1, SkipIs
<1>3. ShowsBytes(m, end, b)
  BY ShownBytes
<1>4. Blanks(b, b + k)
  <2>1. ASSUME NEW h \in (b + 1)..(b + k) PROVE jsonStream[h] = "newline"
    <3>1. PICK i \in 0..(k - 1) : b + i + 1 = h
      <4>1. h - b - 1 \in 0..(k - 1) /\ b + (h - b - 1) + 1 = h
        OBVIOUS
      <4> QED BY <4>1
    <3>2. i \in 0..(end - 1)
      OBVIOUS
    <3>3. JSON!At(m, i) = jsonStream[b + i + 1]
      BY <1>3, <3>2 DEF ShowsBytes
    <3> QED BY <1>2, <3>1, <3>3
  <2> QED BY <2>1 DEF Blanks
<1>5. CASE k = end
  <2>1. JSON!ParseBlank(p) = JSON!Wants(p)
    BY <1>1, <1>2, <1>5 DEF JSON!ParseBlank
  <2>2. JSON!Wants(p).is = "more" /\ JSON!Wants(p).p = p
    BY DEF JSON!Wants
  <2> QED BY <1>1, <1>4, <1>5, <2>1, <2>2 DEF Starts
<1>6. CASE k # end
  <2>1. PICK d \in Nat, n \in Nat : d = b + k /\ n = end - k /\ n >= 1 /\ d + n <= JSONLength /\ d < JSONLength
    <3>1. b + k \in Nat /\ end - k \in Nat /\ end - k >= 1 /\ (b + k) + (end - k) <= JSONLength /\ b + k < JSONLength
      BY <1>0, <1>6
    <3> QED BY <3>1
  <2>2. PICK q, w : q = JSON!Shift(p, k) /\ Parser(q, "blank", w, n, s, c, u) /\ Shown(w, n, d)
    BY <2>1, ShiftIs
  <2>3. q.mem = w
    BY <2>2, ParserFields, Zenon
  <2>4. PICK open : open = jsonStream[d + 1] /\ open = JSON!At(q.mem, 0)
    <3>1. JSON!At(w, 0) = jsonStream[d + 1]
      BY <2>1, <2>2, FirstByte
    <3> QED BY <2>3, <3>1
  <2>5. open # "newline"
    <3>1. JSON!At(m, k) # "newline" /\ k \in 0..(end - 1)
      BY <1>2, <1>6
    <3>2. JSON!At(m, k) = jsonStream[b + k + 1]
      BY <1>3, <3>1 DEF ShowsBytes
    <3>3. b + k + 1 = d + 1
      BY <2>1
    <3> QED BY <2>4, <3>1, <3>2, <3>3
  <2>6. PICK out : out = JSON!ParseBlank(p)
    OBVIOUS
  <2>7. out = IF JSON!Opens(open)
              THEN JSON!ParseFramed([q EXCEPT !.phase = "framed", !.search = 1, !.count = 1, !.quoted = (open = "quote")])
              ELSE JSON!ParsePlain([q EXCEPT !.phase = "plain", !.search = 0])
    BY <1>1, <1>2, <1>6, <2>2, <2>4, <2>6 DEF JSON!ParseBlank
  <2>8. JSON!Opens(open) <=> Encloses(open)
    BY Zenon DEF JSON!Opens, Encloses, LeftBracket
  <2>9. Answers(out, d, n)
    <3>1. CASE Encloses(open)
      <4>1. PICK z \in BOOLEAN : z = (open = "quote")
        OBVIOUS
      <4>2. PICK r : r = [q EXCEPT !.phase = "framed", !.search = 1, !.count = 1, !.quoted = z]
        OBVIOUS
      <4>3. Parser(r, "framed", w, n, 1, 1, z)
        BY <2>2, <4>2, FramedBegins, Zenon
      <4>4. r.count = 1 /\ r.quoted = z
        BY <4>3, ParserFields, Zenon
      <4>5. out = JSON!ParseFramed(r)
        BY <2>7, <2>8, <3>1, <4>1, <4>2, Zenon
      <4>6. ~Read(d, 1).escaped /\ Open(d, 1) /\ Knows(Begins(r), Read(d, 1), open = LeftBracket)
        <5>1. r.quoted \in BOOLEAN /\ (r.quoted <=> open = "quote")
          BY <4>1, <4>4, Zenon
        <5> QED BY <2>1, <2>4, <3>1, <4>4, <5>1, FirstKnows
      <4>7. Knows(Begins(r), Read(d, 1), jsonStream[d + 1] = LeftBracket) /\ Encloses(jsonStream[d + 1])
        BY <2>4, <3>1, <4>6, Zenon
      <4>8. PICK j \in Nat : j = 1 /\ j >= 1 /\ j <= n
        BY <2>1
      <4>9. Parser(r, "framed", w, n, j, j, z) /\ j \in Int
        BY <4>3, <4>8
      <4>10. ~Read(d, j).escaped /\ Open(d, j) /\ Knows(Begins(r), Read(d, j), jsonStream[d + 1] = LeftBracket)
        BY <4>6, <4>7, <4>8, Zenon
      <4>11. Answers(JSON!ParseFramed(r), d, n)
        BY <2>1, <2>2, <4>7, <4>8, <4>9, <4>10, FramedIs
      <4> QED BY <4>5, <4>11
    <3>2. CASE ~Encloses(open)
      <4>1. PICK r : r = [q EXCEPT !.phase = "plain", !.search = 0]
        OBVIOUS
      <4>2. Parser(r, "plain", w, n, 0, c, u)
        BY <2>2, <4>1, PlainBegins, Zenon
      <4>3. out = JSON!ParsePlain(r)
        BY <2>7, <2>8, <3>2, <4>1
      <4>4. PICK j \in Nat : j = 0 /\ j <= n
        OBVIOUS
      <4>5. Open(d, j)
        <5>1. \A k1 \in 1..j : FALSE
          BY <4>4
        <5> QED BY <5>1 DEF Open
      <4>6. Parser(r, "plain", w, n, j, c, u)
        BY <4>2, <4>4
      <4>7. ~Encloses(jsonStream[d + 1]) /\ jsonStream[d + 1] # "newline"
        BY <2>4, <2>5, <3>2
      <4>8. Answers(JSON!ParsePlain(r), d, n)
        BY <2>1, <2>2, <4>4, <4>5, <4>6, <4>7, PlainIs
      <4> QED BY <4>3, <4>8
    <3> QED BY <3>1, <3>2
  <2>10. k < end /\ jsonStream[(b + k) + 1] # "newline" /\ Answers(out, b + k, end - k)
    BY <1>6, <2>1, <2>4, <2>5, <2>9
  <2> QED BY <1>4, <2>6, <2>10 DEF Starts
<1> QED BY <1>5, <1>6

\* What the loop over the tokens begins with.
Tokens == [hidden |-> FALSE, quoted |-> quoted, count |-> count, end |-> -1]

\* The parser waits for the bytes that follow the first start ones after byte b.
Prepared(b) ==
  /\ phase \in {"none", "blank", "plain", "framed"} /\ start \in Nat /\ count \in Int /\ quoted \in BOOLEAN
  /\ phase \in {"none", "blank"} => start = 0
  /\ phase \in {"plain", "framed"} =>
       start >= 1 /\ jsonStream[b + 1] # "newline" /\ Shown(memory, start, b) /\ Open(b, start)
  /\ phase = "plain" => ~Encloses(jsonStream[b + 1])
  /\ phase = "framed" => Encloses(jsonStream[b + 1]) /\ Knows(Tokens, Read(b, start), jsonStream[b + 1] = LeftBracket)


\* The buffer with the bytes that are added.
LEMMA FilledIs ==
  ASSUME jsonMode \in {"chunks", "buffered"}, NEW b \in Nat, start \in Nat, phase = "none" => start = 0,
         Shown(memory, start, b), NEW data, Following(data, b + start), jsonMode = "buffered" => start + Len(data) <= JSONLimit
  PROVE  /\ Shown(JSON!Filled(data), start + Len(data), b)
         /\ Len(JSON!Filled(data)) \in Nat /\ Len(JSON!Filled(data)) >= start + Len(data)
<1>1. PICK n \in Nat, h \in Nat : n = start /\ h = Len(data)
  BY LenProperties DEF Following
<1>2. \A i \in 1..h : data[i] = b + n + i
  BY <1>1 DEF Following
<1>3. PICK m : m = JSON!Filled(data)
  OBVIOUS
<1>4. CASE jsonMode = "chunks"
  <2>1. m = JSON!Slice(memory, 0, n) \o data
    BY <1>1, <1>3, <1>4 DEF JSON!Filled
  <2>2. PICK s : s = JSON!Slice(memory, 0, n)
    OBVIOUS
  <2>3. Following(s, b) /\ Len(s) = n
    <3>1. n \in Nat /\ 0 <= n /\ n <= n /\ n - 0 = n /\ b + 0 = b
      OBVIOUS
    <3>2. Shown(memory, n, b)
      BY <1>1
    <3>3. Following(s, b + 0)
      BY <2>2, <3>1, <3>2, SliceIs
    <3>4. Len(s) = n - 0
      BY <2>2, <3>1, <3>2, SliceIs
    <3> QED BY <3>1, <3>3, <3>4
  <2>4. Following(s \o data, b) /\ Len(s \o data) = Len(s) + Len(data)
    <3>1. \A x, y : Following(x, b) /\ Following(y, b + Len(x)) =>
                      Following(x \o y, b) /\ Len(x \o y) = Len(x) + Len(y)
      BY FollowingProperties
    <3>2. Following(data, b + Len(s))
      BY <1>1, <2>3
    <3> QED BY <2>3, <3>1, <3>2, Zenon
  <2>5. Following(m, b) /\ Len(m) = n + h
    BY <1>1, <2>1, <2>2, <2>3, <2>4
  <2>6. Shown(m, n + h, b)
    BY <2>5 DEF Following, Shown
  <2> QED BY <1>1, <1>3, <2>5, <2>6
<1>5. CASE jsonMode = "buffered"
  <2>0. JSONLimit \in Nat /\ n + h <= JSONLimit
    BY <1>1, <1>5, JSONAssumption DEF JSON!JSONParameters
  <2>1. PICK old : old = IF phase = "none" THEN JSON!Blank ELSE memory
    OBVIOUS
  <2>2. m = [i \in 1..JSONLimit |-> IF i - n \in 1..h THEN data[i - n] ELSE old[i]]
    BY <1>1, <1>3, <1>5, <2>1 DEF JSON!Filled, JSON!Write
  <2>3. \A i \in 1..n : old[i] = b + i
    <3>1. CASE phase = "none"
      BY <1>1, <3>1
    <3>2. CASE phase # "none"
      BY <1>1, <2>1, <3>2 DEF Shown
    <3> QED BY <3>1, <3>2
  <2>4. ASSUME NEW i \in 1..(n + h) PROVE m[i] = b + i
    <3>1. i \in 1..JSONLimit
      BY <2>0
    <3>2. CASE i <= n
      <4>1. i - n \notin 1..h /\ i \in 1..n
        BY <3>2
      <4> QED BY <2>2, <2>3, <3>1, <4>1
    <3>3. CASE ~(i <= n)
      <4>1. i - n \in 1..h /\ b + n + (i - n) = b + i
        BY <3>3
      <4> QED BY <1>2, <2>2, <3>1, <4>1
    <3> QED BY <3>2, <3>3
  <2>5. Len(m) = JSONLimit
    <3>1. DOMAIN m = 1..JSONLimit /\ m = [i \in DOMAIN m |-> m[i]]
      BY <2>2
    <3> QED BY <2>0, <3>1, LengthIs
  <2> QED BY <1>1, <1>3, <2>0, <2>4, <2>5 DEF Shown
<1> QED BY <1>4, <1>5

\* What the parser answers, whatever it was waiting for.
LEMMA ParseIs ==
  ASSUME JSONStream, NEW b \in Nat, Prepared(b), NEW end \in Nat, end >= 1, start <= end, b + end <= JSONLength,
         NEW m, Shown(m, end, b), Len(m) \in Nat, Len(m) >= end,
         NEW p, Parser(p, IF phase = "none" THEN "blank" ELSE phase, m, end, start, count, quoted)
  PROVE  \E k \in 0..end : Starts(JSON!Parse(p), p, b, k, end)
<1>0. JSONLength \in Nat /\ start \in Nat /\ count \in Int /\ quoted \in BOOLEAN
  BY DEF JSONStream, Prepared
<1>1. /\ p.phase = IF phase = "none" THEN "blank" ELSE phase
      /\ p.mem = m /\ p.end = end /\ p.search = start /\ p.count = count /\ p.quoted = quoted
  BY ParserFields, Zenon
<1>2. CASE phase \in {"none", "blank"}
  <2>1. p.phase = "blank"
    BY <1>1, <1>2
  <2>2. JSON!Parse(p) = JSON!ParseBlank(p)
    BY <2>1 DEF JSON!Parse
  <2>3. Parser(p, "blank", m, end, start, count, quoted)
    BY <1>1, <2>1, Zenon
  <2>4. \E k \in 0..end : Starts(JSON!ParseBlank(p), p, b, k, end)
    BY <1>0, <2>3, BlankIs
  <2> QED BY <2>2, <2>4
<1>3. ASSUME phase \in {"plain", "framed"}, Answers(JSON!Parse(p), b, end)
      PROVE  Starts(JSON!Parse(p), p, b, 0, end)
  <2>1. jsonStream[b + 1] # "newline"
    BY <1>3 DEF Prepared
  <2>2. (b + 0) + 1 = b + 1 /\ b + 0 = b /\ end - 0 = end /\ 0 < end
    OBVIOUS
  <2>3. Blanks(b, b + 0)
    <3>1. \A h \in (b + 1)..b : FALSE
      OBVIOUS
    <3> QED BY <2>2, <3>1 DEF Blanks
  <2> QED BY <1>3, <2>1, <2>2, <2>3 DEF Starts
<1>4. CASE phase = "plain"
  <2>1. p.phase = "plain" /\ Parser(p, "plain", m, end, start, count, quoted)
    BY <1>1, <1>4, Zenon
  <2>2. JSON!Parse(p) = JSON!ParsePlain(p)
    BY <2>1 DEF JSON!Parse
  <2>3. ~Encloses(jsonStream[b + 1]) /\ jsonStream[b + 1] # "newline" /\ Open(b, start)
    BY <1>4 DEF Prepared
  <2>4. Answers(JSON!ParsePlain(p), b, end)
    BY <1>0, <2>1, <2>3, PlainIs
  <2>5. Starts(JSON!Parse(p), p, b, 0, end)
    BY <1>3, <1>4, <2>2, <2>4
  <2> QED BY <2>5
<1>5. CASE phase = "framed"
  <2>1. p.phase = "framed" /\ Parser(p, "framed", m, end, start, count, quoted)
    BY <1>1, <1>5, Zenon
  <2>2. /\ Encloses(jsonStream[b + 1]) /\ Open(b, start) /\ start >= 1
        /\ Knows(Tokens, Read(b, start), jsonStream[b + 1] = LeftBracket)
    BY <1>5 DEF Prepared
  <2>3. PICK brackets \in BOOLEAN : brackets = (jsonStream[b + 1] = LeftBracket)
    OBVIOUS
  <2>4. Begins(p) = Tokens
    BY <1>1 DEF Begins, Tokens
  <2>5. Knows(Begins(p), Read(b, start), brackets)
    BY <2>2, <2>3, <2>4, Zenon
  <2>6. jsonStream[b + 1] # "escape"
    BY <2>2, BytesDiffer DEF Encloses
  <2>7. ShowsBytes(m, start, b)
    <3>1. Shown(m, start, b)
      BY <1>0 DEF Shown
    <3> QED BY <1>0, <3>1, ShownBytes
  <2>8. PICK j \in 1..start : j = JSON!Resume(m, start) /\ ~Read(b, j).escaped /\ Knows(Begins(p), Read(b, j), brackets)
    <3>1. PICK i \in Nat : i = start /\ i >= 1 /\ b + i <= JSONLength /\ ShowsBytes(m, i, b)
      BY <1>0, <2>2, <2>7
    <3> QED BY <2>5, <2>6, <3>1, ResumeKnows
  <2>9. PICK q : q = [p EXCEPT !.search = j]
    OBVIOUS
  <2>10. JSON!Parse(p) = JSON!ParseFramed(q)
    BY <1>1, <2>1, <2>8, <2>9 DEF JSON!Parse
  <2>11. Parser(q, "framed", m, end, j, count, quoted)
    BY <2>1, <2>9, SearchMoves, Zenon
  <2>12. Knows(Begins(q), Read(b, j), jsonStream[b + 1] = LeftBracket)
    <3>1. q.count = count /\ q.quoted = quoted
      BY <2>11, ParserFields, Zenon
    <3>2. Begins(q) = Begins(p)
      BY <1>1, <3>1 DEF Begins
    <3> QED BY <2>3, <2>8, <3>2, Zenon
  <2>13. Open(b, j)
    <3>1. \A h \in 1..j : h \in 1..start
      BY <1>0
    <3> QED BY <2>2, <3>1 DEF Open
  <2>14. Answers(JSON!ParseFramed(q), b, end)
    <3>1. j \in Nat /\ j >= 1 /\ j <= end
      BY <1>0
    <3> QED BY <1>0, <2>2, <2>8, <2>11, <2>12, <2>13, <3>1, FramedIs
  <2>15. Starts(JSON!Parse(p), p, b, 0, end)
    BY <1>3, <1>5, <2>10, <2>14
  <2> QED BY <2>15
<1> QED BY <1>2, <1>4, <1>5 DEF Prepared

-----------------------------------------------------------------------------
(* The consumer: the documents it gives, and what it keeps                 *)

\* The parser waits for the bytes that follow the first n ones after byte b, with mem in its buffer.
PreparedAs(f, n, c, u, mem, b) ==
  /\ f \in {"none", "blank", "plain", "framed"} /\ n \in Nat /\ c \in Int /\ u \in BOOLEAN
  /\ f \in {"none", "blank"} => n = 0
  /\ f \in {"plain", "framed"} => n >= 1 /\ jsonStream[b + 1] # "newline" /\ Shown(mem, n, b) /\ Open(b, n)
  /\ f = "plain" => ~Encloses(jsonStream[b + 1])
  /\ f = "framed" =>
       /\ Encloses(jsonStream[b + 1])
       /\ Knows([hidden |-> FALSE, quoted |-> u, count |-> c, end |-> -1], Read(b, n), jsonStream[b + 1] = LeftBracket)

Ready(b) ==
  \E f, n, c, u, mem :
    phase = f /\ start = n /\ count = c /\ quoted = u /\ memory = mem /\ PreparedAs(f, n, c, u, mem, b)

LEMMA ReadyIs == ASSUME NEW b, Ready(b) PROVE Prepared(b)
<1>1. PICK f, n, c, u, mem : /\ phase = f /\ start = n /\ count = c /\ quoted = u /\ memory = mem
                             /\ PreparedAs(f, n, c, u, mem, b)
  BY DEF Ready
<1>2. PreparedAs(phase, start, count, quoted, memory, b)
  BY <1>1
<1> QED BY <1>2, Zenon DEF Prepared, PreparedAs, Tokens

\* The documents end with byte e, and each is the one of the stream.
Whole(doc, p) == doc = [i \in 1..Len(doc) |-> p + i - 1] /\ (jsonStream[p] = "control" \/ Last(doc) = JSON!EndOf(p))
DocumentsUpto(docs, e) ==
  /\ docs \in Seq(Seq(Nat)) /\ e = IF docs = <<>> THEN 0 ELSE Last(Last(docs))
  /\ \A n \in 1..Len(docs) : docs[n] # <<>> /\ Whole(docs[n], JSON!StartAfter(SubSeq(docs, 1, n - 1)))
Behind(docs, e, b) == e \in Nat /\ e <= b /\ Blanks(e, b) /\ DocumentsUpto(docs, e)

\* The stream does not change.
LEMMA BytesStay ==
  ASSUME jsonStream' = jsonStream
  PROVE  /\ \A p, e : JSON!After(p, e)' = JSON!After(p, e)
         /\ \A b, i : Read(b, i)' = Read(b, i)
         /\ \A b, i : Open(b, i)' <=> Open(b, i)
         /\ \A e, b : Blanks(e, b)' <=> Blanks(e, b)
<1>1. ASSUME NEW p, NEW e PROVE JSON!After(p, e)' = JSON!After(p, e)
  <2>1. JSON!After(p, e) = ReadAll(SubSeq(jsonStream, p, e))
    BY DEF JSON!After, ReadAll, Fresh
  <2>2. JSON!After(p, e)' = ReadAll(SubSeq(jsonStream', p, e))
    BY DEF JSON!After, ReadAll, Fresh
  <2> QED BY <2>1, <2>2
<1>2. ASSUME NEW b, NEW i PROVE Read(b, i)' = Read(b, i)
  BY <1>1 DEF Read
<1>3. ASSUME NEW b, NEW i PROVE Open(b, i)' <=> Open(b, i)
  BY <1>2 DEF Open
<1>4. ASSUME NEW e, NEW b PROVE Blanks(e, b)' <=> Blanks(e, b)
  BY DEF Blanks
<1> QED BY <1>1, <1>2, <1>3, <1>4

LEMMA PlacesStay ==
  ASSUME jsonStream' = jsonStream
  PROVE  /\ \A p : JSON!EndOf(p)' = JSON!EndOf(p)
         /\ \A docs : JSON!StartAfter(docs)' = JSON!StartAfter(docs)
<1>1. ASSUME NEW p PROVE JSON!EndOf(p)' = JSON!EndOf(p)
  BY BytesStay DEF JSON!EndOf, JSON!FirstOf
<1>2. ASSUME NEW e PROVE JSON!NextStart(e)' = JSON!NextStart(e)
  BY DEF JSON!NextStart, JSON!FirstOf
<1>3. ASSUME NEW docs PROVE JSON!StartAfter(docs)' = JSON!StartAfter(docs)
  BY <1>2 DEF JSON!StartAfter
<1> QED BY <1>1, <1>3

\* What is known of the documents depends on the stream only.
LEMMA BehindStays ==
  ASSUME jsonStream' = jsonStream, NEW docs, NEW e, NEW b
  PROVE  Behind(docs, e, b)' <=> Behind(docs, e, b)
<1>1. \A doc, p : Whole(doc, p)' <=> Whole(doc, p)
  BY PlacesStay DEF Whole
<1>2. DocumentsUpto(docs, e)' <=> DocumentsUpto(docs, e)
  BY <1>1, PlacesStay DEF DocumentsUpto
<1> QED BY <1>2, BytesStay DEF Behind

\* What is known of the parser depends on its state and the stream only.
LEMMA PreparedStays ==
  ASSUME jsonStream' = jsonStream, NEW f, NEW n, NEW c, NEW u, NEW mem, NEW b
  PROVE  PreparedAs(f, n, c, u, mem, b)' <=> PreparedAs(f, n, c, u, mem, b)
<1>1. Read(b, n)' = Read(b, n) /\ (Open(b, n)' <=> Open(b, n))
  BY BytesStay
<1> QED BY <1>1 DEF PreparedAs

\* Blanks after the documents.
LEMMA BlanksFollow ==
  ASSUME NEW docs, NEW e, NEW b \in Nat, Behind(docs, e, b), NEW k \in Nat, Blanks(b, b + k)
  PROVE  Behind(docs, e, b + k)
<1>1. e \in Nat /\ e <= b /\ Blanks(e, b) /\ DocumentsUpto(docs, e)
  BY DEF Behind
<1>2. ASSUME NEW h \in (e + 1)..(b + k) PROVE jsonStream[h] = "newline"
  <2>1. h \in (e + 1)..b \/ h \in (b + 1)..(b + k)
    BY <1>1
  <2> QED BY <1>1, <2>1 DEF Blanks
<1>3. e <= b + k
  BY <1>1
<1> QED BY <1>1, <1>2, <1>3 DEF Behind, Blanks

\* Where the next document begins.
LEMMA NextDocument ==
  ASSUME JSONStream, NEW docs, NEW e, NEW b \in Nat, b <= JSONLength, Behind(docs, e, b)
  PROVE  /\ JSON!StartAfter(docs) \in Nat /\ JSON!StartAfter(docs) > b
         /\ b < JSONLength /\ jsonStream[b + 1] # "newline" => JSON!StartAfter(docs) = b + 1
<1>1. e \in Nat /\ e <= b /\ Blanks(e, b) /\ e = IF docs = <<>> THEN 0 ELSE Last(Last(docs))
  BY DEF Behind, DocumentsUpto
<1>2. JSON!StartAfter(docs) = JSON!NextStart(e)
  BY <1>1, JSONOperators DEF JSON!StartAfter
<1> QED BY <1>1, <1>2, NextStartIs


\* A document more.
LEMMA DocumentComes ==
  ASSUME JSONStream, NEW docs, NEW e, NEW b \in Nat, b < JSONLength, jsonStream[b + 1] # "newline", Behind(docs, e, b),
         NEW d \in Nat, d >= 1, NEW doc, Following(doc, b), Len(doc) = d,
         jsonStream[b + 1] = "control" \/ JSON!EndOf(b + 1) = b + d,
         NEW k \in Nat, d <= k, Blanks(b + d, b + k)
  PROVE  Behind(Append(docs, doc), b + d, b + k)
<1>1. /\ docs \in Seq(Seq(Nat))
      /\ \A n \in 1..Len(docs) : docs[n] # <<>> /\ Whole(docs[n], JSON!StartAfter(SubSeq(docs, 1, n - 1)))
  BY DEF Behind, DocumentsUpto
<1>2. doc \in Seq(Nat) /\ (\A i \in 1..d : doc[i] = b + i) /\ DOMAIN doc = 1..d
  BY LenProperties DEF Following
<1>3. Last(doc) = b + d
  <2>1. d \in 1..d
    OBVIOUS
  <2> QED BY <1>2, <2>1 DEF Last
<1>4. PICK more : more = Append(docs, doc)
  OBVIOUS
<1>5. PICK n \in Nat : n = Len(docs)
  BY <1>1, LenProperties
<1>6. /\ more \in Seq(Seq(Nat)) /\ more # <<>> /\ Len(more) = n + 1 /\ more[n + 1] = doc
      /\ \A i \in 1..n : more[i] = docs[i]
  <2>1. PICK T : T = Seq(Nat)
    OBVIOUS
  <2>2. docs \in Seq(T) /\ doc \in T
    BY <1>1, <1>2, <2>1
  <2>3. /\ more \in Seq(T) /\ more # <<>> /\ Len(more) = Len(docs) + 1 /\ more[Len(docs) + 1] = doc
        /\ \A i \in 1..Len(docs) : more[i] = docs[i]
    BY <1>4, <2>2, AppendProperties
  <2> QED BY <1>5, <2>1, <2>3
<1>7. Last(more) = doc
  BY <1>6 DEF Last
<1>8. b + 1 = JSON!StartAfter(docs)
  <2>1. JSONLength \in Nat /\ b <= JSONLength
    BY DEF JSONStream
  <2> QED BY <2>1, NextDocument
<1>9. doc # <<>>
  <2>1. Len(<<>>) = 0
    BY EmptySeq
  <2> QED BY <2>1
<1>10. Whole(doc, b + 1)
  <2>1. doc = [i \in 1..Len(doc) |-> doc[i]]
    BY <1>2, LenProperties
  <2>2. \A i \in 1..Len(doc) : doc[i] = (b + 1) + i - 1
    BY <1>2
  <2>3. doc = [i \in 1..Len(doc) |-> (b + 1) + i - 1]
    BY <2>1, <2>2
  <2> QED BY <1>3, <2>3 DEF Whole
<1>11. ASSUME NEW i \in 1..Len(more)
       PROVE  more[i] # <<>> /\ Whole(more[i], JSON!StartAfter(SubSeq(more, 1, i - 1)))
  <2>1. i \in 1..(n + 1) /\ i - 1 \in 0..Len(docs)
    BY <1>5, <1>6
  <2>2. PICK m \in 0..Len(docs) : m = i - 1
    BY <2>1
  <2>3. SubSeq(more, 1, m) = SubSeq(docs, 1, m)
    BY <1>1, <1>2, <1>4, PrefixOfAppend
  <2>4. CASE i <= n
    <3>1. i \in 1..Len(docs) /\ more[i] = docs[i]
      BY <1>5, <1>6, <2>1, <2>4
    <3> QED BY <1>1, <2>2, <2>3, <3>1
  <2>5. CASE i = n + 1
    <3>1. m = Len(docs)
      BY <1>5, <2>2, <2>5
    <3>2. SubSeq(docs, 1, m) = docs
      BY <1>1, <3>1, SubSeqFull
    <3>3. JSON!StartAfter(SubSeq(more, 1, i - 1)) = b + 1
      BY <1>8, <2>2, <2>3, <3>2
    <3> QED BY <1>6, <1>9, <1>10, <2>5, <3>3
  <2> QED BY <2>1, <2>4, <2>5
<1>12. b + d = IF more = <<>> THEN 0 ELSE Last(Last(more))
  BY <1>3, <1>6, <1>7
<1>13. DocumentsUpto(more, b + d)
  BY <1>6, <1>11, <1>12 DEF DocumentsUpto
<1>14. b + d \in Nat /\ b + d <= b + k
  OBVIOUS
<1> QED BY <1>4, <1>13, <1>14 DEF Behind

\* What the consumer keeps for the next parser follows byte b.
RestIs(b) ==
  /\ phase = "none" =>
       /\ Following(jsonRest, b) /\ b + Len(jsonRest) = jsonReceived
       /\ jsonMode = "buffered" => Len(jsonRest) <= JSONLimit
  /\ phase # "none" => jsonRest = <<>> /\ b + start = jsonReceived
  /\ jsonAt = "receiving" => jsonRest = <<>>

JSONKept ==
  \E b, docs, e :
    /\ b \in Nat /\ b <= jsonReceived /\ documents = docs
    /\ Behind(docs, e, b) /\ Ready(b) /\ RestIs(b)

\* The parser that is given more bytes.
Fed(data) ==
  [phase |-> IF phase = "none" THEN "blank" ELSE phase, mem |-> JSON!Filled(data), end |-> start + Len(data),
   search |-> start, count |-> count, quoted |-> quoted]

\* What the consumer does with the answer of the parser.
LEMMA FeedIs ==
  ASSUME NEW data, JSON!Feed(data), NEW out, out = JSON!Parse(Fed(data))
  PROVE  /\ out.is = "more" =>
              /\ memory' = out.p.mem /\ phase' = out.p.phase /\ count' = out.p.count /\ quoted' = out.p.quoted
              /\ start' = (IF out.p.phase = "blank" THEN 0 ELSE out.p.end) /\ jsonRest' = <<>>
         /\ out.is # "more" =>
              phase' = "none" /\ count' = 0 /\ quoted' = FALSE /\ start' = 0 /\ jsonRest' = out.rest /\ jsonAt' = "idle"
         /\ documents' = IF out.is = "packet" THEN Append(documents, out.doc) ELSE documents
         /\ jsonRefused' = IF out.is = "overrun" THEN jsonRefused \cup out.consumed ELSE jsonRefused
BY DEF JSON!Feed, Fed

\* The parser that is given the bytes that follow.
LEMMA FedStarts ==
  ASSUME JSONStream, jsonMode \in {"chunks", "buffered"}, NEW b \in Nat, Prepared(b),
         NEW data, Following(data, b + start), NEW end \in Nat, end = start + Len(data), end >= 1, b + end <= JSONLength,
         jsonMode = "buffered" => end <= JSONLimit, NEW p, p = Fed(data), NEW out, out = JSON!Parse(p)
  PROVE  \E k \in 0..end : Starts(out, p, b, k, end)
<1>1. PICK m : m = JSON!Filled(data)
  OBVIOUS
<1>2. start \in Nat /\ Len(data) \in Nat /\ start <= end
  <2>1. start \in Nat /\ Len(data) \in Nat
    BY LenProperties DEF Following, Prepared
  <2> QED BY <2>1
<1>3. Parser(p, IF phase = "none" THEN "blank" ELSE phase, m, end, start, count, quoted)
  BY <1>1 DEF Parser, Fed
<1>4. Shown(memory, start, b)
  <2>1. CASE phase \in {"none", "blank"}
    <3>1. start = 0
      BY <2>1 DEF Prepared
    <3> QED BY <3>1 DEF Shown
  <2>2. CASE phase \in {"plain", "framed"}
    BY <2>2 DEF Prepared
  <2> QED BY <2>1, <2>2 DEF Prepared
<1>5. Shown(m, end, b) /\ Len(m) \in Nat /\ Len(m) >= end
  <2>1. phase = "none" => start = 0
    BY DEF Prepared
  <2> QED BY <1>1, <1>2, <1>4, <2>1, FilledIs
<1>6. \E k \in 0..end : Starts(JSON!Parse(p), p, b, k, end)
  BY <1>2, <1>3, <1>5, ParseIs
<1> QED BY <1>6

\* A document is refused only when it is too long.
RefusedForItsLength ==
  jsonRefused' # {} => LET p == JSON!StartAfter(documents) IN JSON!CompleteAt(p) - p + 1 > JSONLimit

\* The consumer that gives the bytes that follow to the parser keeps what is known, or refuses
\* a document that is too long.
LEMMA FeedKeeps ==
  ASSUME JSONStream, jsonMode \in {"chunks", "buffered"}, jsonStream' = jsonStream, jsonMode' = jsonMode, jsonRefused = {},
         NEW b \in Nat, NEW docs, NEW e, documents = docs, Behind(docs, e, b), Ready(b),
         NEW data, Following(data, b + start), Len(data) >= 1, jsonReceived' = b + start + Len(data),
         jsonReceived' <= JSONLength, jsonMode = "buffered" => start + Len(data) <= JSONLimit, JSON!Feed(data)
  PROVE  (jsonRefused' = {} => JSONKept') /\ RefusedForItsLength
<1>0. JSONLength \in Nat /\ JSONLimit \in Nat
  BY JSONAssumption DEF JSONStream, JSON!JSONParameters
<1>1. Prepared(b)
  BY ReadyIs
<1>2. PICK p, out : p = Fed(data) /\ out = JSON!Parse(Fed(data)) /\ out = JSON!Parse(p)
  OBVIOUS
<1>3. PICK end \in Nat :
      /\ end = start + Len(data) /\ end >= 1 /\ b + end = jsonReceived' /\ b + end <= JSONLength
      /\ jsonMode = "buffered" => end <= JSONLimit
  <2>1. start \in Nat /\ Len(data) \in Nat
    BY <1>1, LenProperties DEF Following, Prepared
  <2>2. start + Len(data) \in Nat
    BY <2>1
  <2> QED BY <2>1, <2>2
<1>4. PICK k \in 0..end : Starts(out, p, b, k, end)
  BY <1>1, <1>2, <1>3, FedStarts
<1>5. p.count = count /\ p.quoted = quoted /\ count \in Int /\ quoted \in BOOLEAN
  BY <1>1, <1>2 DEF Fed, Prepared
<1>6. /\ out.is = "more" =>
           /\ memory' = out.p.mem /\ phase' = out.p.phase /\ count' = out.p.count /\ quoted' = out.p.quoted
           /\ start' = (IF out.p.phase = "blank" THEN 0 ELSE out.p.end) /\ jsonRest' = <<>>
      /\ out.is # "more" =>
           phase' = "none" /\ count' = 0 /\ quoted' = FALSE /\ start' = 0 /\ jsonRest' = out.rest /\ jsonAt' = "idle"
      /\ documents' = IF out.is = "packet" THEN Append(documents, out.doc) ELSE documents
      /\ jsonRefused' = IF out.is = "overrun" THEN jsonRefused \cup out.consumed ELSE jsonRefused
  BY <1>2, FeedIs
<1>7. PICK d \in Nat, n \in Nat : d = b + k /\ n = end - k /\ d + n = jsonReceived' /\ n <= end
  <2>1. b + k \in Nat /\ end - k \in Nat /\ (b + k) + (end - k) = jsonReceived' /\ end - k <= end
    BY <1>3
  <2> QED BY <2>1
<1>8. Behind(docs, e, d)
  <2>1. Blanks(b, b + k)
    BY <1>4 DEF Starts
  <2>2. PICK h \in Nat : h = k /\ d = b + h
    BY <1>7
  <2>3. Behind(docs, e, b + h)
    BY <2>1, <2>2, BlanksFollow
  <2> QED BY <2>2, <2>3
<1>9. CASE k = end /\ out.is = "more" /\ out.p = p /\ p.phase = "blank"
  <2>1. /\ phase' = "blank" /\ start' = 0 /\ count' = count /\ quoted' = quoted /\ jsonRest' = <<>>
        /\ documents' = docs /\ jsonRefused' = {}
    BY <1>5, <1>6, <1>9
  <2>2. PICK mem : mem = memory'
    OBVIOUS
  <2>3. PreparedAs("blank", 0, count, quoted, mem, d)
    BY <1>5 DEF PreparedAs
  <2>4. PICK c, u : c = count /\ u = quoted
    OBVIOUS
  <2>5. PreparedAs("blank", 0, c, u, mem, d)'
    BY <2>3, <2>4, PreparedStays
  <2>6. Ready(d)'
    BY <2>1, <2>2, <2>4, <2>5 DEF Ready
  <2>7. RestIs(d)'
    BY <1>7, <1>9, <2>1 DEF RestIs
  <2>8. Behind(docs, e, d)' /\ d <= jsonReceived'
    BY <1>7, <1>8, BehindStays
  <2> QED BY <2>1, <2>6, <2>7, <2>8 DEF JSONKept, RefusedForItsLength
<1>10. ASSUME k < end, jsonStream[d + 1] # "newline", Answers(out, d, n)
       PROVE  (jsonRefused' = {} => JSONKept') /\ RefusedForItsLength
  <2>0. n >= 1 /\ d < JSONLength /\ d + n <= JSONLength
    BY <1>0, <1>3, <1>7, <1>10
  <2>1. CASE out.is = "more" /\ Waits(out.p, d, n)
    <3>1. PICK q, f, c, u, mem : q = out.p /\ f = q.phase /\ c = q.count /\ u = q.quoted /\ mem = q.mem
      OBVIOUS
    <3>2. /\ q.end = n /\ Shown(mem, n, d) /\ Open(d, n) /\ c \in Int /\ u \in BOOLEAN
          /\ Encloses(jsonStream[d + 1]) => f = "framed" /\ Knows(Begins(q), Read(d, n), jsonStream[d + 1] = LeftBracket)
          /\ ~Encloses(jsonStream[d + 1]) => f = "plain"
      BY <2>1, <3>1 DEF Waits
    <3>3. Begins(q) = [hidden |-> FALSE, quoted |-> u, count |-> c, end |-> -1]
      BY <3>1 DEF Begins
    <3>4. PreparedAs(f, n, c, u, mem, d)
      <4>1. f \in {"plain", "framed"}
        BY <3>2
      <4>2. f = "framed" => /\ Encloses(jsonStream[d + 1])
                            /\ Knows([hidden |-> FALSE, quoted |-> u, count |-> c, end |-> -1], Read(d, n), jsonStream[d + 1] = LeftBracket)
        <5>1. f = "framed" => Encloses(jsonStream[d + 1])
          BY <3>2
        <5>2. Encloses(jsonStream[d + 1]) => Knows(Begins(q), Read(d, n), jsonStream[d + 1] = LeftBracket)
          BY <3>2, Zenon
        <5> QED BY <3>3, <5>1, <5>2, Zenon
      <4>3. f = "plain" => ~Encloses(jsonStream[d + 1])
        BY <3>2
      <4>4. f \notin {"none", "blank"} /\ f \in {"none", "blank", "plain", "framed"}
        BY <4>1
      <4> QED BY <1>10, <2>0, <3>2, <4>1, <4>2, <4>3, <4>4, Zenon DEF PreparedAs
    <3>5. /\ phase' = f /\ start' = n /\ count' = c /\ quoted' = u /\ memory' = mem /\ jsonRest' = <<>>
          /\ documents' = docs /\ jsonRefused' = {}
      <4>1. f # "blank"
        BY <3>2
      <4> QED BY <1>6, <2>1, <3>1, <3>2, <4>1
    <3>6. Ready(d)'
      BY <3>4, <3>5, PreparedStays DEF Ready
    <3>7. RestIs(d)'
      <4>1. f # "none"
        BY <3>2
      <4> QED BY <1>7, <3>5, <4>1 DEF RestIs
    <3>8. Behind(docs, e, d)' /\ d <= jsonReceived'
      BY <1>7, <1>8, BehindStays
    <3> QED BY <3>5, <3>6, <3>7, <3>8 DEF JSONKept, RefusedForItsLength
  <2>2. ASSUME NEW x \in 1..n, Cuts(out, d, x, n), jsonStream[d + 1] = "control" \/ JSON!EndOf(d + 1) = d + x
        PROVE  (jsonRefused' = {} => JSONKept') /\ RefusedForItsLength
    <3>1. out.is = "packet" /\ Following(out.doc, d) /\ Len(out.doc) = x
      BY <2>2 DEF Cuts
    <3>2. PICK h \in x..n : Following(out.rest, d + h) /\ Len(out.rest) = n - h /\ Blanks(d + x, d + h)
      BY <2>2 DEF Cuts
    <3>3. PICK doc, left, more : doc = out.doc /\ left = out.rest /\ more = Append(docs, doc)
      OBVIOUS
    <3>4. /\ phase' = "none" /\ start' = 0 /\ count' = 0 /\ quoted' = FALSE /\ jsonRest' = left /\ jsonAt' = "idle"
          /\ documents' = more /\ jsonRefused' = {}
      BY <1>6, <3>1, <3>3
    <3>5. PICK f \in Nat : f = d + h
      OBVIOUS
    <3>6. Behind(more, d + x, f)
      <4>1. x \in Nat /\ x >= 1 /\ h \in Nat /\ x <= h
        OBVIOUS
      <4>2. Behind(Append(docs, doc), d + x, d + h)
        BY <1>8, <1>10, <2>0, <2>2, <3>1, <3>2, <3>3, <4>1, DocumentComes
      <4> QED BY <3>3, <3>5, <4>2
    <3>7. PICK z : z = d + x
      OBVIOUS
    <3>8. Behind(more, z, f)'
      BY <3>6, <3>7, BehindStays
    <3>9. Ready(f)'
      <4>1. PICK mem : mem = memory'
        OBVIOUS
      <4>2. PreparedAs("none", 0, 0, FALSE, mem, f)
        BY DEF PreparedAs
      <4>3. PreparedAs("none", 0, 0, FALSE, mem, f)'
        BY <4>2, PreparedStays
      <4> QED BY <3>4, <4>1, <4>3 DEF Ready
    <3>10. RestIs(f)'
      <4>1. Following(left, f) /\ Len(left) = n - h
        BY <3>2, <3>3, <3>5
      <4>2. f + Len(left) = jsonReceived' /\ (jsonMode = "buffered" => Len(left) <= JSONLimit)
        <5>1. f + Len(left) = jsonReceived' /\ Len(left) <= end
          <6>1. h \in Nat /\ h <= n /\ end \in Nat
            OBVIOUS
          <6>2. (d + h) + (n - h) = d + n /\ n - h <= end
            BY <1>7, <6>1
          <6>3. f = d + h /\ Len(left) = n - h
            BY <3>5, <4>1
          <6>4. f + Len(left) = d + n /\ Len(left) <= end
            BY <6>2, <6>3
          <6>5. d + n = jsonReceived'
            BY <1>7
          <6> QED BY <6>4, <6>5
        <5>2. Len(left) \in Int /\ JSONLimit \in Int /\ end \in Int
          BY <1>0, <4>1
        <5>3. jsonMode = "buffered" => end <= JSONLimit
          BY <1>3
        <5> QED BY <5>1, <5>2, <5>3
      <4> QED BY <3>4, <4>1, <4>2 DEF RestIs
    <3>11. f <= jsonReceived'
      BY <1>7, <3>5
    <3> QED BY <3>4, <3>8, <3>9, <3>10, <3>11 DEF JSONKept, RefusedForItsLength
  <2>3. CASE \E x \in 1..n : Ending(d, x) /\ Cuts(out, d, x, n)
    <3>1. PICK x \in 1..n : Ending(d, x) /\ Cuts(out, d, x, n)
      BY <2>3
    <3>2. JSON!EndOf(d + 1) = d + x
      <4>1. x \in Nat /\ x >= 1 /\ d + x <= JSONLength
        BY <1>0, <2>0
      <4> QED BY <2>0, <3>1, <4>1, EndIs
    <3> QED BY <2>2, <3>1, <3>2
  <2>4. CASE jsonStream[d + 1] = "control" /\ Cuts(out, d, n, n)
    <3>1. n \in 1..n
      BY <2>0
    <3> QED BY <2>2, <2>4, <3>1
  <2>5. CASE LongDocument(out, d)
    <3>1. out.is = "overrun" /\ out.consumed # {} /\ JSON!CompleteAt(d + 1) - d > JSONLimit
      BY <2>5 DEF LongDocument
    <3>2. jsonRefused' # {}
      BY <1>6, <3>1
    <3>3. JSON!StartAfter(documents) = d + 1
      <4>1. d <= JSONLength
        BY <1>0, <2>0
      <4> QED BY <1>8, <1>10, <2>0, <4>1, NextDocument
    <3>4. JSON!CompleteAt(d + 1) - (d + 1) + 1 > JSONLimit
      <4>1. JSON!CompleteAt(d + 1) \in Int
        BY <2>0, EndIs
      <4> QED BY <1>0, <3>1, <4>1
    <3> QED BY <3>2, <3>3, <3>4 DEF RefusedForItsLength
  <2> QED BY <1>10, <2>1, <2>3, <2>4, <2>5 DEF Answers
<1>11. (k < end /\ jsonStream[d + 1] # "newline" /\ Answers(out, d, n)) \/ (k = end /\ out.is = "more" /\ out.p = p /\ p.phase = "blank")
  BY <1>4, <1>7 DEF Starts
<1> QED BY <1>9, <1>10, <1>11

JSONInv ==
  /\ JSONStream /\ jsonMode \in {"chunks", "buffered"} /\ jsonReceived \in 0..JSONLength
  /\ jsonAt \in {"idle", "receiving"}
  /\ jsonRefused = {} => JSONKept

\* The invariant of the documents, at first and after every step.
LEMMA JSONInit == JSON!Init => JSONInv
<1> SUFFICES ASSUME JSON!Init PROVE JSONInv
  OBVIOUS
<1>1. JSONStream /\ jsonMode \in {"chunks", "buffered"} /\ jsonReceived = 0 /\ 0 \in 0..JSONLength /\ jsonAt = "idle"
  BY JSONAssumption DEF JSON!Init, JSONStream, JSON!JSONParameters
<1>2. Behind(<<>>, 0, 0)
  <2>1. DocumentsUpto(<<>>, 0)
    BY EmptySeq DEF DocumentsUpto
  <2>2. Blanks(0, 0)
    BY DEF Blanks
  <2> QED BY <2>1, <2>2 DEF Behind
<1>3. Ready(0)
  <2>1. PICK mem : mem = memory
    OBVIOUS
  <2>2. PreparedAs("none", 0, 0, FALSE, mem, 0)
    BY DEF PreparedAs
  <2>3. phase = "none" /\ start = 0 /\ count = 0 /\ quoted = FALSE
    BY DEF JSON!Init
  <2> QED BY <2>1, <2>2, <2>3 DEF Ready
<1>4. RestIs(0)
  <2>1. Following(<<>>, 0) /\ Len(<<>>) = 0
    BY FollowingProperties, EmptySeq
  <2>2. JSONLimit \in Nat /\ phase = "none" /\ jsonRest = <<>> /\ jsonReceived = 0
    BY JSONAssumption DEF JSON!Init, JSON!JSONParameters
  <2> QED BY <2>1, <2>2 DEF RestIs
<1>5. JSONKept
  <2>1. documents = <<>> /\ 0 \in Nat /\ 0 <= jsonReceived
    BY <1>1 DEF JSON!Init
  <2> QED BY <1>2, <1>3, <1>4, <2>1 DEF JSONKept
<1> QED BY <1>1, <1>5 DEF JSONInv

\* A step that leaves the parser as it is.
LEMMA JSONKeptStays ==
  ASSUME JSONKept, jsonStream' = jsonStream, jsonMode' = jsonMode, jsonReceived' = jsonReceived, documents' = documents,
         memory' = memory, start' = start, phase' = phase, count' = count, quoted' = quoted, jsonRest' = jsonRest,
         jsonAt' = "receiving" => jsonRest = <<>>
  PROVE  JSONKept'
<1>1. PICK b, docs, e : /\ b \in Nat /\ b <= jsonReceived /\ documents = docs
                         /\ Behind(docs, e, b) /\ Ready(b) /\ RestIs(b)
  BY DEF JSONKept
<1>2. Behind(docs, e, b)'
  BY <1>1, BehindStays
<1>3. Ready(b)'
  <2>1. PICK f, n, c, u, mem : /\ phase = f /\ start = n /\ count = c /\ quoted = u /\ memory = mem
                               /\ PreparedAs(f, n, c, u, mem, b)
    BY <1>1 DEF Ready
  <2>2. PreparedAs(f, n, c, u, mem, b)'
    BY <2>1, PreparedStays
  <2> QED BY <2>1, <2>2 DEF Ready
<1>4. RestIs(b)'
  BY <1>1 DEF RestIs
<1> QED BY <1>1, <1>2, <1>3, <1>4 DEF JSONKept

\* What was refused stays refused.
LEMMA FeedRefuses ==
  ASSUME NEW data, JSON!Feed(data)
  PROVE  jsonAt' \in {"idle", "receiving"} /\ (jsonRefused' = {} => jsonRefused = {})
<1>1. PICK out : out = JSON!Parse(Fed(data))
  OBVIOUS
<1>2. jsonRefused' = IF out.is = "overrun" THEN jsonRefused \cup out.consumed ELSE jsonRefused
  BY <1>1, FeedIs
<1>3. jsonAt' \in {"idle", "receiving"}
  BY DEF JSON!Feed
<1> QED BY <1>2, <1>3

LEMMA JSONReceiveKeeps ==
  ASSUME JSONInv, NEW k \in 1..JSONLength, JSON!Receive(k)
  PROVE  JSONInv' /\ (jsonRefused = {} => RefusedForItsLength)
<1>0. JSONStream /\ JSONLength \in Nat /\ jsonReceived \in 0..JSONLength /\ jsonMode \in {"chunks", "buffered"}
  BY DEF JSONInv, JSONStream
<1>1. /\ jsonStream' = jsonStream /\ jsonMode' = jsonMode /\ jsonAt = "receiving" /\ k <= JSONLength - jsonReceived
      /\ jsonReceived' = jsonReceived + k /\ (jsonMode = "buffered" => k <= JSONLimit - start)
  BY DEF JSON!Receive, JSON!wire
<1>2. PICK data : data = [i \in 1..k |-> jsonReceived + i] /\ JSON!Feed(data)
  BY DEF JSON!Receive
<1>3. ASSUME jsonRefused = {} PROVE (jsonRefused' = {} => JSONKept') /\ RefusedForItsLength
  <2>1. PICK b, docs, e : /\ b \in Nat /\ b <= jsonReceived /\ documents = docs
                         /\ Behind(docs, e, b) /\ Ready(b) /\ RestIs(b)
    BY <1>3 DEF JSONInv, JSONKept
  <2>2. start \in Nat /\ b + start = jsonReceived
    <3>1. Prepared(b)
      BY <2>1, ReadyIs
    <3>2. start \in Nat /\ (phase = "none" => start = 0)
      BY <3>1 DEF Prepared
    <3>3. phase = "none" => b + Len(jsonRest) = jsonReceived /\ Len(jsonRest) = 0
      BY <1>1, <2>1, EmptySeq DEF RestIs
    <3>4. phase # "none" => b + start = jsonReceived
      BY <2>1 DEF RestIs
    <3> QED BY <3>2, <3>3, <3>4
  <2>3. PICK n \in Nat : n = jsonReceived
    BY <1>0
  <2>4. Following(data, b + start) /\ Len(data) = k
    <3>1. k \in Nat /\ data = [i \in 1..k |-> n + i]
      BY <1>2, <2>3
    <3>2. Following(data, n) /\ Len(data) = k
      BY <3>1, FollowingProperties
    <3> QED BY <2>2, <2>3, <3>2
  <2>5. /\ Len(data) >= 1 /\ jsonReceived' = b + start + Len(data) /\ jsonReceived' <= JSONLength
        /\ jsonMode = "buffered" => start + Len(data) <= JSONLimit
    <3>1. JSONLimit \in Nat
      BY JSONAssumption DEF JSON!JSONParameters
    <3> QED BY <1>0, <1>1, <2>2, <2>4, <3>1
  <2> QED BY <1>0, <1>1, <1>2, <1>3, <2>1, <2>4, <2>5, FeedKeeps
<1>4. jsonAt' \in {"idle", "receiving"} /\ (jsonRefused' = {} => jsonRefused = {})
  BY <1>2, FeedRefuses
<1>5. JSONStream' /\ jsonReceived' \in 0..JSONLength
  BY <1>0, <1>1 DEF JSONStream
<1> QED BY <1>0, <1>1, <1>3, <1>4, <1>5 DEF JSONInv

LEMMA JSONCallKeeps ==
  ASSUME JSONInv, JSON!Call
  PROVE  JSONInv' /\ (jsonRefused = {} => RefusedForItsLength)
<1>0. JSONStream /\ JSONLength \in Nat /\ jsonReceived \in 0..JSONLength /\ jsonMode \in {"chunks", "buffered"}
  BY DEF JSONInv, JSONStream
<1>1. jsonStream' = jsonStream /\ jsonMode' = jsonMode /\ jsonReceived' = jsonReceived
  BY DEF JSON!Call, JSON!wire
<1>2. CASE jsonRest # <<>> /\ JSON!Feed(jsonRest)
  <2>1. ASSUME jsonRefused = {} PROVE (jsonRefused' = {} => JSONKept') /\ RefusedForItsLength
    <3>1. PICK b, docs, e : /\ b \in Nat /\ b <= jsonReceived /\ documents = docs
                         /\ Behind(docs, e, b) /\ Ready(b) /\ RestIs(b)
      BY <2>1 DEF JSONInv, JSONKept
    <3>2. phase = "none" /\ Following(jsonRest, b) /\ b + Len(jsonRest) = jsonReceived
          /\ (jsonMode = "buffered" => Len(jsonRest) <= JSONLimit)
      BY <1>2, <3>1 DEF RestIs
    <3>3. start = 0
      <4>1. Prepared(b)
        BY <3>1, ReadyIs
      <4> QED BY <3>2, <4>1 DEF Prepared
    <3>4. Len(jsonRest) \in Nat /\ Len(jsonRest) >= 1
      <4>1. jsonRest \in Seq(Nat)
        BY <3>2 DEF Following
      <4> QED BY <1>2, <4>1, LenProperties, EmptySeq
    <3>5. /\ Following(jsonRest, b + start) /\ jsonReceived' = b + start + Len(jsonRest) /\ jsonReceived' <= JSONLength
          /\ jsonMode = "buffered" => start + Len(jsonRest) <= JSONLimit
      <4>1. b + start = b
        BY <3>1, <3>3
      <4> QED BY <1>0, <1>1, <3>2, <3>3, <3>4, <4>1
    <3>6. PICK data : data = jsonRest
      OBVIOUS
    <3> QED BY <1>0, <1>1, <1>2, <2>1, <3>1, <3>4, <3>5, <3>6, FeedKeeps
  <2>2. jsonAt' \in {"idle", "receiving"} /\ (jsonRefused' = {} => jsonRefused = {})
    BY <1>2, FeedRefuses
  <2>3. JSONStream' /\ jsonReceived' \in 0..JSONLength
    BY <1>0, <1>1 DEF JSONStream
  <2> QED BY <1>0, <1>1, <2>1, <2>2, <2>3 DEF JSONInv
<1>3. CASE jsonRest = <<>> /\ jsonAt' = "receiving" /\ UNCHANGED <<JSON!parser, documents, jsonRefused>>
  <2>1. /\ documents' = documents /\ jsonRefused' = jsonRefused /\ memory' = memory /\ start' = start /\ phase' = phase
        /\ count' = count /\ quoted' = quoted /\ jsonRest' = jsonRest
    BY <1>3 DEF JSON!parser
  <2>2. JSONKept => JSONKept'
    BY <1>1, <1>3, <2>1, JSONKeptStays
  <2> QED BY <1>1, <1>3, <2>1, <2>2 DEF JSONInv, JSONStream, RefusedForItsLength
<1> QED BY <1>2, <1>3 DEF JSON!Call

LEMMA JSONStep ==
  ASSUME JSONInv, [JSON!Next]_jsonVars
  PROVE  JSONInv' /\ (jsonRefused = {} => RefusedForItsLength)
<1>1. CASE JSON!Call
  BY <1>1, JSONCallKeeps
<1>2. CASE \E k \in 1..JSONLength : JSON!Receive(k)
  BY <1>2, JSONReceiveKeeps
<1>3. CASE JSON!Cancel \/ UNCHANGED jsonVars
  <2>1. /\ jsonStream' = jsonStream /\ jsonMode' = jsonMode /\ jsonReceived' = jsonReceived
        /\ documents' = documents /\ jsonRefused' = jsonRefused /\ memory' = memory /\ start' = start /\ phase' = phase
        /\ count' = count /\ quoted' = quoted /\ jsonRest' = jsonRest /\ (jsonAt' = "idle" \/ jsonAt' = jsonAt)
    BY <1>3 DEF JSON!Cancel, JSON!parser, JSON!wire, jsonVars
  <2>2. JSONKept => JSONKept'
    <3>1. JSONKept => (jsonAt = "receiving" => jsonRest = <<>>)
      BY DEF JSONKept, RestIs
    <3> QED BY <2>1, <3>1, JSONKeptStays
  <2> QED BY <2>1, <2>2 DEF JSONInv, JSONStream, RefusedForItsLength
<1> QED BY <1>1, <1>2, <1>3 DEF JSON!Next

\* The invariant says that the documents are intact.
LEMMA DocumentsHold == JSONInv => JSON!DocumentsIntact
<1> SUFFICES ASSUME JSONInv, jsonRefused = {}
             PROVE  /\ \A n \in DOMAIN documents :
                         /\ documents[n] = [i \in 1..Len(documents[n]) |-> JSON!StartAfter(SubSeq(documents, 1, n - 1)) + i - 1]
                         /\ \/ jsonStream[JSON!StartAfter(SubSeq(documents, 1, n - 1))] = "control"
                            \/ JSON!Last(documents[n]) = JSON!EndOf(JSON!StartAfter(SubSeq(documents, 1, n - 1)))
                    /\ jsonAt = "receiving" =>
                         \/ JSON!StartAfter(documents) > jsonReceived
                         \/ JSON!CompleteAt(JSON!StartAfter(documents)) > jsonReceived
  BY Zenon DEF JSON!DocumentsIntact
<1>1. PICK b, docs, e : /\ b \in Nat /\ b <= jsonReceived /\ documents = docs
                         /\ Behind(docs, e, b) /\ Ready(b) /\ RestIs(b)
  BY DEF JSONInv, JSONKept
<1>2. JSONStream /\ JSONLength \in Nat /\ jsonReceived \in Nat /\ jsonReceived <= JSONLength
  BY DEF JSONInv, JSONStream
<1>3. ASSUME NEW n \in DOMAIN documents
      PROVE  /\ documents[n] = [i \in 1..Len(documents[n]) |-> JSON!StartAfter(SubSeq(documents, 1, n - 1)) + i - 1]
             /\ \/ jsonStream[JSON!StartAfter(SubSeq(documents, 1, n - 1))] = "control"
                \/ JSON!Last(documents[n]) = JSON!EndOf(JSON!StartAfter(SubSeq(documents, 1, n - 1)))
  <2>1. documents \in Seq(Seq(Nat)) /\ n \in 1..Len(documents)
    BY <1>1, LenProperties DEF Behind, DocumentsUpto
  <2>2. PICK doc, p : doc = documents[n] /\ p = JSON!StartAfter(SubSeq(documents, 1, n - 1))
    OBVIOUS
  <2>3. Whole(doc, p)
    BY <1>1, <2>1, <2>2 DEF Behind, DocumentsUpto
  <2>4. JSON!Last(doc) = Last(doc)
    BY JSONOperators
  <2> QED BY <2>2, <2>3, <2>4 DEF Whole
<1>4. ASSUME jsonAt = "receiving"
      PROVE  JSON!StartAfter(documents) > jsonReceived \/ JSON!CompleteAt(JSON!StartAfter(documents)) > jsonReceived
  <2>1. Prepared(b)
    BY <1>1, ReadyIs
  <2>2. /\ JSON!StartAfter(documents) > b
        /\ b < JSONLength /\ jsonStream[b + 1] # "newline" => JSON!StartAfter(documents) = b + 1
    <3>1. b \in Nat /\ b <= JSONLength /\ Behind(documents, e, b)
      BY <1>1, <1>2
    <3> QED BY <1>2, <3>1, NextDocument
  <2>3. CASE phase \in {"none", "blank"}
    <3>1. b = jsonReceived
      <4>1. start = 0
        BY <2>1, <2>3 DEF Prepared
      <4>2. phase = "none" => b + Len(jsonRest) = jsonReceived /\ Len(jsonRest) = 0
        BY <1>1, <1>4, EmptySeq DEF RestIs
      <4>3. phase # "none" => b + start = jsonReceived
        BY <1>1 DEF RestIs
      <4> QED BY <1>1, <1>2, <4>1, <4>2, <4>3
    <3> QED BY <2>2, <3>1
  <2>4. CASE phase \in {"plain", "framed"}
    <3>1. start \in Nat /\ start >= 1 /\ jsonStream[b + 1] # "newline" /\ Open(b, start)
      BY <2>1, <2>4 DEF Prepared
    <3>2. b + start = jsonReceived
      BY <1>1, <2>4 DEF RestIs
    <3>3. PICK i \in Nat : i = start
      BY <3>1
    <3>4. b < JSONLength /\ b + i <= JSONLength /\ Open(b, i)
      BY <1>1, <1>2, <3>1, <3>2, <3>3
    <3>5. JSON!CompleteAt(b + 1) > b + i
      BY <1>1, <1>2, <3>4, EndIs
    <3>6. JSON!StartAfter(documents) = b + 1
      BY <2>2, <3>1, <3>4
    <3> QED BY <3>2, <3>3, <3>5, <3>6
  <2> QED BY <2>1, <2>3, <2>4 DEF Prepared
<1> QED BY <1>3, <1>4

LEMMA JSONInvariant == ReceptionSpec => []JSONInv
<1>1. ReceptionInit => JSONInv
  BY JSONInit DEF ReceptionInit
<1>2. JSONInv /\ [ReceptionNext]_<<part, vars, jsonVars, packetVars, serverVars>> => JSONInv'
  <2>1. [ReceptionNext]_<<part, vars, jsonVars, packetVars, serverVars>> => [JSON!Next]_jsonVars
    BY DEF ReceptionNext
  <2> QED BY <2>1, JSONStep
<1> QED BY <1>1, <1>2, PTL DEF ReceptionSpec

\* _JSONParser with raw_parse() and raw_parse_with_external_buffer(): whatever the chunks
\* and whichever calls are cancelled, until one is refused the documents given are those of
\* the stream, read one byte at a time, whole and in order, and recv_packet() waits only
\* when none is complete.
THEOREM DocumentsAreIntact == ReceptionSpec => []JSON!DocumentsIntact
  BY JSONInvariant, DocumentsHold, PTL

\* _JSONParser: __split_final_buffer() and __read_data() refuse a document only when it is
\* longer than the limit or, for one that is not enclosed, fills it before its end is known.
THEOREM DocumentsRefusedForLength == ReceptionSpec => JSON!OnlyLongDocumentsRefused
<1>1. JSONInv /\ [ReceptionNext]_<<part, vars, jsonVars, packetVars, serverVars>> =>
        [jsonRefused' # {} /\ jsonRefused = {} =>
           LET p == JSON!StartAfter(documents) IN JSON!CompleteAt(p) - p + 1 > JSONLimit]_(JSON!vars)
  <2>1. [ReceptionNext]_<<part, vars, jsonVars, packetVars, serverVars>> => [JSON!Next]_jsonVars
    BY DEF ReceptionNext
  <2> QED BY <2>1, JSONStep DEF RefusedForItsLength
<1> QED BY <1>1, JSONInvariant, PTL DEF ReceptionSpec, JSON!OnlyLongDocumentsRefused

\* The consumers of lowlevel/_stream.py with every parser, and the request handler of a
\* stream server: whatever the chunks, the packets are those of the stream, a receiver
\* waits only when the next one is not complete, and the handler gets every packet once.
THEOREM PacketsAreIntact == ReceptionSpec => []PacketsIntact
  BY FramesGiven, DocumentsAreIntact, SizedPacketsAreIntact, RequestsAreIntact, PTL DEF PacketsIntact

\* LimitOverrunError: a frame or a JSON document is refused for its length only, whatever
\* the chunks in which it is received.
THEOREM PacketsRefusedForLength == ReceptionSpec => OnlyLongPacketsRefused
  BY FramesRefusedForLength, DocumentsRefusedForLength, PTL DEF OnlyLongPacketsRefused
=============================================================================
