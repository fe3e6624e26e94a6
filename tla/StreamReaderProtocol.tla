-------------------------- MODULE StreamReaderProtocol --------------------------
(***************************************************************************)
(* The reading side of a stream socket on asyncio:                         *)
(*   src/easynetwork/lowlevel/api_async/backend/_asyncio/stream/socket.py  *)
(*   class StreamReaderBufferedProtocol                                    *)
(*                                                                         *)
(* The event loop calls get_buffer()/buffer_updated(), eof_received() and  *)
(* connection_lost(); one task calls receive_data() or receive_data_into() *)
(* and may be cancelled.  Between a callback that completes the future of  *)
(* the reader and the run of the reader any other callback may happen.     *)
(* The incoming bytes are numbered 1, 2, 3...                              *)
(*                                                                         *)
(* The transport can pause its reading (the branch of the code for one     *)
(* that cannot is left out), so the attribute __transport is set exactly   *)
(* while the connection is not lost.  A second reader gets a RuntimeError  *)
(* and changes nothing.                                                    *)
(***************************************************************************)
EXTENDS Integers, Sequences, SequencesExt, FiniteSetsExt

CONSTANTS
  MaxSize,    \* max_size, the size of the internal buffer
  HighWater,  \* __read_high_water
  LowWater,   \* __read_low_water
  ReadSizes,  \* the sizes that readers ask for
  MaxBytes    \* bound: the bytes the peer sends

\* _compute_read_buffer_limits(): 3/4 of the size, and a quarter of that.
ASSUME WaterMarks ==
  /\ MaxSize \in Nat /\ HighWater \in Nat /\ LowWater \in Nat
  /\ LowWater < HighWater /\ HighWater < MaxSize
ASSUME SizesAndBound == ReadSizes \subseteq Nat \ {0} /\ MaxBytes \in Nat

VARIABLES
  buffer,      \* the bytes of the internal buffer
  external,    \* size of __external_buffer_view, 0 for None
  waiter,      \* __read_waiter: "none", or the state of the future
  filled,      \* the bytes the transport wrote in the buffer of the reader
  readPaused,  \* __read_paused
  lost,        \* __connection_lost
  failure,     \* __connection_lost_exception is set
  eof,         \* __eof_reached
  reader,      \* "idle", "yielding" (coro_yield) or "waiting" (on the future)
  request,     \* the call of the reader: its size, and whether it is an _into
  cancelling,  \* a cancellation is on its way to the reader
  sent,        \* number of bytes the transport has read from the socket
  delivered,   \* history: the bytes the reader got
  outcome,     \* history: how the last call of the reader ended
  dropped      \* history: bytes written in the buffer of a cancelled read

protocol == <<buffer, external, waiter, readPaused, lost, failure, eof>>
history == <<delivered, outcome, dropped>>
vars == <<protocol, filled, reader, request, cancelling, sent, history>>

Outcomes == {"none", "data", "eof", "error", "cancelled"}
Requests == [size : ReadSizes, into : BOOLEAN]

Init ==
  /\ buffer = <<>> /\ external = 0 /\ waiter = "none" /\ filled = <<>>
  /\ readPaused = FALSE /\ lost = FALSE /\ failure = FALSE /\ eof = FALSE
  /\ reader = "idle" /\ request \in Requests /\ cancelling = FALSE
  /\ sent = 0 /\ delivered = <<>> /\ outcome = "none" /\ dropped = {}

-----------------------------------------------------------------------------
(* The callbacks of the event loop. *)

\* _wakeup_read_waiter(): a future that is already done is left alone.
Woken(result) == IF waiter = "pending" THEN result ELSE waiter

Arriving(k) == [i \in 1..k |-> sent + i]

\* buffer_updated() with the buffer of the reader in use.
FaultExternalDone == external
ExternalDone == 0
FillExternal(k) ==
  /\ external > 0 /\ k <= external
  /\ external' = ExternalDone
  /\ waiter' = Woken("filled")
  /\ IF waiter = "pending"
       THEN filled' = Arriving(k) /\ UNCHANGED dropped
       ELSE dropped' = dropped \cup Range(Arriving(k)) /\ UNCHANGED filled
  /\ UNCHANGED <<buffer, readPaused>>

\* _maybe_pause_transport()
MustPause(n) == n >= HighWater

\* buffer_updated() with the internal buffer.
FillInternal(k) ==
  /\ external = 0 /\ k <= MaxSize - Len(buffer)
  /\ buffer' = buffer \o Arriving(k)
  /\ waiter' = Woken("data")
  /\ readPaused' = (readPaused \/ MustPause(Len(buffer')))
  /\ UNCHANGED <<external, filled, dropped>>

DataReceived(k) ==
  /\ ~lost /\ ~eof /\ ~readPaused
  /\ sent + k <= MaxBytes
  /\ FillExternal(k) \/ FillInternal(k)
  /\ sent' = sent + k
  /\ UNCHANGED <<lost, failure, eof, reader, request, cancelling, delivered, outcome>>

WokenByEof == Woken("data")
EofReceived ==
  /\ ~lost /\ ~eof /\ ~readPaused
  /\ external' = 0
  /\ eof' = TRUE
  /\ waiter' = WokenByEof
  /\ UNCHANGED <<buffer, filled, readPaused, lost, failure, reader, request, cancelling, sent, history>>

\* The test on the unread bytes in connection_lost().
LossIsFailure(error) == error \/ buffer # <<>>
ConnectionLost(error) ==
  /\ ~lost
  /\ lost' = TRUE
  /\ readPaused' = FALSE
  /\ failure' = LossIsFailure(error)
  /\ eof' = (eof \/ ~LossIsFailure(error))
  /\ buffer' = <<>>
  /\ waiter' = Woken(IF LossIsFailure(error) THEN "failed" ELSE "data")
  /\ UNCHANGED <<external, filled, reader, request, cancelling, sent, history>>

-----------------------------------------------------------------------------
(* The reader. *)

\* receive_data(), receive_data_into() up to the await of _wait_for_data().
Receive(q) ==
  /\ reader = "idle"
  /\ \/ /\ failure
        /\ outcome' = "error"
        /\ UNCHANGED <<external, waiter, reader, request>>
     \/ /\ ~failure
        /\ request' = q
        /\ outcome' = "none"
        /\ IF buffer # <<>> \/ eof
             THEN waiter' = "data" /\ reader' = "yielding" /\ UNCHANGED external
             ELSE /\ waiter' = "pending" /\ reader' = "waiting"
                  /\ external' = IF q.into THEN q.size ELSE 0
  /\ UNCHANGED <<buffer, readPaused, lost, failure, eof, filled, cancelling, sent, delivered, dropped>>

\* The reader is back from its await, without a cancellation.
Resumed ==
  /\ reader # "idle" /\ ~cancelling
  /\ waiter \in {"data", "filled", "failed"}
  /\ waiter' = "none" /\ reader' = "idle" /\ external' = 0 /\ filled' = <<>>
  /\ UNCHANGED <<lost, failure, eof, request, cancelling, sent, dropped>>

ReturnFilled ==
  /\ Resumed
  /\ waiter = "filled"
  /\ delivered' = delivered \o filled
  /\ outcome' = "data"
  /\ UNCHANGED <<buffer, readPaused>>

\* _maybe_resume_transport()
FaultMustResume(n) == FALSE
MustResume(n) == n <= LowWater

\* What the reader must raise: the exception of its future, or the one that
\* _check_for_connection_lost() finds when it runs.
FailureSeen == waiter = "failed" \/ (waiter = "data" /\ failure)

\* What stays in the buffer after n bytes were taken.
FaultUnused(n) == SubSeq(buffer, 1, Len(buffer) - n)
Unused(n) == SubSeq(buffer, n + 1, Len(buffer))
ReturnBuffered ==
  LET n == Min({request.size, Len(buffer)}) IN
  /\ Resumed
  /\ waiter = "data" /\ ~FailureSeen
  /\ delivered' = delivered \o SubSeq(buffer, 1, n)
  /\ buffer' = Unused(n)
  /\ outcome' = IF n = 0 THEN "eof" ELSE "data"
  /\ readPaused' = (readPaused /\ ~MustResume(Len(buffer')))

RaiseFailure ==
  /\ Resumed
  /\ FailureSeen
  /\ outcome' = "error"
  /\ UNCHANGED <<buffer, readPaused, delivered>>

\* task.cancel(): the future is cancelled if it is pending; if it is done, the
\* task gets the CancelledError in place of its result.
Cancel ==
  /\ reader # "idle" /\ ~cancelling
  /\ cancelling' = TRUE
  /\ waiter' = Woken("cancelled")
  /\ UNCHANGED <<buffer, external, readPaused, lost, failure, eof, filled, reader, request, sent, history>>

\* The finally clauses of _wait_for_data() when the CancelledError gets out.
FaultExternalCleared == external
ExternalCleared == 0
Unwind ==
  /\ cancelling
  /\ cancelling' = FALSE
  /\ waiter' = "none" /\ reader' = "idle" /\ external' = ExternalCleared
  /\ outcome' = "cancelled"
  /\ dropped' = dropped \cup Range(filled)
  /\ filled' = <<>>
  /\ UNCHANGED <<buffer, readPaused, lost, failure, eof, request, sent, delivered>>

Next ==
  \/ \E k \in 1..MaxBytes : DataReceived(k)
  \/ EofReceived
  \/ \E error \in BOOLEAN : ConnectionLost(error)
  \/ \E q \in Requests : Receive(q)
  \/ ReturnFilled \/ ReturnBuffered \/ RaiseFailure
  \/ Cancel \/ Unwind

Spec == Init /\ [][Next]_vars

\* The task of the reader runs when it can, it reads again when a call ends,
\* and a received end of stream is no longer preceded by data: the callbacks
\* of the event loop and the cancellations need no fairness.
ReaderGoesOn == ReturnFilled \/ ReturnBuffered \/ RaiseFailure \/ Unwind
ReadsAgain == \E q \in Requests : Receive(q)
FairSpec == Spec /\ WF_vars(ReaderGoesOn) /\ WF_vars(ReadsAgain)

-----------------------------------------------------------------------------
(* Properties. *)

\* Types, and how the future follows the reader (_wait_for_data).
TypeOK ==
  /\ buffer \in Seq(1..MaxBytes) /\ Len(buffer) <= MaxSize
  /\ external \in {0} \cup ReadSizes
  /\ waiter \in {"none", "pending", "data", "filled", "failed", "cancelled"}
  /\ filled \in Seq(1..MaxBytes)
  /\ {readPaused, lost, failure, eof, cancelling} \subseteq BOOLEAN
  /\ reader \in {"idle", "yielding", "waiting"}
  /\ request \in Requests
  /\ sent \in 0..MaxBytes
  /\ delivered \in Seq(1..MaxBytes)
  /\ outcome \in Outcomes
  /\ dropped \subseteq 1..MaxBytes
  /\ waiter = "none" <=> reader = "idle"
  /\ filled # <<>> <=> waiter = "filled"
  /\ waiter = "filled" => external = 0
  /\ waiter = "cancelled" => cancelling
  /\ failure => lost

\* The empty result that tells the end of the stream comes when every byte the
\* transport read was delivered (or lost by a cancelled call): a connection
\* lost with unread data, even after the wake-up, is an error.
EofIsReal == outcome = "eof" => eof /\ Range(delivered) \cup dropped = 1..sent

\* The bytes the reader got and those still to come follow each other without
\* a gap, a swap or a duplicate, up to the end of the stream; only a cancelled
\* read may have lost some.
StreamIntact ==
  LET seen == delivered \o filled \o buffer IN
  /\ EofIsReal
  /\ \A i, j \in 1..Len(seen) : i < j => seen[i] < seen[j]
  /\ Range(seen) \cap dropped = {}
  /\ ~lost => Range(seen) \cup dropped = 1..sent

\* receive_data() never loses a byte when it is cancelled; receive_data_into(),
\* which gives its buffer to the transport, can lose those of one call.
OnlyCancelledIntoLoses == [][dropped' # dropped => cancelling /\ request.into]_vars

\* No lost wake-up: a future is left pending only when there is nothing to
\* tell the reader, and the transport is reading (the assertion of
\* _wait_for_data(), "transport reading is paused").
NoMissedWakeup == waiter = "pending" => buffer = <<>> /\ ~eof /\ ~lost /\ ~readPaused

\* The transport has room to read into whenever it may read, and it is paused
\* only while a read is bound to resume it.
RoomToRead ==
  /\ ~lost /\ ~readPaused => Len(buffer) < MaxSize
  /\ readPaused => Len(buffer) > LowWater

\* The buffer get_buffer() gives the transport can be written: its own has
\* room, and that of a caller is lent only while that caller waits, so that a
\* byte is never written in a buffer that was given back.
WritableBuffer ==
  /\ RoomToRead
  /\ external > 0 => reader = "waiting" /\ request.into /\ (eof => lost)

\* A reader that keeps reading gets to the end of the stream, or to the error,
\* unless it is cancelled.
EndReachesReader == (eof \/ lost) ~> (outcome \in {"eof", "error"} \/ cancelling)
=============================================================================
