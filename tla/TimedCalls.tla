----------------------------- MODULE TimedCalls ------------------------------
(***************************************************************************)
(* What every blocking call of a client shares: lock_with_timeout() and    *)
(* ElapsedTime of lowlevel/_utils.py, and the wait of _retry() in          *)
(* api_sync/transports/base_selector.py.  One lock is for the receivers,   *)
(* the other for everybody else.                                           *)
(*                                                                         *)
(* Time is counted in ticks, which go by while every thread waits: code    *)
(* takes no time.  Inf is no timeout, or no retry interval.                *)
(***************************************************************************)
EXTENDS Integers

CONSTANTS
  Threads,
  Timeouts,  \* the timeouts of the calls: ticks, Inf among them
  Inf, NoThread

ASSUME TimeoutAssumption == Timeouts \subseteq Nat \cup {Inf} /\ Inf \notin Nat
ASSUME ThreadAssumption == NoThread \notin Threads

VARIABLES
  retry,               \* the retry interval of the transport: 1 tick, or Inf
  sendLock, recvLock,  \* their holders
  call                 \* the call of every thread, or Idle

locks == <<sendLock, recvLock>>

\* left is what is left of the timeout, wait of the wait in the selector, todo the bytes
\* to send and chunk those received and not yet given to the consumer; spent and allowed
\* are history: the ticks that the call took, and its timeout.
Started(op, timeout, todo) ==
  [pc |-> "lock", op |-> op, left |-> timeout, wait |-> 0, spent |-> 0, allowed |-> timeout,
   todo |-> todo, chunk |-> <<>>]
Idle == [Started("recv", 0, 0) EXCEPT !.pc = "idle"]

NoCall ==
  /\ retry \in {1, Inf}
  /\ sendLock = NoThread /\ recvLock = NoThread
  /\ call = [t \in Threads |-> Idle]

At(t, pc) == call[t].pc = pc
Receives(t) == call[t].op = "recv"
Goes(t, pc) == call' = [call EXCEPT ![t].pc = pc] /\ UNCHANGED locks
-----------------------------------------------------------------------------
FaultFree(t) == Receives(t) \/ sendLock = NoThread
Free(t) == IF Receives(t) THEN recvLock = NoThread ELSE sendLock = NoThread

\* lock_with_timeout.__enter__() takes the lock, or the timeout goes by.
TakeLock(t, pc) ==
  /\ call' = [call EXCEPT ![t].pc = pc]
  /\ recvLock' = IF Receives(t) THEN t ELSE recvLock
  /\ sendLock' = IF Receives(t) THEN sendLock ELSE t

Return(t) ==
  /\ call' = [call EXCEPT ![t] = Idle]
  /\ recvLock' = IF recvLock = t THEN NoThread ELSE recvLock
  /\ sendLock' = IF sendLock = t THEN NoThread ELSE sendLock

LockTimeout(t) == At(t, "lock") /\ call[t].left = 0 /\ ~Free(t) /\ Return(t)

\* _retry(): the socket would block, so the thread waits for it in a selector, for
\* the retry interval at most.
WaitTime(left) == IF retry # Inf /\ (left = Inf \/ left > retry) THEN retry ELSE left

Select(t) ==
  IF call[t].left = 0 THEN Return(t)
  ELSE /\ call' = [call EXCEPT ![t].pc = "select", ![t].wait = WaitTime(call[t].left)]
       /\ UNCHANGED locks

\* The selector found the socket ready, or its wait is over.
Selected(t, ready) ==
  /\ At(t, "select")
  /\ \/ ready /\ Goes(t, "try")
     \/ /\ ~ready /\ call[t].wait = 0
        /\ IF call[t].left = 0 THEN Return(t) ELSE Goes(t, "try")
-----------------------------------------------------------------------------
Waits(t, ready) ==
  \/ call[t] = Idle
  \/ At(t, "lock") /\ ~Free(t) /\ call[t].left # 0
  \/ At(t, "select") /\ ~ready /\ call[t].wait # 0
Less(n) == IF n = Inf THEN Inf ELSE n - 1

\* recompute_timeout() takes what was waited for the lock and in the selector off the
\* timeout.
FaultRecompute(c) == c.pc = "select"
Recompute(c) == c.pc \in {"lock", "select"}

AfterTick(c) ==
  [c EXCEPT !.left = IF Recompute(c) THEN Less(@) ELSE @,
            !.wait = IF c.pc = "select" THEN Less(@) ELSE @,
            !.spent = IF c.allowed = Inf THEN @ ELSE @ + 1]

\* A tick, when a timeout or the retry interval of a thread is counted down.
TickCalls ==
  /\ \E t \in Threads :
       call[t] # Idle /\ (call[t].allowed # Inf \/ (At(t, "select") /\ call[t].wait # Inf))
  /\ call' = [t \in Threads |-> IF call[t] = Idle THEN Idle ELSE AfterTick(call[t])]
  /\ UNCHANGED locks
-----------------------------------------------------------------------------
\* Types, and a thread that is past the lock of its call holds it.
CallsTypeOK ==
  /\ {sendLock, recvLock} \subseteq Threads \cup {NoThread}
  /\ \A t \in Threads :
       /\ call[t].pc \in {"idle", "lock", "try", "select", "next", "eof", "close", "clear"}
       /\ call[t].op \in {"send", "eof", "recv", "close"} /\ call[t].todo \in 0..2
       /\ {call[t].left, call[t].wait, call[t].allowed} \subseteq Nat \cup {Inf}
       /\ call[t].pc \notin {"idle", "lock"} => t = IF Receives(t) THEN recvLock ELSE sendLock

\* "The lock acquisition time is included in the `timeout`" (send_packet() and
\* recv_packet()): a call takes no longer than its timeout, whatever it waits for and
\* however often it retries.
InTime == \A t \in Threads : call[t].allowed # Inf => call[t].spent <= call[t].allowed
=============================================================================
