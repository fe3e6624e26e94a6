------------------------- MODULE Connections_proofs -------------------------
(***************************************************************************)
(* Proofs about how a connection is made, and how threads share a blocking *)
(* client, for any number of addresses, threads, packets and datagrams and *)
(* any timeouts: the race has one winner, no call is over its time, no     *)
(* byte and no datagram is lost.  The two clients rest on the same lemmas  *)
(* about their timed calls.                                                *)
(***************************************************************************)
EXTENDS MCConnections, SequenceLemmas, TLAPS

-----------------------------------------------------------------------------
(* The race of attempts *)

Ended == main \in {"returned", "raised"}
Lost == winner # NoAddress \/ thrown # "no"

\* The socket of an attempt is open until the attempt is over, that of the winner longer.
OpenInv ==
  \A a \in Addresses :
    /\ attempt[a] \in {"connecting", "connected"} => socket[a] = "open"
    /\ socket[a] = "open" => attempt[a] \in {"connecting", "connected"} \/ a = winner

\* The attempt of the winner is over, and its socket open until an exception closes it.
WinnerInv == winner # NoAddress => attempt[winner] = "over" /\ (main # "raised" => socket[winner] = "open")

\* An attempt is over by a failure, or because the race is decided.
OverInv == \A a \in Addresses : attempt[a] = "over" => a \in failed \/ Lost

\* Where the task is tells how far the race is.
MainInv ==
  /\ main = "joining" => \A a \in Addresses : attempt[a] # "new"
  /\ main = "aborting" => Lost
  /\ Ended => \A a \in Addresses : attempt[a] \in {"new", "over"}

RaceInv == TypeOK /\ OpenInv /\ WinnerInv /\ OverInv /\ MainInv /\ OneSocketLeft

-----------------------------------------------------------------------------
LEMMA RaceInit == Init => RaceInv
  BY AddressAssumption DEF Init, RaceInv, TypeOK, OpenInv, WinnerInv, OverInv, MainInv, OneSocketLeft, Ended, Lost

\* The end of the task group, the only step that ends the race.
LEMMA JoinsInv == RaceInv /\ Joins => RaceInv'
<1> SUFFICES ASSUME RaceInv, Joins PROVE RaceInv'
  OBVIOUS
<1> USE DEF RaceInv, TypeOK
<1>1. PICK raises \in BOOLEAN :
        /\ raises => thrown # "no"
        /\ main' = IF raises \/ winner = NoAddress THEN "raised" ELSE "returned"
        /\ socket' = [a \in Addresses |-> IF a \in Closed(raises) THEN "closed" ELSE socket[a]]
  BY DEF Joins
<1>2. /\ main \in {"joining", "aborting"} /\ \A a \in Addresses : attempt[a] \in {"new", "over"}
      /\ UNCHANGED <<staggered, attempt, failed, winner, current, thrown>>
  BY DEF Joins
<1>3. \A a \in Addresses : socket'[a] = IF raises /\ a = winner THEN "closed" ELSE socket[a]
  BY <1>1 DEF Closed
<1>4. \A a \in Addresses : socket[a] = "open" => a = winner
  BY <1>2 DEF OpenInv
<1>5. TypeOK'
  BY <1>1, <1>2
<1>6. OpenInv' /\ OverInv' /\ MainInv'
  BY <1>1, <1>2, <1>3, <1>4 DEF OverInv, MainInv, OpenInv, Ended, Lost
<1>7. WinnerInv'
  BY <1>1, <1>2, <1>3 DEF WinnerInv
<1>8. OneSocketLeft'
  <2>1. CASE raises
    <3>1. main' = "raised" /\ thrown' # "no"
      BY <1>1, <1>2, <2>1
    <3>2. \A a \in Addresses : socket'[a] # "open"
      BY <1>3, <1>4, <2>1
    <3> QED BY <3>1, <3>2 DEF OneSocketLeft
  <2>2. CASE ~raises /\ winner = NoAddress
    <3>1. main' = "raised"
      BY <1>1, <2>2
    <3>2. \A a \in Addresses : socket'[a] # "open"
      BY <1>3, <1>4, <2>2, AddressAssumption
    <3>3. thrown' = "no" => failed' = Addresses
      <4> SUFFICES ASSUME thrown = "no" PROVE failed = Addresses
        BY <1>2
      <4>1. main = "joining"
        BY <1>2, <2>2 DEF MainInv, Lost
      <4>2. \A a \in Addresses : attempt[a] = "over"
        BY <1>2, <4>1 DEF MainInv
      <4> QED BY <4>2, <2>2 DEF OverInv, Lost
    <3> QED BY <3>1, <3>2, <3>3 DEF OneSocketLeft
  <2>3. CASE ~raises /\ winner # NoAddress
    <3>1. main' = "returned" /\ winner' = winner
      BY <1>1, <1>2, <2>3
    <3>2. \A a \in Addresses : socket'[a] = "open" <=> a = winner
      BY <1>2, <1>3, <1>4, <2>3 DEF WinnerInv
    <3> QED BY <3>1, <3>2, <2>3 DEF OneSocketLeft
  <2> QED BY <2>1, <2>2, <2>3
<1> QED BY <1>5, <1>6, <1>7, <1>8

LEMMA RaceStep == RaceInv /\ [Next]_vars => RaceInv'
<1> SUFFICES ASSUME RaceInv, [Next]_vars PROVE RaceInv'
  OBVIOUS
<1> USE DEF RaceInv, TypeOK, Ended, Lost
<1>1. ASSUME NEW a \in Addresses, Start(a) PROVE RaceInv'
  <2>1. ~Ended /\ ~Ended'
    BY <1>1 DEF Start, MainInv
  <2>2. TypeOK'
    BY <1>1 DEF Start
  <2>3. OpenInv'
    BY <1>1, AddressAssumption DEF Start, OpenInv
  <2>4. WinnerInv'
    BY <1>1, <2>1, AddressAssumption DEF Start, WinnerInv
  <2>5. OverInv'
    BY <1>1 DEF Start, OverInv
  <2>6. MainInv'
    BY <1>1, <2>1 DEF Start, MainInv
  <2> QED BY <2>1, <2>2, <2>3, <2>4, <2>5, <2>6 DEF OneSocketLeft
<1>2. CASE GoesOn
  BY <1>2 DEF GoesOn, OpenInv, WinnerInv, OverInv, MainInv, OneSocketLeft
<1>3. CASE EndsLoop
  BY <1>3 DEF EndsLoop, OpenInv, WinnerInv, OverInv, MainInv, OneSocketLeft
<1>4. CASE Aborts
  BY <1>4 DEF Aborts, OpenInv, WinnerInv, OverInv, MainInv, OneSocketLeft
<1>5. CASE Joins
  BY <1>5, JoinsInv
<1>6. CASE CancelledFromOutside
  BY <1>6 DEF CancelledFromOutside, OpenInv, WinnerInv, OverInv, MainInv, OneSocketLeft
<1>7. ASSUME NEW a \in Addresses, Connects(a) PROVE RaceInv'
  <2>1. ~Ended /\ ~Ended'
    BY <1>7 DEF Connects, MainInv
  <2>2. TypeOK'
    BY <1>7 DEF Connects
  <2>3. OpenInv'
    BY <1>7, AddressAssumption DEF Connects, OpenInv
  <2>4. WinnerInv'
    BY <1>7, <2>1, AddressAssumption DEF Connects, WinnerInv
  <2>5. OverInv'
    BY <1>7 DEF Connects, OverInv
  <2>6. MainInv'
    BY <1>7, <2>1 DEF Connects, MainInv
  <2> QED BY <2>1, <2>2, <2>3, <2>4, <2>5, <2>6 DEF OneSocketLeft
<1>8. ASSUME NEW a \in Addresses, Fails(a) PROVE RaceInv'
  <2>1. ~Ended /\ ~Ended'
    BY <1>8 DEF Fails, Closes, MainInv
  <2>2. TypeOK'
    BY <1>8 DEF Fails, Closes
  <2>3. OpenInv'
    BY <1>8, AddressAssumption DEF Fails, Closes, OpenInv
  <2>4. WinnerInv'
    BY <1>8, <2>1, AddressAssumption DEF Fails, Closes, WinnerInv
  <2>5. OverInv'
    BY <1>8 DEF Fails, Closes, OverInv
  <2>6. MainInv'
    BY <1>8, <2>1 DEF Fails, Closes, MainInv
  <2> QED BY <2>1, <2>2, <2>3, <2>4, <2>5, <2>6 DEF OneSocketLeft
<1>9. ASSUME NEW a \in Addresses, Crashes(a) PROVE RaceInv'
  <2>1. ~Ended /\ ~Ended'
    BY <1>9 DEF Crashes, Closes, MainInv
  <2>2. TypeOK'
    BY <1>9 DEF Crashes, Closes
  <2>3. OpenInv'
    BY <1>9, AddressAssumption DEF Crashes, Closes, OpenInv
  <2>4. WinnerInv'
    BY <1>9, <2>1, AddressAssumption DEF Crashes, Closes, WinnerInv
  <2>5. OverInv'
    BY <1>9 DEF Crashes, Closes, OverInv
  <2>6. MainInv'
    BY <1>9, <2>1 DEF Crashes, Closes, MainInv
  <2> QED BY <2>1, <2>2, <2>3, <2>4, <2>5, <2>6 DEF OneSocketLeft
<1>10. ASSUME NEW a \in Addresses, Cancelled(a) PROVE RaceInv'
  <2>1. ~Ended /\ ~Ended'
    BY <1>10 DEF Cancelled, Closes, MainInv
  <2>2. TypeOK'
    BY <1>10 DEF Cancelled, Closes
  <2>3. OpenInv'
    BY <1>10, AddressAssumption DEF Cancelled, Closes, OpenInv
  <2>4. WinnerInv'
    BY <1>10, <2>1, AddressAssumption DEF Cancelled, Closes, WinnerInv
  <2>5. OverInv'
    BY <1>10 DEF Cancelled, Closes, OverInv, MainInv
  <2>6. MainInv'
    BY <1>10, <2>1 DEF Cancelled, Closes, MainInv
  <2> QED BY <2>1, <2>2, <2>3, <2>4, <2>5, <2>6 DEF OneSocketLeft
<1>11. ASSUME NEW a \in Addresses, Wins(a) PROVE RaceInv'
  <2>1. ~Ended /\ ~Ended'
    BY <1>11 DEF Wins, Closes, MainInv
  <2>2. CASE winner = NoAddress
    <3>1. /\ attempt[a] = "connected" /\ winner' = a /\ attempt' = [attempt EXCEPT ![a] = "over"]
          /\ UNCHANGED <<staggered, socket, failed, main, current, thrown>>
      BY <1>11, <2>2 DEF Wins
    <3>2. TypeOK'
      BY <3>1
    <3>3. OpenInv' /\ WinnerInv'
      BY <3>1, <2>2, AddressAssumption DEF OpenInv, WinnerInv
    <3>4. OverInv' /\ MainInv'
      BY <3>1, <2>1, AddressAssumption DEF OverInv, MainInv
    <3> QED BY <3>2, <3>3, <3>4, <2>1 DEF OneSocketLeft
  <2>3. CASE winner # NoAddress
    <3>1. /\ attempt[a] = "connected" /\ attempt' = [attempt EXCEPT ![a] = "over"]
          /\ socket' = [socket EXCEPT ![a] = "closed"]
          /\ UNCHANGED <<staggered, failed, winner, main, current, thrown>>
      BY <1>11, <2>3 DEF Wins, Closes
    <3>2. TypeOK'
      BY <3>1
    <3>3. OpenInv' /\ WinnerInv'
      BY <3>1, <2>3, <2>1, AddressAssumption DEF OpenInv, WinnerInv
    <3>4. OverInv' /\ MainInv'
      BY <3>1, <2>3, <2>1, AddressAssumption DEF OverInv, MainInv
    <3> QED BY <3>2, <3>3, <3>4, <2>1 DEF OneSocketLeft
  <2> QED BY <2>2, <2>3
<1>12. CASE UNCHANGED vars
  BY <1>12 DEF vars, OpenInv, WinnerInv, OverInv, MainInv, OneSocketLeft
<1> QED
  BY <1>1, <1>2, <1>3, <1>4, <1>5, <1>6, <1>7, <1>8, <1>9, <1>10, <1>11, <1>12 DEF Next, Main, Attempt

-----------------------------------------------------------------------------
(* The calls, and their time *)

Places == {"idle", "lock", "try", "select", "next", "eof", "close", "clear"}
Ops == {"send", "eof", "recv", "close"}

Record ==
  [pc : Places, op : Ops, left : Nat \cup {Inf}, wait : Nat \cup {Inf}, spent : Nat,
   allowed : Nat \cup {Inf}, todo : Int, chunk : Seq(Nat)]

\* What makes InTime inductive: nothing of the timeout is lost or counted twice.
OnTime(c) ==
  /\ c.allowed # Inf => c.left \in Nat /\ c.spent + c.left = c.allowed
  /\ c.pc = "select" /\ c.left # Inf => c.wait \in Nat /\ c.wait <= c.left

CallsOnTime ==
  /\ retry \in {1, Inf}
  /\ call \in [Threads -> Record]
  /\ \A t \in Threads : OnTime(call[t])

\* A call starts with the whole of its timeout (lock_with_timeout.__init__()).
LEMMA StartedOnTime ==
  ASSUME NEW op \in Ops, NEW timeout \in Timeouts \cup {0}, NEW todo \in Int
  PROVE  Started(op, timeout, todo) \in Record /\ OnTime(Started(op, timeout, todo))
<1>1. timeout \in Nat \cup {Inf}
  BY TimeoutAssumption
<1> DEFINE c == Started(op, timeout, todo)
<1>2. c \in Record
  <2>1. <<>> \in Seq(Nat)
    OBVIOUS
  <2> QED
    BY <1>1, <2>1 DEF Started, Record, Places
<1>3. c.pc = "lock" /\ c.left = timeout /\ c.allowed = timeout /\ c.spent = 0
  BY DEF Started
<1>4. OnTime(c)
  BY <1>1, <1>3 DEF OnTime
<1> QED
  BY <1>2, <1>4

\* No call takes no time.
LEMMA IdleOnTime == Idle \in Record /\ OnTime(Idle)
<1>1. Started("recv", 0, 0) \in Record
  <2>1. "recv" \in Ops
    BY DEF Ops
  <2> QED
    BY <2>1, StartedOnTime
<1>2. Idle \in Record
  BY <1>1 DEF Idle, Started, Record, Places
<1>3. Idle.pc = "idle" /\ Idle.allowed = 0 /\ Idle.left = 0 /\ Idle.spent = 0
  BY DEF Idle, Started
<1>4. OnTime(Idle)
  BY <1>3 DEF OnTime
<1> QED
  BY <1>2, <1>4

\* Clients begin on time (SelectorBaseTransport.__init__()).
LEMMA NoCallOnTime == NoCall => CallsOnTime
  BY IdleOnTime DEF NoCall, CallsOnTime

\* A thread that changes its call for one that is on time.
LEMMA CallChanges ==
  ASSUME CallsOnTime, NEW t \in Threads, NEW c \in Record, OnTime(c),
         call' = [call EXCEPT ![t] = c], retry' = retry
  PROVE  CallsOnTime'
<1>1. retry' \in {1, Inf} /\ call' \in [Threads -> Record]
  BY DEF CallsOnTime
<1>2. ASSUME NEW u \in Threads PROVE OnTime(call[u])'
  <2>1. OnTime(call[u]) /\ call'[u] = IF u = t THEN c ELSE call[u]
    BY DEF CallsOnTime
  <2> QED
    BY <2>1 DEF OnTime
<1> QED
  BY <1>1, <1>2 DEF CallsOnTime

\* A thread that goes on without waiting for the socket, its times as they were.
LEMMA GoesOnTime ==
  ASSUME CallsOnTime, NEW t \in Threads, NEW c \in Record, retry' = retry,
         c.pc # "select", c.left = call[t].left, c.spent = call[t].spent, c.allowed = call[t].allowed,
         call' = [call EXCEPT ![t] = c]
  PROVE  CallsOnTime'
<1>1. OnTime(call[t])
  BY DEF CallsOnTime
<1>2. OnTime(c)
  BY <1>1 DEF OnTime
<1> QED
  BY <1>2, CallChanges

\* The same, when only the place of the thread changes.
LEMMA MovesOnTime ==
  ASSUME CallsOnTime, NEW t \in Threads, NEW pc \in Places \ {"select"}, retry' = retry,
         call' = [call EXCEPT ![t].pc = pc]
  PROVE  CallsOnTime'
<1> DEFINE c == [call[t] EXCEPT !.pc = pc]
<1>1. call[t] \in Record
  BY DEF CallsOnTime
<1>2. c \in Record /\ c.pc # "select" /\ c.left = call[t].left /\ c.spent = call[t].spent
      /\ c.allowed = call[t].allowed
  BY <1>1 DEF Record
<1>3. call' = [call EXCEPT ![t] = c]
  OBVIOUS
<1> QED
  BY <1>2, <1>3, GoesOnTime

\* The end of a call (lock_with_timeout.__exit__()).
LEMMA ReturnOnTime ==
  ASSUME CallsOnTime, NEW t \in Threads, retry' = retry, Return(t)
  PROVE  CallsOnTime'
  BY IdleOnTime, CallChanges DEF Return

\* _retry() never waits for longer than what is left of the timeout.
LEMMA SelectOnTime ==
  ASSUME CallsOnTime, NEW t \in Threads, retry' = retry, Select(t)
  PROVE  CallsOnTime'
<1>1. CASE call[t].left = 0
  BY <1>1, ReturnOnTime DEF Select
<1>2. CASE call[t].left # 0
  <2> DEFINE c == [call[t] EXCEPT !.pc = "select", !.wait = WaitTime(call[t].left)]
  <2>1. call[t] \in Record /\ OnTime(call[t]) /\ retry \in {1, Inf} /\ Inf \notin Nat
    BY TimeoutAssumption DEF CallsOnTime
  <2>2. /\ WaitTime(call[t].left) \in Nat \cup {Inf}
        /\ call[t].left # Inf => WaitTime(call[t].left) \in Nat /\ WaitTime(call[t].left) <= call[t].left
    BY <2>1 DEF WaitTime, Record
  <2>3. c \in Record /\ OnTime(c)
    <3>1. c \in Record
      BY <2>1, <2>2 DEF Record, Places
    <3>2. c.pc = "select" /\ c.left = call[t].left /\ c.wait = WaitTime(call[t].left)
          /\ c.spent = call[t].spent /\ c.allowed = call[t].allowed
      BY <2>1 DEF Record
    <3> QED
      BY <2>1, <2>2, <3>1, <3>2 DEF OnTime
  <2>4. call' = [call EXCEPT ![t] = c]
    BY <1>2 DEF Select
  <2> QED
    BY <2>3, <2>4, CallChanges
<1> QED
  BY <1>1, <1>2

\* The selector wakes up, for the socket or at the end of its wait.
LEMMA SelectedOnTime ==
  ASSUME CallsOnTime, NEW t \in Threads, retry' = retry, NEW ready, Selected(t, ready)
  PROVE  CallsOnTime'
<1>1. CASE Return(t)
  BY <1>1, ReturnOnTime
<1>2. CASE Goes(t, "try")
  BY <1>2, MovesOnTime DEF Goes, Places
<1> QED
  BY <1>1, <1>2 DEF Selected

\* A tick is taken off what is left of every timeout, by the threads that wait for a
\* lock and by those that wait in a selector (ElapsedTime.recompute_timeout()).
LEMMA TickOnTime ==
  ASSUME CallsOnTime, NEW ready, \A t \in Threads : Waits(t, ready[t]), TickCalls, retry' = retry
  PROVE  CallsOnTime'
<1>1. ASSUME NEW t \in Threads PROVE call'[t] \in Record /\ OnTime(call[t])'
  <2>1. call[t] \in Record /\ OnTime(call[t]) /\ Inf \notin Nat
    BY TimeoutAssumption DEF CallsOnTime
  <2>2. CASE call[t] = Idle
    <3>1. call'[t] = Idle
      BY <2>2 DEF TickCalls
    <3> QED
      BY <3>1, IdleOnTime DEF OnTime
  <2>3. CASE call[t] # Idle
    <3> DEFINE c == call[t]
    <3>1. /\ call'[t] = AfterTick(c)
          /\ c.pc \in {"lock", "select"}
          /\ c.pc = "lock" => c.left # 0
          /\ c.pc = "select" => c.wait # 0
      BY <2>3 DEF TickCalls, Waits, At
    <3>2. c.left # Inf => c.left \in Nat /\ c.left - 1 \in Nat
      BY <2>1, <3>1 DEF Record, OnTime
    <3>3. AfterTick(c) =
            [c EXCEPT !.left = Less(c.left), !.wait = IF c.pc = "select" THEN Less(c.wait) ELSE c.wait,
                      !.spent = IF c.allowed = Inf THEN c.spent ELSE c.spent + 1]
      BY <3>1 DEF AfterTick, Recompute
    <3>4. c.pc = "select" => Less(c.wait) \in Nat \cup {Inf}
      BY <2>1, <3>1 DEF Less, Record
    <3>5. Less(c.left) \in Nat \cup {Inf}
      BY <2>1, <3>2 DEF Less, Record
    <3> DEFINE d == AfterTick(c)
    <3>6. d \in Record
      <4> DEFINE w == IF c.pc = "select" THEN Less(c.wait) ELSE c.wait
                 s == IF c.allowed = Inf THEN c.spent ELSE c.spent + 1
      <4>1. w \in Nat \cup {Inf} /\ s \in Nat /\ Less(c.left) \in Nat \cup {Inf}
        BY <2>1, <3>4, <3>5 DEF Record
      <4>2. d = [c EXCEPT !.left = Less(c.left), !.wait = w, !.spent = s]
        BY <3>3
      <4> HIDE DEF w, s, d
      <4> QED
        BY <2>1, <4>1, <4>2 DEF Record
    <3>7. /\ d.pc = c.pc /\ d.allowed = c.allowed /\ d.left = Less(c.left)
          /\ d.wait = IF c.pc = "select" THEN Less(c.wait) ELSE c.wait
          /\ d.spent = IF c.allowed = Inf THEN c.spent ELSE c.spent + 1
      BY <2>1, <3>3 DEF Record
    <3>8. d.allowed # Inf => d.left \in Nat /\ d.spent + d.left = d.allowed
      <4> SUFFICES ASSUME c.allowed # Inf PROVE d.left \in Nat /\ d.spent + d.left = d.allowed
        BY <3>7
      <4>1. c.left \in Nat /\ c.spent \in Nat /\ c.spent + c.left = c.allowed /\ c.left # Inf
        BY <2>1 DEF Record, OnTime
      <4>2. d.left = c.left - 1 /\ d.left \in Nat /\ d.spent = c.spent + 1 /\ d.allowed = c.allowed
        BY <3>2, <3>7, <4>1 DEF Less
      <4> HIDE DEF c, d
      <4> QED
        BY <4>1, <4>2
    <3>9. d.pc = "select" /\ d.left # Inf => d.wait \in Nat /\ d.wait <= d.left
      BY <2>1, <3>1, <3>2, <3>7 DEF Record, OnTime, Less
    <3> QED
      BY <3>1, <3>6, <3>8, <3>9 DEF OnTime
  <2> QED
    BY <2>2, <2>3
<1>2. call' = [t \in Threads |-> call'[t]]
  BY DEF TickCalls
<1> QED
  BY <1>1, <1>2 DEF CallsOnTime

\* What is left is never negative: no call is over its time.
LEMMA CallsInTime == CallsOnTime => InTime
<1> SUFFICES ASSUME CallsOnTime, NEW t \in Threads, call[t].allowed # Inf
             PROVE  call[t].spent <= call[t].allowed
  BY DEF InTime
<1>1. call[t] \in Record /\ OnTime(call[t])
  BY DEF CallsOnTime
<1> QED
  BY <1>1 DEF Record, OnTime

-----------------------------------------------------------------------------
(* The locks of the calls *)

\* A call is past its lock.
Held(c) == c.pc \notin {"idle", "lock"}

\* Who is past a lock has it, and nobody else: the receivers one, the others the other.
HoldInv ==
  /\ recvLock \in Threads \cup {NoThread} /\ sendLock \in Threads \cup {NoThread}
  /\ \A t \in Threads :
       /\ recvLock = t <=> Held(call[t]) /\ call[t].op = "recv"
       /\ sendLock = t <=> Held(call[t]) /\ call[t].op # "recv"

\* Bytes are with a call only when it is about to give them to the consumer.
CallOK(c) ==
  /\ c.todo \in 0..2
  /\ c.chunk # <<>> => c.pc = "next"
  /\ c.pc = "next" => c.op = "recv"

CallsInv == CallsOnTime /\ HoldInv /\ \A t \in Threads : CallOK(call[t])

\* A call that goes on keeps its lock.
LEMMA StaysInv ==
  ASSUME CallsInv, CallsOnTime', NEW t \in Threads, NEW c \in Record, call' = [call EXCEPT ![t] = c], UNCHANGED locks,
         c.op = call[t].op, Held(c) <=> Held(call[t]), CallOK(c)
  PROVE  CallsInv'
<1>1. \A u \in Threads : call'[u] = IF u = t THEN c ELSE call[u]
  BY DEF CallsInv, CallsOnTime
<1>2. HoldInv'
  BY <1>1 DEF CallsInv, HoldInv, Held, locks
<1>3. \A u \in Threads : CallOK(call'[u])
  BY <1>1 DEF CallsInv
<1> QED BY <1>2, <1>3 DEF CallsInv, CallOK

\* A call that ends leaves its lock, if it has it.
LEMMA ReturnInv ==
  ASSUME CallsInv, CallsOnTime', NEW t \in Threads, Return(t)
  PROVE  CallsInv'
<1>1. \A u \in Threads : call'[u] = IF u = t THEN Idle ELSE call[u]
  BY DEF CallsInv, CallsOnTime, Return
<1>2. Idle.pc = "idle" /\ Idle.op = "recv" /\ Idle.todo = 0 /\ Idle.chunk = <<>>
  BY DEF Idle, Started
<1>3. HoldInv'
  BY <1>1, <1>2, ThreadAssumption DEF CallsInv, HoldInv, Held, Return
<1>4. \A u \in Threads : CallOK(call'[u])
  BY <1>1, <1>2 DEF CallsInv, CallOK
<1> QED BY <1>3, <1>4 DEF CallsInv, CallOK

\* lock_with_timeout.__enter__() finds the lock free.
LEMMA TakeLockInv ==
  ASSUME CallsInv, CallsOnTime', NEW t \in Threads, NEW pc \in Places \ {"idle", "lock", "next"},
         At(t, "lock"), Free(t), TakeLock(t, pc)
  PROVE  CallsInv'
<1> DEFINE c == [call[t] EXCEPT !.pc = pc]
<1>1. call[t] \in Record /\ c.pc = pc /\ c.op = call[t].op /\ c.todo = call[t].todo /\ c.chunk = call[t].chunk
  BY DEF CallsInv, CallsOnTime, Record
<1>2. \A u \in Threads : call'[u] = IF u = t THEN c ELSE call[u]
  BY DEF CallsInv, CallsOnTime, TakeLock
<1>3. CallOK(call[t]) /\ call[t].pc = "lock"
  BY DEF CallsInv, At
<1> HIDE DEF c
<1>4. HoldInv'
  <2>1. \A u \in Threads : u # NoThread
    BY ThreadAssumption
  <2> QED BY <1>1, <1>2, <1>3, <2>1 DEF CallsInv, HoldInv, Held, TakeLock, Free, Receives
<1>5. \A u \in Threads : CallOK(call'[u])
  BY <1>1, <1>2, <1>3 DEF CallsInv, CallOK
<1> QED BY <1>4, <1>5 DEF CallsInv, CallOK

\* A call begins without its lock.
LEMMA StartedInv ==
  ASSUME CallsInv, CallsOnTime', NEW t \in Threads, NEW op, NEW timeout, NEW todo \in 0..2, call[t] = Idle,
         call' = [call EXCEPT ![t] = Started(op, timeout, todo)], UNCHANGED locks
  PROVE  CallsInv'
<1> DEFINE c == Started(op, timeout, todo)
<1>1. \A u \in Threads : call'[u] = IF u = t THEN c ELSE call[u]
  BY DEF CallsInv, CallsOnTime
<1>2. call[t].pc = "idle" /\ c.pc = "lock" /\ c.todo = todo /\ c.chunk = <<>>
  BY DEF Idle, Started
<1> HIDE DEF c
<1>3. HoldInv'
  BY <1>1, <1>2 DEF CallsInv, HoldInv, Held, locks
<1>4. \A u \in Threads : CallOK(call'[u])
  BY <1>1, <1>2 DEF CallsInv, CallOK
<1> QED BY <1>3, <1>4 DEF CallsInv, CallOK

\* The wait in the selector, and its end.
LEMMA SelectInv ==
  ASSUME CallsInv, CallsOnTime', NEW t \in Threads, At(t, "try"), Select(t)
  PROVE  CallsInv'
<1>1. CASE Return(t)
  BY <1>1, ReturnInv
<1>2. CASE call' = [call EXCEPT ![t].pc = "select", ![t].wait = WaitTime(call[t].left)] /\ UNCHANGED locks
  <2> DEFINE c == [call[t] EXCEPT !.pc = "select", !.wait = WaitTime(call[t].left)]
  <2>1. call[t] \in Record /\ call'[t] \in Record /\ call'[t] = c /\ call' = [call EXCEPT ![t] = c]
    BY <1>2 DEF CallsInv, CallsOnTime
  <2>2. c.pc = "select" /\ c.op = call[t].op /\ c.todo = call[t].todo /\ c.chunk = call[t].chunk
    BY <2>1 DEF Record
  <2>3. CallOK(call[t]) /\ call[t].pc = "try"
    BY DEF CallsInv, At
  <2> HIDE DEF c
  <2>4. Held(c) <=> Held(call[t])
    BY <2>2, <2>3 DEF Held
  <2>5. CallOK(c)
    BY <2>2, <2>3 DEF CallOK
  <2> QED BY <1>2, <2>1, <2>2, <2>4, <2>5, StaysInv
<1> QED BY <1>1, <1>2 DEF Select

\* A call past its lock that goes to another place, which is not the consumer.
LEMMA GoesInv ==
  ASSUME CallsInv, CallsOnTime', NEW t \in Threads, NEW pc \in Places \ {"idle", "lock", "next"},
         Held(call[t]), call[t].chunk = <<>>, Goes(t, pc)
  PROVE  CallsInv'
<1> DEFINE c == [call[t] EXCEPT !.pc = pc]
<1>1. call[t] \in Record /\ c \in Record /\ call' = [call EXCEPT ![t] = c]
  BY DEF CallsInv, CallsOnTime, Record, Goes
<1>2. c.pc = pc /\ c.op = call[t].op /\ c.todo = call[t].todo /\ c.chunk = call[t].chunk
  BY <1>1 DEF Record
<1>3. CallOK(call[t]) /\ UNCHANGED locks
  BY DEF CallsInv, Goes
<1> HIDE DEF c
<1>4. Held(c) /\ CallOK(c)
  BY <1>2, <1>3 DEF Held, CallOK
<1> QED BY <1>1, <1>2, <1>3, <1>4, StaysInv

LEMMA SelectedInv ==
  ASSUME CallsInv, CallsOnTime', NEW t \in Threads, NEW ready, Selected(t, ready)
  PROVE  CallsInv'
<1>1. CASE Return(t)
  BY <1>1, ReturnInv
<1>2. CASE Goes(t, "try")
  <2>1. "try" \in Places \ {"idle", "lock", "next"}
    BY DEF Places
  <2>2. Held(call[t]) /\ call[t].chunk = <<>>
    BY DEF Selected, At, Held, CallsInv, CallOK
  <2> QED BY <1>2, <2>1, <2>2, GoesInv
<1> QED BY <1>1, <1>2 DEF Selected

\* A tick moves nobody.
LEMMA TickInv ==
  ASSUME CallsInv, CallsOnTime', TickCalls
  PROVE  /\ CallsInv'
         /\ \A t \in Threads : call'[t].pc = call[t].pc /\ call'[t].op = call[t].op
                               /\ call'[t].todo = call[t].todo /\ call'[t].chunk = call[t].chunk
<1>1. ASSUME NEW t \in Threads
      PROVE  call'[t].pc = call[t].pc /\ call'[t].op = call[t].op /\ call'[t].todo = call[t].todo
             /\ call'[t].chunk = call[t].chunk
  <2>1. call'[t] = IF call[t] = Idle THEN Idle ELSE AfterTick(call[t])
    BY DEF TickCalls
  <2>2. call[t] \in Record
    BY DEF CallsInv, CallsOnTime
  <2> QED BY <2>1, <2>2 DEF AfterTick, Record
<1>2. HoldInv'
  BY <1>1 DEF CallsInv, HoldInv, Held, TickCalls, locks
<1>3. \A t \in Threads : CallOK(call'[t])
  BY <1>1 DEF CallsInv, CallOK
<1>4. CallsInv'
  BY <1>2, <1>3 DEF CallsInv, CallOK
<1> QED BY <1>1, <1>4

LEMMA NoCallInv == NoCall => CallsInv
<1> SUFFICES ASSUME NoCall PROVE CallsInv
  OBVIOUS
<1>1. CallsOnTime
  BY NoCallOnTime
<1>2. \A t \in Threads : call[t] = Idle
  BY DEF NoCall
<1>3. Idle.pc = "idle" /\ Idle.op = "recv" /\ Idle.todo = 0 /\ Idle.chunk = <<>>
  BY DEF Idle, Started
<1>4. HoldInv
  BY <1>2, <1>3, ThreadAssumption DEF NoCall, HoldInv, Held
<1>5. \A t \in Threads : CallOK(call[t])
  BY <1>2, <1>3 DEF CallOK
<1> QED BY <1>1, <1>4, <1>5 DEF CallsInv

LEMMA CallsTypes == CallsInv => CallsTypeOK
<1> SUFFICES ASSUME CallsInv PROVE CallsTypeOK
  OBVIOUS
<1>1. ASSUME NEW t \in Threads
      PROVE  /\ call[t].pc \in Places /\ call[t].op \in Ops /\ call[t].todo \in 0..2
             /\ call[t].left \in Nat \cup {Inf} /\ call[t].wait \in Nat \cup {Inf} /\ call[t].allowed \in Nat \cup {Inf}
             /\ call[t].pc \notin {"idle", "lock"} => t = IF Receives(t) THEN recvLock ELSE sendLock
  BY DEF CallsInv, CallsOnTime, Record, HoldInv, Held, CallOK, Receives
<1>2. sendLock \in Threads \cup {NoThread} /\ recvLock \in Threads \cup {NoThread}
  BY DEF CallsInv, HoldInv
<1> QED BY <1>1, <1>2 DEF CallsTypeOK, Places, Ops

-----------------------------------------------------------------------------
(* The blocking TCP client *)

\* Both clients have the calls that are above.
LEMMA BlockingCalls ==
  /\ Blocking!Idle = Idle
  /\ \A op, timeout, todo : Blocking!Started(op, timeout, todo) = Started(op, timeout, todo)
  /\ Blocking!NoCall <=> NoCall
  /\ \A t, pc : Blocking!At(t, pc) <=> At(t, pc)
  /\ \A t, pc : Blocking!Goes(t, pc) <=> Goes(t, pc)
  /\ \A t : Blocking!Receives(t) <=> Receives(t)
  /\ \A t : Blocking!Free(t) <=> Free(t)
  /\ \A t, pc : Blocking!TakeLock(t, pc) <=> TakeLock(t, pc)
  /\ \A t : Blocking!Return(t) <=> Return(t)
  /\ \A t : Blocking!LockTimeout(t) <=> LockTimeout(t)
  /\ \A t : Blocking!Select(t) <=> Select(t)
  /\ \A t, ready : Blocking!Selected(t, ready) <=> Selected(t, ready)
  /\ \A t, ready : Blocking!Waits(t, ready) <=> Waits(t, ready)
  /\ Blocking!TickCalls <=> TickCalls
  /\ Blocking!CallsTypeOK <=> CallsTypeOK
<1> USE DEF Blocking!locks, locks, Blocking!At, At
<1>1. Blocking!Idle = Idle /\ \A op, timeout, todo : Blocking!Started(op, timeout, todo) = Started(op, timeout, todo)
  BY DEF Blocking!Idle, Idle, Blocking!Started, Started
<1>2. Blocking!NoCall <=> NoCall
  BY <1>1 DEF Blocking!NoCall, NoCall
<1>3. \A t : Blocking!Receives(t) <=> Receives(t)
  BY DEF Blocking!Receives, Receives
<1>4. \A t : Blocking!Free(t) <=> Free(t)
  BY <1>3 DEF Blocking!Free, Free
<1>5. \A t, pc : Blocking!TakeLock(t, pc) <=> TakeLock(t, pc)
  BY <1>3 DEF Blocking!TakeLock, TakeLock
<1>6. \A t : Blocking!Return(t) <=> Return(t)
  BY <1>1 DEF Blocking!Return, Return
<1>7. \A t, pc : Blocking!Goes(t, pc) <=> Goes(t, pc)
  BY DEF Blocking!Goes, Goes
<1>8. \A t : Blocking!LockTimeout(t) <=> LockTimeout(t)
  BY <1>4, <1>6 DEF Blocking!LockTimeout, LockTimeout
<1>9. \A t : Blocking!Select(t) <=> Select(t)
  BY <1>6 DEF Blocking!Select, Select, Blocking!WaitTime, WaitTime
<1>10. \A t, ready : Blocking!Selected(t, ready) <=> Selected(t, ready)
  BY <1>6, <1>7 DEF Blocking!Selected, Selected
<1>11. \A t, ready : Blocking!Waits(t, ready) <=> Waits(t, ready)
  BY <1>1, <1>4 DEF Blocking!Waits, Waits
<1>12. Blocking!TickCalls <=> TickCalls
  BY <1>1 DEF Blocking!TickCalls, TickCalls, Blocking!AfterTick, AfterTick, Blocking!Recompute, Recompute,
              Blocking!Less, Less
<1>13. Blocking!CallsTypeOK <=> CallsTypeOK
  BY <1>3 DEF Blocking!CallsTypeOK, CallsTypeOK
<1>14. \A t, pc : Blocking!At(t, pc) <=> At(t, pc)
  OBVIOUS
<1> QED BY <1>1, <1>2, <1>3, <1>4, <1>5, <1>6, <1>7, <1>8, <1>9, <1>10, <1>11, <1>12, <1>13, <1>14

TcpTypes ==
  /\ arrived \in 0..(2 * Packets) /\ inbox \in Seq(Nat)
  /\ eof \in BOOLEAN /\ room \in BOOLEAN /\ eofSent \in BOOLEAN /\ clientSocket \in {"open", "closed"}
  /\ consumer \in Seq(Nat) /\ seen \in Seq(Seq(Nat))

\* What a call has to do where it is; a close() clears the consumer when the socket is closed.
TcpCall(c) ==
  /\ c.pc # "idle" /\ c.op = "send" => c.todo \in {1, 2}
  /\ c.pc \in {"try", "select"} => c.op \in {"send", "recv"}
TcpCalls == \A t \in Threads : TcpCall(call[t]) /\ (call[t].pc = "clear" => clientSocket = "closed")

\* The bytes that arrived and that no packet took yet, m of them in all and n packets.
Rest(n, m) == [i \in 1..(m - 2 * n) |-> 2 * n + i]

\* Those that were received and not yet given to the consumer.
InFlight == IF recvLock = NoThread THEN <<>> ELSE call[recvLock].chunk

BytesInv ==
  clientSocket = "open" =>
    /\ 2 * Len(seen) <= arrived /\ Blocking!InOrder
    /\ consumer \o InFlight \o inbox = Rest(Len(seen), arrived)

TcpInv == CallsInv /\ TcpTypes /\ TcpCalls /\ BytesInv

\* Only the thread that is about to give them to the consumer has bytes.
WhoHasBytes ==
  /\ InFlight \in Seq(Nat)
  /\ \A t \in Threads : call[t].pc = "next" => recvLock = t /\ InFlight = call[t].chunk
  /\ (\A t \in Threads : call[t].pc # "next") => InFlight = <<>>

LEMMA BytesInFlight == CallsInv => WhoHasBytes
<1> SUFFICES ASSUME CallsInv PROVE WhoHasBytes
  OBVIOUS
<1> USE DEF CallsInv
<1>1. <<>> \in Seq(Nat)
  OBVIOUS
<1>2. ASSUME NEW t \in Threads PROVE call[t].chunk \in Seq(Nat) /\ t # NoThread
  BY <1>2, ThreadAssumption DEF CallsOnTime, Record
<1>3. InFlight \in Seq(Nat)
  BY <1>1, <1>2 DEF InFlight, HoldInv
<1>4. ASSUME NEW t \in Threads, call[t].pc = "next" PROVE recvLock = t /\ InFlight = call[t].chunk
  <2>1. CallOK(call[t])
    BY <1>4
  <2>2. recvLock = t
    BY <1>4, <2>1 DEF HoldInv, Held, CallOK
  <2> QED BY <1>2, <2>2 DEF InFlight
<1>5. ASSUME \A t \in Threads : call[t].pc # "next" PROVE InFlight = <<>>
  BY <1>5 DEF InFlight, HoldInv, CallOK
<1> QED BY <1>3, <1>4, <1>5 DEF WhoHasBytes

\* A step that moves one thread, none of whose bytes are in flight before or after it.
LEMMA TcpMoves ==
  ASSUME TcpInv, CallsInv', TcpTypes', NEW t \in Threads,
         UNCHANGED <<arrived, inbox, consumer, seen>>, clientSocket' = clientSocket \/ clientSocket' = "closed",
         \A u \in Threads \ {t} : call'[u] = call[u],
         TcpCall(call'[t]), call'[t].pc = "clear" => clientSocket' = "closed",
         call[t].pc # "next", call'[t].pc # "next"
  PROVE  TcpInv'
<1>1. TcpCalls'
  <2>1. ASSUME NEW u \in Threads
        PROVE  TcpCall(call'[u]) /\ (call'[u].pc = "clear" => clientSocket' = "closed")
    <3>1. CASE u = t
      BY <3>1
    <3>2. CASE u # t
      BY <3>2 DEF TcpInv, TcpCalls
    <3> QED BY <3>1, <3>2
  <2> QED BY <2>1 DEF TcpCalls, TcpCall
<1>2. WhoHasBytes /\ WhoHasBytes'
  <2>1. CallsInv' => WhoHasBytes'
    BY BytesInFlight, PTL
  <2> QED BY <2>1, BytesInFlight DEF TcpInv
<1>3. InFlight' = InFlight
  <2>1. CASE \E u \in Threads : call[u].pc = "next"
    <3>1. PICK u \in Threads : call[u].pc = "next" /\ call'[u].pc = "next" /\ call'[u] = call[u]
      BY <2>1
    <3> QED BY <1>2, <3>1 DEF WhoHasBytes
  <2>2. CASE \A u \in Threads : call[u].pc # "next"
    <3>1. \A u \in Threads : call'[u].pc # "next"
      BY <2>2
    <3> QED BY <1>2, <2>2, <3>1 DEF WhoHasBytes
  <2> QED BY <2>1, <2>2
<1>4. BytesInv'
  BY <1>3 DEF TcpInv, BytesInv, Blocking!InOrder, TcpTypes
<1> QED BY <1>1, <1>4 DEF TcpInv

\* A call that ends with nothing in flight.
LEMMA TcpReturns ==
  ASSUME TcpInv, TcpTypes', NEW t \in Threads, Return(t), call[t].pc # "next", retry' = retry,
         UNCHANGED <<arrived, inbox, clientSocket, consumer, seen>>
  PROVE  TcpInv'
<1>1. CallsInv'
  <2>1. CallsOnTime'
    BY ReturnOnTime DEF TcpInv, CallsInv
  <2> QED BY <2>1, ReturnInv DEF TcpInv
<1>2. call'[t] = Idle /\ \A u \in Threads \ {t} : call'[u] = call[u]
  BY DEF Return, TcpInv, CallsInv, CallsOnTime
<1>3. TcpCall(call'[t]) /\ call'[t].pc = "idle"
  BY <1>2 DEF TcpCall, Idle, Started
<1> QED BY <1>1, <1>2, <1>3, TcpMoves

\* The wait of a receiver or of a sender.
LEMMA TcpSelects ==
  ASSUME TcpInv, TcpTypes', NEW t \in Threads, At(t, "try"), Select(t), retry' = retry,
         UNCHANGED <<arrived, inbox, clientSocket, consumer, seen>>
  PROVE  TcpInv'
<1>1. CASE Return(t)
  BY <1>1, TcpReturns DEF At
<1>2. CASE call' = [call EXCEPT ![t].pc = "select", ![t].wait = WaitTime(call[t].left)]
  <2>1. CallsOnTime'
    BY SelectOnTime DEF TcpInv, CallsInv
  <2>2. CallsInv'
    BY <2>1, SelectInv DEF TcpInv
  <2>3. /\ call'[t].pc = "select" /\ call'[t].op = call[t].op /\ call'[t].todo = call[t].todo
        /\ \A u \in Threads \ {t} : call'[u] = call[u]
    BY <1>2 DEF TcpInv, CallsInv, CallsOnTime, Record
  <2>4. TcpCall(call'[t])
    BY <2>3 DEF TcpInv, TcpCalls, TcpCall, At
  <2> QED BY <2>2, <2>3, <2>4, TcpMoves DEF At
<1> QED BY <1>1, <1>2 DEF Select

\* Sequences of bytes: what the arithmetic of the stream rests on.
LEMMA RestProperties ==
  ASSUME NEW n \in Nat, NEW m \in Nat, 2 * n <= m
  PROVE  /\ Rest(n, m) \in Seq(Nat) /\ Len(Rest(n, m)) = m - 2 * n
         /\ \A i \in 1..(m - 2 * n) : Rest(n, m)[i] = 2 * n + i
         /\ Append(Rest(n, m), m + 1) = Rest(n, m + 1)
<1> DEFINE r == Rest(n, m)
<1>1. m - 2 * n \in Nat /\ r = [i \in 1..(m - 2 * n) |-> 2 * n + i]
  BY DEF Rest
<1>2. r \in [1..(m - 2 * n) -> Nat]
  BY <1>1
<1> HIDE DEF r
<1>3. r \in Seq(Nat)
  BY <1>1, <1>2, SeqDef
<1>4. Len(r) = m - 2 * n
  BY <1>1, <1>2, <1>3, LenProperties
<1>5. \A i \in 1..(m - 2 * n) : r[i] = 2 * n + i
  BY <1>1
<1>6. Append(r, m + 1) = Rest(n, m + 1)
  <2> DEFINE q == Rest(n, m + 1)
             a == Append(r, m + 1)
  <2>1. q = [i \in 1..(m + 1 - 2 * n) |-> 2 * n + i] /\ m + 1 - 2 * n \in Nat
    BY <1>1 DEF Rest
  <2>2. q \in [1..(m + 1 - 2 * n) -> Nat]
    BY <2>1
  <2> HIDE DEF q
  <2>3. q \in Seq(Nat) /\ Len(q) = m + 1 - 2 * n
    <3>1. q \in Seq(Nat)
      BY <2>1, <2>2, SeqDef
    <3> QED BY <2>1, <2>2, <3>1, LenProperties
  <2>4. /\ a \in Seq(Nat) /\ Len(a) = Len(r) + 1 /\ a[Len(r) + 1] = m + 1
        /\ \A i \in 1..Len(r) : a[i] = r[i]
    BY <1>3, AppendProperties
  <2> HIDE DEF a
  <2>5. ASSUME NEW i \in 1..(m + 1 - 2 * n) PROVE a[i] = q[i]
    <3>1. q[i] = 2 * n + i
      BY <2>1
    <3>2. CASE i \in 1..(m - 2 * n)
      BY <1>4, <1>5, <2>4, <3>1, <3>2
    <3>3. CASE i = m - 2 * n + 1
      BY <1>4, <2>4, <3>1, <3>3
    <3> QED BY <3>2, <3>3
  <2>6. Len(a) = Len(q) /\ \A i \in 1..Len(a) : a[i] = q[i]
    BY <1>4, <2>3, <2>4, <2>5
  <2>7. a = q
    BY <2>3, <2>4, <2>6, SeqEqual
  <2> QED BY <2>7 DEF a, q
<1> QED BY <1>3, <1>4, <1>5, <1>6 DEF r

\* A packet taken off the front of the stream is the next one of the peer.
LEMMA NextPacket ==
  ASSUME NEW n \in Nat, NEW m \in Nat, 2 * n <= m, NEW b \in Seq(Nat), NEW r \in Seq(Nat),
         b \o r = Rest(n, m), Len(b) >= 2
  PROVE  /\ SubSeq(b, 1, 2) \in Seq(Nat) /\ SubSeq(b, 3, Len(b)) \in Seq(Nat)
         /\ SubSeq(b, 1, 2) = <<2 * (n + 1) - 1, 2 * (n + 1)>>
         /\ 2 * (n + 1) <= m /\ SubSeq(b, 3, Len(b)) \o r = Rest(n + 1, m)
<1> DEFINE p == SubSeq(b, 1, 2)
           q == SubSeq(b, 3, Len(b))
           all == b \o r
<1>1. Len(b) \in Nat /\ Len(r) \in Nat
  BY LenProperties
<1>2. /\ all \in Seq(Nat) /\ Len(all) = Len(b) + Len(r) /\ all = Rest(n, m)
      /\ \A i \in 1..(Len(b) + Len(r)) : all[i] = IF i <= Len(b) THEN b[i] ELSE r[i - Len(b)]
  BY ConcatProperties
<1> HIDE DEF all
<1>3. Len(b) + Len(r) = m - 2 * n /\ \A i \in 1..(Len(b) + Len(r)) : all[i] = 2 * n + i
  <2>1. Len(Rest(n, m)) = m - 2 * n /\ \A i \in 1..(m - 2 * n) : Rest(n, m)[i] = 2 * n + i
    BY RestProperties
  <2> QED BY <1>2, <2>1
<1>4. 2 * (n + 1) <= m /\ n + 1 \in Nat
  BY <1>1, <1>3
<1>5. /\ q \in Seq(Nat) /\ Len(q) = Len(b) - 2 /\ \A i \in 1..(Len(b) - 2) : q[i] = b[i + 2]
  <2>1. 3 \in 1..(Len(b) + 1) /\ Len(b) \in (3 - 1)..Len(b)
    BY <1>1
  <2>2. /\ q \in Seq(Nat) /\ Len(q) = IF 3 <= Len(b) THEN Len(b) - 3 + 1 ELSE 0
        /\ \A i \in 1..(Len(b) - 3 + 1) : q[i] = b[3 + i - 1]
    BY <2>1, SubSeqProperties
  <2> HIDE DEF q
  <2>3. Len(q) = Len(b) - 2
    <3>1. CASE 3 <= Len(b)
      BY <1>1, <2>2, <3>1
    <3>2. CASE ~(3 <= Len(b))
      <4>1. \A k \in Nat : k >= 2 /\ ~(3 <= k) => k = 2
        OBVIOUS
      <4>2. Len(b) = 2
        BY <1>1, <3>2, <4>1
      <4> QED BY <2>2, <3>2, <4>2
    <3> QED BY <3>1, <3>2
  <2>4. ASSUME NEW i \in 1..(Len(b) - 2) PROVE q[i] = b[i + 2]
    <3>1. i \in 1..(Len(b) - 3 + 1) /\ 3 + i - 1 = i + 2
      BY <1>1
    <3> QED BY <2>2, <3>1
  <2> QED BY <2>2, <2>3, <2>4
<1>6. /\ p \in Seq(Nat) /\ Len(p) = 2 /\ p[1] = b[1] /\ p[2] = b[2]
  BY <1>1, SubSeqProperties
<1> HIDE DEF p, q
<1>7. p = <<2 * (n + 1) - 1, 2 * (n + 1)>>
  <2>1. b[1] = 2 * n + 1 /\ b[2] = 2 * n + 2
    <3>1. 1 \in 1..(Len(b) + Len(r)) /\ 2 \in 1..(Len(b) + Len(r)) /\ 1 <= Len(b) /\ 2 <= Len(b)
      BY <1>1
    <3> QED BY <1>2, <1>3, <3>1
  <2>2. <<b[1], b[2]>> \in Seq(Nat) /\ Len(<<b[1], b[2]>>) = 2
    BY <2>1
  <2>3. \A i \in 1..2 : p[i] = <<b[1], b[2]>>[i]
    BY <1>6
  <2>4. p = <<b[1], b[2]>>
    BY <1>6, <2>2, <2>3, SeqEqual
  <2> QED BY <2>1, <2>4
<1>8. q \o r = Rest(n + 1, m)
  <2> DEFINE s == q \o r
             w == Rest(n + 1, m)
  <2>1. /\ s \in Seq(Nat) /\ Len(s) = Len(q) + Len(r)
        /\ \A i \in 1..(Len(q) + Len(r)) : s[i] = IF i <= Len(q) THEN q[i] ELSE r[i - Len(q)]
    BY <1>5, ConcatProperties
  <2>2. w \in Seq(Nat) /\ Len(w) = m - 2 * (n + 1) /\ \A i \in 1..(m - 2 * (n + 1)) : w[i] = 2 * (n + 1) + i
    BY <1>4, RestProperties
  <2> HIDE DEF s, w
  <2>3. Len(s) = Len(w)
    <3>1. Len(q) + Len(r) = m - 2 * n - 2
      BY <1>1, <1>3, <1>5
    <3>2. m - 2 * n - 2 = m - 2 * (n + 1)
      OBVIOUS
    <3> QED BY <2>1, <2>2, <3>1, <3>2
  <2>4. ASSUME NEW i \in 1..Len(s) PROVE s[i] = w[i]
    <3>1. i + 2 \in 1..(Len(b) + Len(r)) /\ w[i] = 2 * n + (i + 2)
      BY <1>1, <1>3, <1>5, <2>1, <2>2, <2>3
    <3>2. s[i] = IF i + 2 <= Len(b) THEN b[i + 2] ELSE r[i + 2 - Len(b)]
      <4>1. s[i] = IF i <= Len(q) THEN q[i] ELSE r[i - Len(q)]
        BY <2>1
      <4>2. i \in Nat \ {0} /\ Len(q) = Len(b) - 2 /\ Len(b) \in Nat
        BY <1>1, <1>5, <2>1
      <4>3. (i <= Len(q) <=> i + 2 <= Len(b)) /\ i - Len(q) = i + 2 - Len(b)
        BY <4>2
      <4>4. i <= Len(q) => q[i] = b[i + 2]
        <5>1. i <= Len(q) => i \in 1..(Len(b) - 2)
          BY <4>2
        <5> QED BY <1>5, <5>1
      <4> QED BY <4>1, <4>3, <4>4
    <3>3. all[i + 2] = s[i]
      <4>1. \A j \in 1..(Len(b) + Len(r)) : all[j] = IF j <= Len(b) THEN b[j] ELSE r[j - Len(b)]
        BY <1>2
      <4> QED BY <3>1, <3>2, <4>1
    <3> QED BY <1>3, <3>1, <3>3
  <2>5. s = w
    BY <2>1, <2>2, <2>3, <2>4, SeqEqual
  <2> QED BY <2>5 DEF s, w
<1> QED BY <1>4, <1>5, <1>6, <1>7, <1>8 DEF p, q

\* A thread that returns leaves the others where they are.
LEMMA MovesToIdle ==
  ASSUME CallsInv, TcpCalls, NEW t \in Threads, Return(t), UNCHANGED clientSocket
  PROVE  TcpCalls'
<1>1. \A u \in Threads : call'[u] = IF u = t THEN Idle ELSE call[u]
  BY DEF CallsInv, CallsOnTime, Return
<1>2. Idle.pc = "idle"
  BY DEF Idle, Started
<1> QED BY <1>1, <1>2 DEF TcpCalls, TcpCall

\* A packet is returned, made of bytes that the consumer had or was given.
LEMMA PacketTaken ==
  ASSUME TcpInv, CallsInv', TcpCalls', NEW b \in Seq(Nat), Len(b) >= 2,
         \/ b = consumer \o InFlight
         \/ b = consumer /\ InFlight = <<>>,
         InFlight' = <<>>, seen' = Append(seen, SubSeq(b, 1, 2)), consumer' = SubSeq(b, 3, Len(b)),
         UNCHANGED <<arrived, inbox, eof, room, clientSocket, eofSent>>
  PROVE  TcpInv'
<1> DEFINE p == SubSeq(b, 1, 2)
           q == SubSeq(b, 3, Len(b))
<1>1. inbox \in Seq(Nat) /\ consumer \in Seq(Nat) /\ seen \in Seq(Seq(Nat)) /\ arrived \in Nat
  BY PeerAssumption DEF TcpInv, TcpTypes
<1>2. p \in Seq(Nat) /\ q \in Seq(Nat) /\ Len(seen) \in Nat
  <2>1. Len(seen) \in Nat
    BY <1>1, LenProperties
  <2>2. PICK k \in Nat : k = Len(b)
    BY LenProperties
  <2>3. \A i \in 1..k : b[i] \in Nat
    BY <2>2, ElementOfSeq
  <2>4. (\A i \in 1..2 : b[i] \in Nat) /\ (\A i \in 3..k : b[i] \in Nat)
    BY <2>2, <2>3
  <2>5. SubSeq(b, 1, 2) \in Seq(Nat)
    BY <2>4, SubSeqProperties
  <2>6. SubSeq(b, 3, k) \in Seq(Nat)
    BY <2>4, SubSeqProperties
  <2> QED BY <2>1, <2>2, <2>5, <2>6
<1>3. /\ Append(seen, p) \in Seq(Seq(Nat)) /\ Len(Append(seen, p)) = Len(seen) + 1
      /\ \A i \in 1..Len(seen) : Append(seen, p)[i] = seen[i]
      /\ Append(seen, p)[Len(seen) + 1] = p
  BY <1>1, <1>2, AppendProperties
<1>4. TcpTypes'
  BY <1>2, <1>3 DEF TcpInv, TcpTypes
<1>5. ASSUME clientSocket = "open"
      PROVE  /\ 2 * (Len(seen) + 1) <= arrived /\ q \o inbox = Rest(Len(seen) + 1, arrived)
             /\ p = <<2 * (Len(seen) + 1) - 1, 2 * (Len(seen) + 1)>>
  <2>1. 2 * Len(seen) <= arrived /\ consumer \o InFlight \o inbox = Rest(Len(seen), arrived)
    BY <1>5 DEF TcpInv, BytesInv
  <2>2. consumer \o InFlight = b
    BY <1>1, ConcatEmptySeq
  <2>3. b \o inbox = Rest(Len(seen), arrived)
    BY <2>1, <2>2
  <2>4. PICK n \in Nat : n = Len(seen)
    BY <1>2
  <2>5. 2 * n <= arrived /\ b \o inbox = Rest(n, arrived)
    BY <2>1, <2>3, <2>4
  <2>6. /\ 2 * (n + 1) <= arrived /\ q \o inbox = Rest(n + 1, arrived)
        /\ p = <<2 * (n + 1) - 1, 2 * (n + 1)>>
    <3>1. inbox \in Seq(Nat) /\ arrived \in Nat /\ Len(b) >= 2
      BY <1>1
    <3> QED BY <2>5, <3>1, NextPacket, Zenon
  <2> QED BY <2>4, <2>6
<1> HIDE DEF p, q
<1>6. BytesInv'
  <2> SUFFICES ASSUME clientSocket = "open"
               PROVE  /\ 2 * Len(seen') <= arrived /\ Blocking!InOrder'
                      /\ consumer' \o InFlight' \o inbox = Rest(Len(seen'), arrived)
    BY DEF BytesInv, Rest
  <2>1. Len(seen') = Len(seen) + 1 /\ seen' = Append(seen, p) /\ consumer' = q
    BY <1>3 DEF p, q
  <2>2. Blocking!InOrder'
    <3>1. \A i \in 1..Len(seen) : seen[i] = <<2 * i - 1, 2 * i>>
      BY DEF TcpInv, BytesInv, Blocking!InOrder
    <3>2. ASSUME NEW i \in 1..(Len(seen) + 1) PROVE seen'[i] = <<2 * i - 1, 2 * i>>
      <4>1. CASE i \in 1..Len(seen)
        BY <1>3, <2>1, <3>1, <4>1
      <4>2. CASE i = Len(seen) + 1
        BY <1>3, <1>5, <2>1, <4>2
      <4> QED BY <1>2, <4>1, <4>2
    <3> QED BY <2>1, <3>2 DEF Blocking!InOrder
  <2>3. q \o <<>> = q
    BY <1>2, ConcatEmptySeq
  <2> QED BY <1>5, <2>1, <2>2, <2>3
<1> QED BY <1>4, <1>6 DEF TcpInv

\* send_packet(), send_eof(), recv_packet() and close() get their lock, or what the
\* consumer holds.
LEMMA TcpAcquire ==
  ASSUME TcpInv, NEW t \in Threads, Blocking!Acquire(t)
  PROVE  TcpInv'
<1>1. /\ At(t, "lock") /\ Free(t) /\ call[t].pc = "lock" /\ call[t] \in Record
      /\ UNCHANGED <<retry, arrived, inbox, eof, room, clientSocket, eofSent>>
  BY BlockingCalls DEF Blocking!Acquire, Blocking!link, At, TcpInv, CallsInv, CallsOnTime
<1>2. CASE Return(t) /\ UNCHANGED <<consumer, seen>>
  BY <1>1, <1>2, TcpReturns DEF TcpInv, TcpTypes
<1>3. CASE clientSocket = "open" /\ Receives(t) /\ Blocking!HasPacket(consumer) /\ Blocking!ReturnPacket(t, consumer)
  <2>1. /\ Return(t) /\ Len(consumer) >= 2
        /\ seen' = Append(seen, SubSeq(consumer, 1, 2)) /\ consumer' = SubSeq(consumer, 3, Len(consumer))
    BY <1>3, BlockingCalls DEF Blocking!ReturnPacket, Blocking!HasPacket
  <2>2. CallsOnTime'
    BY <1>1, <2>1, ReturnOnTime DEF TcpInv, CallsInv
  <2>3. CallsInv'
    BY <2>1, <2>2, ReturnInv DEF TcpInv
  <2>4. TcpCalls'
    BY <1>1, <2>1, MovesToIdle DEF TcpInv
  <2>5. InFlight = <<>> /\ InFlight' = <<>>
    BY <1>1, <1>3, <2>1, ThreadAssumption DEF Free, Return, InFlight
  <2>6. consumer \in Seq(Nat)
    BY DEF TcpInv, TcpTypes
  <2> QED BY <1>1, <1>3, <2>1, <2>3, <2>4, <2>5, <2>6, PacketTaken
<1>4. CASE TakeLock(t, IF call[t].op \in {"eof", "close"} THEN call[t].op ELSE "try") /\ UNCHANGED <<consumer, seen>>
  <2>1. PICK pc \in Places \ {"idle", "lock", "next", "select", "clear"} :
          TakeLock(t, pc) /\ (pc = "try" => call[t].op \notin {"eof", "close"})
    BY <1>4 DEF Places
  <2>2. /\ call' = [call EXCEPT ![t].pc = pc] /\ call'[t].pc = pc /\ call'[t].op = call[t].op
        /\ call'[t].todo = call[t].todo /\ \A u \in Threads \ {t} : call'[u] = call[u]
    BY <1>1, <2>1 DEF TakeLock, TcpInv, CallsInv, CallsOnTime, Record
  <2>3. CallsOnTime'
    BY <1>1, <2>1, <2>2, MovesOnTime DEF TcpInv, CallsInv
  <2>4. CallsInv'
    BY <1>1, <2>1, <2>3, TakeLockInv DEF TcpInv
  <2>5. TcpCall(call'[t]) /\ call'[t].pc \notin {"next", "clear"}
    BY <1>1, <2>1, <2>2 DEF TcpInv, TcpCalls, TcpCall, Record, Ops
  <2>6. TcpTypes'
    BY <1>1, <1>4 DEF TcpInv, TcpTypes
  <2> QED BY <1>1, <1>4, <2>2, <2>4, <2>5, <2>6, TcpMoves
<1> QED BY <1>2, <1>3, <1>4, BlockingCalls DEF Blocking!Acquire

LEMMA TcpGivesUp ==
  ASSUME TcpInv, NEW t \in Threads, Blocking!GivesUp(t)
  PROVE  TcpInv'
<1>1. /\ LockTimeout(t)
      /\ UNCHANGED <<retry, arrived, inbox, eof, room, clientSocket, eofSent, consumer, seen>>
  BY BlockingCalls DEF Blocking!GivesUp, Blocking!link, Blocking!endpoint
<1> QED BY <1>1, TcpReturns DEF LockTimeout, At, TcpInv, TcpTypes

\* A receiver takes what the socket has, or waits for it.
LEMMA TcpTryRecv ==
  ASSUME TcpInv, NEW t \in Threads, Blocking!TryRecv(t)
  PROVE  TcpInv'
<1>1. /\ At(t, "try") /\ Receives(t) /\ call[t].pc = "try" /\ call[t].op = "recv" /\ call[t] \in Record
      /\ UNCHANGED <<retry, arrived, eof, room, clientSocket, eofSent, consumer, seen>>
  BY BlockingCalls DEF Blocking!TryRecv, Blocking!endpoint, At, Receives, TcpInv, CallsInv, CallsOnTime
<1>2. CASE Return(t) /\ UNCHANGED inbox
  BY <1>1, <1>2, TcpReturns DEF TcpInv, TcpTypes
<1>3. CASE Select(t) /\ UNCHANGED inbox
  BY <1>1, <1>3, TcpSelects DEF TcpInv, TcpTypes
<1>4. CASE /\ call' = [call EXCEPT ![t].pc = "next", ![t].chunk = inbox] /\ inbox' = <<>>
           /\ UNCHANGED <<sendLock, recvLock>>
  <2> DEFINE c == [[call[t] EXCEPT !.pc = "next"] EXCEPT !.chunk = inbox]
  <2>1. /\ c \in Record /\ c.pc = "next" /\ c.left = call[t].left /\ c.spent = call[t].spent
        /\ c.allowed = call[t].allowed /\ c.op = "recv" /\ c.todo = call[t].todo /\ c.chunk = inbox
    BY <1>1 DEF Record, Places, TcpInv, TcpTypes
  <2>2. call' = [call EXCEPT ![t] = c]
    BY <1>4
  <2> HIDE DEF c
  <2>3. CallsOnTime'
    BY <1>1, <2>1, <2>2, GoesOnTime DEF TcpInv, CallsInv
  <2>4. CallsInv'
    <3>1. Held(call[t]) /\ Held(c) /\ CallOK(c)
      BY <1>1, <2>1 DEF Held, CallOK, TcpInv, CallsInv
    <3> QED BY <1>1, <1>4, <2>1, <2>2, <2>3, <3>1, StaysInv DEF TcpInv, locks
  <2>5. \A u \in Threads : call'[u] = IF u = t THEN c ELSE call[u]
    BY <2>2 DEF TcpInv, CallsInv, CallsOnTime
  <2>6. TcpCalls'
    BY <1>1, <2>1, <2>5 DEF TcpInv, TcpCalls, TcpCall
  <2>7. <<>> \in Seq(Nat)
    OBVIOUS
  <2>8. TcpTypes'
    BY <1>1, <1>4, <2>7 DEF TcpInv, TcpTypes
  <2>9. recvLock = t /\ InFlight = <<>> /\ InFlight' = inbox
    <3>1. recvLock = t /\ t # NoThread
      BY <1>1, ThreadAssumption DEF TcpInv, CallsInv, HoldInv, Held
    <3>2. call[t].chunk = <<>>
      BY <1>1 DEF TcpInv, CallsInv, CallOK
    <3> QED BY <1>4, <2>1, <2>5, <3>1, <3>2 DEF InFlight
  <2>10. BytesInv'
    <3>1. inbox \in Seq(Nat) /\ consumer \in Seq(Nat)
      BY DEF TcpInv, TcpTypes
    <3>2. consumer \o InFlight \o inbox = consumer \o inbox /\ (consumer \o inbox) \o <<>> = consumer \o inbox
      BY <2>9, <3>1, ConcatEmptySeq, ConcatProperties
    <3>3. (consumer \o InFlight \o inbox)' = consumer \o InFlight \o inbox
      BY <1>1, <1>4, <2>9, <3>2
    <3> QED BY <1>1, <3>3 DEF TcpInv, BytesInv, Blocking!InOrder
  <2> QED BY <2>4, <2>6, <2>8, <2>10 DEF TcpInv
<1> QED BY <1>2, <1>3, <1>4, BlockingCalls DEF Blocking!TryRecv, Blocking!locks

\* A packet is returned, or the next recv() has what is left of the timeout.
LEMMA TcpConsumerNext ==
  ASSUME TcpInv, NEW t \in Threads, Blocking!ConsumerNext(t)
  PROVE  TcpInv'
<1> DEFINE bytes == consumer \o call[t].chunk
<1>1. /\ call[t].pc = "next" /\ call[t].op = "recv" /\ call[t] \in Record
      /\ UNCHANGED <<retry, arrived, inbox, eof, room, clientSocket, eofSent>>
  BY BlockingCalls DEF Blocking!ConsumerNext, Blocking!link, At, TcpInv, CallsInv, CallsOnTime, CallOK
<1>2. recvLock = t /\ InFlight = call[t].chunk /\ t # NoThread
  <2>1. WhoHasBytes
    BY BytesInFlight DEF TcpInv
  <2> QED BY <1>1, <2>1, ThreadAssumption DEF WhoHasBytes
<1>3. bytes \in Seq(Nat)
  BY <1>1, ConcatProperties DEF Record, TcpInv, TcpTypes
<1>4. CASE Blocking!HasPacket(bytes) /\ Blocking!ReturnPacket(t, bytes)
  <2>1. /\ Return(t) /\ Len(bytes) >= 2
        /\ seen' = Append(seen, SubSeq(bytes, 1, 2)) /\ consumer' = SubSeq(bytes, 3, Len(bytes))
    BY <1>4, BlockingCalls DEF Blocking!ReturnPacket, Blocking!HasPacket
  <2>2. CallsOnTime'
    BY <1>1, <2>1, ReturnOnTime DEF TcpInv, CallsInv
  <2>3. CallsInv'
    BY <2>1, <2>2, ReturnInv DEF TcpInv
  <2>4. TcpCalls'
    BY <1>1, <2>1, MovesToIdle DEF TcpInv
  <2>5. InFlight' = <<>>
    BY <1>2, <2>1 DEF Return, InFlight
  <2> HIDE DEF bytes
  <2>6. bytes = consumer \o InFlight
    BY <1>2 DEF bytes
  <2> QED BY <1>1, <1>3, <2>1, <2>3, <2>4, <2>5, <2>6, PacketTaken
<1>5. CASE /\ consumer' = bytes /\ seen' = seen
           /\ IF call[t].left = 0 THEN Return(t)
              ELSE call' = [call EXCEPT ![t].pc = "try", ![t].chunk = <<>>] /\ UNCHANGED <<sendLock, recvLock>>
  <2>1. CallsInv' /\ TcpCalls' /\ InFlight' = <<>>
    <3>1. CASE Return(t)
      <4>1. CallsOnTime'
        BY <1>1, <3>1, ReturnOnTime DEF TcpInv, CallsInv
      <4>2. CallsInv'
        BY <3>1, <4>1, ReturnInv DEF TcpInv
      <4>3. TcpCalls'
        BY <1>1, <3>1, MovesToIdle DEF TcpInv
      <4>4. InFlight' = <<>>
        BY <1>2, <3>1 DEF Return, InFlight
      <4> QED BY <4>2, <4>3, <4>4
    <3>2. CASE call' = [call EXCEPT ![t].pc = "try", ![t].chunk = <<>>] /\ UNCHANGED <<sendLock, recvLock>>
      <4> DEFINE none == <<>>
                 c == [[call[t] EXCEPT !.pc = "try"] EXCEPT !.chunk = none]
      <4>1. none \in Seq(Nat) /\ none = <<>>
        OBVIOUS
      <4>2. call' = [call EXCEPT ![t] = c]
        BY <3>2
      <4> HIDE DEF none
      <4>3. /\ c \in Record /\ c.pc = "try" /\ c.left = call[t].left /\ c.spent = call[t].spent
            /\ c.allowed = call[t].allowed /\ c.op = "recv" /\ c.todo = call[t].todo /\ c.chunk = none
        BY <1>1, <4>1 DEF Record, Places
      <4> HIDE DEF c
      <4>4. CallsOnTime'
        BY <1>1, <4>2, <4>3, GoesOnTime DEF TcpInv, CallsInv
      <4>5. CallsInv'
        <5>1. Held(call[t]) /\ Held(c) /\ CallOK(c)
          BY <1>1, <4>1, <4>3 DEF Held, CallOK, TcpInv, CallsInv
        <5> QED BY <1>1, <3>2, <4>2, <4>3, <4>4, <5>1, StaysInv DEF TcpInv, locks
      <4>6. \A u \in Threads : call'[u] = IF u = t THEN c ELSE call[u]
        BY <4>2 DEF TcpInv, CallsInv, CallsOnTime
      <4>7. TcpCalls'
        BY <1>1, <4>3, <4>6 DEF TcpInv, TcpCalls, TcpCall
      <4>8. InFlight' = <<>>
        BY <1>2, <3>2, <4>1, <4>3, <4>6 DEF InFlight
      <4> QED BY <4>5, <4>7, <4>8
    <3> QED BY <1>5, <3>1, <3>2
  <2>2. TcpTypes'
    BY <1>1, <1>3, <1>5 DEF TcpInv, TcpTypes
  <2>3. BytesInv'
    <3>1. inbox \in Seq(Nat) /\ consumer \in Seq(Nat)
      BY DEF TcpInv, TcpTypes
    <3>2. bytes \o <<>> = bytes
      BY <1>3, ConcatEmptySeq
    <3>3. (consumer \o InFlight \o inbox)' = consumer \o InFlight \o inbox
      BY <1>1, <1>2, <1>5, <2>1, <3>2
    <3> QED BY <1>1, <1>5, <3>3 DEF TcpInv, BytesInv, Blocking!InOrder
  <2> QED BY <2>1, <2>2, <2>3 DEF TcpInv
<1> QED BY <1>4, <1>5, BlockingCalls DEF Blocking!ConsumerNext, Blocking!locks

\* A byte is sent, or the sender waits for room with what is left of the timeout.
LEMMA TcpTrySend ==
  ASSUME TcpInv, NEW t \in Threads, Blocking!TrySend(t)
  PROVE  TcpInv'
<1>1. /\ At(t, "try") /\ call[t].pc = "try" /\ call[t].op # "recv" /\ call[t] \in Record
      /\ UNCHANGED <<retry, arrived, inbox, eof, clientSocket, eofSent, consumer, seen>>
  BY BlockingCalls DEF Blocking!TrySend, Blocking!endpoint, At, Receives, TcpInv, CallsInv, CallsOnTime
<1>2. CASE Return(t) /\ (room' = room \/ room' = FALSE)
  BY <1>1, <1>2, TcpReturns DEF TcpInv, TcpTypes
<1>3. CASE Select(t) /\ UNCHANGED room
  BY <1>1, <1>3, TcpSelects DEF TcpInv, TcpTypes
<1>4. CASE room' = FALSE /\ call[t].todo # 1 /\ call' = [call EXCEPT ![t].todo = @ - 1] /\ UNCHANGED <<sendLock, recvLock>>
  <2> DEFINE c == [call[t] EXCEPT !.todo = call[t].todo - 1]
  <2>1. call[t].todo = 2 /\ call[t].op = "send"
    BY <1>1, <1>4 DEF TcpInv, TcpCalls, TcpCall
  <2>2. /\ c \in Record /\ c.pc = "try" /\ c.left = call[t].left /\ c.spent = call[t].spent
        /\ c.allowed = call[t].allowed /\ c.op = call[t].op /\ c.todo = 1 /\ c.chunk = call[t].chunk
    BY <1>1, <2>1 DEF Record
  <2>3. call' = [call EXCEPT ![t] = c]
    BY <1>4
  <2> HIDE DEF c
  <2>4. CallsOnTime'
    BY <1>1, <2>2, <2>3, GoesOnTime DEF TcpInv, CallsInv
  <2>5. CallsInv'
    <3>1. CallOK(call[t])
      BY DEF TcpInv, CallsInv
    <3>2. (Held(c) <=> Held(call[t])) /\ CallOK(c)
      BY <1>1, <2>2, <3>1 DEF Held, CallOK
    <3> QED BY <1>4, <2>2, <2>3, <2>4, <3>2, StaysInv DEF TcpInv, locks
  <2>6. call'[t] = c /\ \A u \in Threads \ {t} : call'[u] = call[u]
    BY <2>3 DEF TcpInv, CallsInv, CallsOnTime
  <2>7. TcpCall(c)
    BY <2>1, <2>2 DEF TcpCall
  <2>8. TcpTypes'
    BY <1>1, <1>4 DEF TcpInv, TcpTypes
  <2> QED BY <1>1, <2>2, <2>5, <2>6, <2>7, <2>8, TcpMoves
<1> QED BY <1>2, <1>3, <1>4, BlockingCalls DEF Blocking!TrySend, Blocking!locks

LEMMA TcpAwakes ==
  ASSUME TcpInv, NEW t \in Threads, Blocking!Awakes(t)
  PROVE  TcpInv'
<1>1. PICK ready \in BOOLEAN : Selected(t, ready)
  <2>1. Selected(t, Blocking!Ready(t))
    BY BlockingCalls DEF Blocking!Awakes
  <2>2. CASE Blocking!Ready(t)
    BY <2>1, <2>2 DEF Selected
  <2>3. CASE ~Blocking!Ready(t)
    BY <2>1, <2>3 DEF Selected
  <2> QED BY <2>2, <2>3
<1>2. /\ call[t].pc = "select" /\ call[t] \in Record
      /\ UNCHANGED <<retry, arrived, inbox, eof, room, clientSocket, eofSent, consumer, seen>>
  BY <1>1 DEF Blocking!Awakes, Blocking!link, Blocking!endpoint, Selected, At, TcpInv, CallsInv, CallsOnTime
<1>3. TcpTypes'
  BY <1>2 DEF TcpInv, TcpTypes
<1>4. CASE Return(t)
  BY <1>2, <1>3, <1>4, TcpReturns
<1>5. CASE Goes(t, "try")
  <2>1. CallsOnTime'
    BY <1>1, <1>2, SelectedOnTime DEF TcpInv, CallsInv
  <2>2. CallsInv'
    BY <1>1, <2>1, SelectedInv DEF TcpInv
  <2>3. /\ call'[t].pc = "try" /\ call'[t].op = call[t].op /\ call'[t].todo = call[t].todo
        /\ \A u \in Threads \ {t} : call'[u] = call[u]
    BY <1>2, <1>5 DEF Goes, TcpInv, CallsInv, CallsOnTime, Record
  <2>4. TcpCall(call'[t])
    BY <1>2, <2>3 DEF TcpInv, TcpCalls, TcpCall
  <2> QED BY <1>2, <1>3, <2>2, <2>3, <2>4, TcpMoves
<1> QED BY <1>1, <1>4, <1>5 DEF Selected

LEMMA TcpSendEof ==
  ASSUME TcpInv, NEW t \in Threads, Blocking!SendEof(t)
  PROVE  TcpInv'
<1>1. /\ Return(t) /\ call[t].pc = "eof" /\ eofSent' = TRUE
      /\ UNCHANGED <<retry, arrived, inbox, eof, room, clientSocket, consumer, seen>>
  BY BlockingCalls DEF Blocking!SendEof, Blocking!link, At
<1> QED BY <1>1, TcpReturns DEF TcpInv, TcpTypes

\* close(): the receiver may be anywhere.
LEMMA TcpClose ==
  ASSUME TcpInv, NEW t \in Threads, Blocking!Close(t)
  PROVE  TcpInv'
<1>1. /\ call[t].pc = "close" /\ clientSocket' = "closed" /\ Goes(t, "clear") /\ call[t] \in Record
      /\ UNCHANGED <<retry, arrived, inbox, eof, room, eofSent, consumer, seen>>
  BY BlockingCalls DEF Blocking!Close, Blocking!link, At, TcpInv, CallsInv, CallsOnTime
<1>2. CallsOnTime'
  BY <1>1, MovesOnTime DEF Goes, Places, TcpInv, CallsInv
<1>3. CallsInv'
  <2>1. "clear" \in Places \ {"idle", "lock", "next"}
    BY DEF Places
  <2>2. Held(call[t]) /\ call[t].chunk = <<>>
    BY <1>1 DEF Held, TcpInv, CallsInv, CallOK
  <2> QED BY <1>1, <1>2, <2>1, <2>2, GoesInv DEF TcpInv
<1>4. /\ call'[t].pc = "clear" /\ call'[t].op = call[t].op /\ call'[t].todo = call[t].todo
      /\ \A u \in Threads \ {t} : call'[u] = call[u]
  BY <1>1 DEF Goes, TcpInv, CallsInv, CallsOnTime, Record
<1>5. TcpCall(call'[t])
  BY <1>1, <1>4 DEF TcpInv, TcpCalls, TcpCall
<1>6. TcpTypes'
  BY <1>1 DEF TcpInv, TcpTypes
<1> QED BY <1>1, <1>3, <1>4, <1>5, <1>6, TcpMoves

\* The consumer is cleared when the socket is closed: nothing is promised any more.
LEMMA TcpClear ==
  ASSUME TcpInv, NEW t \in Threads, Blocking!Clear(t)
  PROVE  TcpInv'
<1>1. /\ call[t].pc = "clear" /\ Return(t) /\ consumer' = <<>>
      /\ UNCHANGED <<retry, arrived, inbox, eof, room, clientSocket, eofSent, seen>>
  BY BlockingCalls DEF Blocking!Clear, Blocking!link, At
<1>2. clientSocket' = "closed"
  BY <1>1 DEF TcpInv, TcpCalls, TcpTypes
<1>3. CallsInv'
  <2>1. CallsOnTime'
    BY <1>1, ReturnOnTime DEF TcpInv, CallsInv
  <2> QED BY <1>1, <2>1, ReturnInv DEF TcpInv
<1>4. TcpCalls'
  BY <1>1, MovesToIdle DEF TcpInv
<1>5. <<>> \in Seq(Nat)
  OBVIOUS
<1>6. TcpTypes'
  BY <1>1, <1>5 DEF TcpInv, TcpTypes
<1> QED BY <1>2, <1>3, <1>4, <1>6 DEF TcpInv, BytesInv

LEMMA TcpCallBegins ==
  ASSUME TcpInv, NEW t \in Threads, NEW op \in Ops, NEW timeout \in Timeouts, Blocking!Call(t, op, timeout)
  PROVE  TcpInv'
<1> DEFINE todo == IF op = "send" THEN 2 ELSE 0
           c == Started(op, timeout, todo)
<1>1. /\ call[t] = Idle /\ call' = [call EXCEPT ![t] = c] /\ UNCHANGED <<sendLock, recvLock>>
      /\ UNCHANGED <<retry, arrived, inbox, eof, room, clientSocket, eofSent, consumer, seen>>
  BY BlockingCalls DEF Blocking!Call, Blocking!link, Blocking!endpoint, Blocking!locks
<1>2. c \in Record /\ OnTime(c)
  BY StartedOnTime
<1>3. c.pc = "lock" /\ c.op = op /\ c.todo = todo /\ call[t].pc = "idle"
  BY <1>1 DEF Started, Idle
<1>4. TcpCall(c)
  BY <1>3 DEF TcpCall
<1>5. todo \in 0..2
  OBVIOUS
<1> HIDE DEF todo
<1>6. CallsOnTime'
  BY <1>1, <1>2, CallChanges DEF TcpInv, CallsInv
<1>7. CallsInv'
  BY <1>1, <1>5, <1>6, StartedInv DEF TcpInv, locks
<1> HIDE DEF c
<1>8. call'[t] = c /\ \A u \in Threads \ {t} : call'[u] = call[u]
  BY <1>1 DEF TcpInv, CallsInv, CallsOnTime
<1>9. TcpTypes'
  BY <1>1 DEF TcpInv, TcpTypes
<1> QED BY <1>1, <1>3, <1>4, <1>7, <1>8, <1>9, TcpMoves

\* Nothing happens to the calls or to the bytes they hold.
LEMMA TcpStays ==
  ASSUME TcpInv, UNCHANGED <<retry, sendLock, recvLock, call, clientSocket>>
  PROVE  CallsInv' /\ TcpCalls' /\ InFlight' = InFlight
<1>1. CallsInv'
  BY DEF TcpInv, CallsInv, CallsOnTime, OnTime, HoldInv, CallOK
<1>2. TcpCalls'
  BY DEF TcpInv, TcpCalls, TcpCall
<1> QED BY <1>1, <1>2 DEF InFlight

LEMMA TcpArrive == TcpInv /\ Blocking!Arrive => TcpInv'
<1> SUFFICES ASSUME TcpInv, Blocking!Arrive PROVE TcpInv'
  OBVIOUS
<1>1. /\ arrived' = arrived + 1 /\ inbox' = Append(inbox, arrived + 1) /\ arrived < 2 * Packets
      /\ UNCHANGED <<retry, sendLock, recvLock, call, eof, room, clientSocket, eofSent, consumer, seen>>
  BY DEF Blocking!Arrive, Blocking!endpoint, Blocking!locks
<1>2. CallsInv' /\ TcpCalls' /\ InFlight' = InFlight
  BY <1>1, TcpStays
<1>3. /\ inbox \in Seq(Nat) /\ consumer \in Seq(Nat) /\ InFlight \in Seq(Nat) /\ arrived \in Nat /\ Packets \in Nat
      /\ seen \in Seq(Seq(Nat))
  BY PeerAssumption, BytesInFlight DEF TcpInv, TcpTypes, WhoHasBytes
<1>4. inbox' \in Seq(Nat)
  BY <1>1, <1>3, AppendProperties
<1>5. TcpTypes'
  BY <1>1, <1>3, <1>4 DEF TcpInv, TcpTypes
<1>6. BytesInv'
  <2> SUFFICES ASSUME clientSocket = "open"
               PROVE  2 * Len(seen) <= arrived + 1 /\ (consumer \o InFlight) \o inbox' = Rest(Len(seen), arrived + 1)
    BY <1>1, <1>2 DEF TcpInv, BytesInv, Blocking!InOrder
  <2>1. /\ Len(seen) \in Nat /\ 2 * Len(seen) <= arrived
        /\ (consumer \o InFlight) \o inbox = Rest(Len(seen), arrived)
    BY <1>3, LenProperties DEF TcpInv, BytesInv
  <2>2. consumer \o InFlight \in Seq(Nat)
    BY <1>3, ConcatProperties
  <2> DEFINE held == consumer \o InFlight
  <2>3. held \in Seq(Nat) /\ held \o inbox = Rest(Len(seen), arrived)
    BY <2>1, <2>2
  <2> HIDE DEF held
  <2>4. held \o Append(inbox, arrived + 1) = Append(held \o inbox, arrived + 1)
    <3>1. PICK b \in Nat : b = arrived + 1
      BY <1>3
    <3>2. held \o Append(inbox, b) = Append(held \o inbox, b)
      <4>1. PICK u \in Seq(Nat), v \in Seq(Nat) : u = held /\ v = inbox
        BY <1>3, <2>3
      <4>2. u \o Append(v, b) = Append(u \o v, b)
        BY ConcatPush
      <4> QED BY <4>1, <4>2
    <3> QED BY <3>1, <3>2
  <2>5. Append(Rest(Len(seen), arrived), arrived + 1) = Rest(Len(seen), arrived + 1)
    BY <1>3, <2>1, RestProperties
  <2>6. held \o inbox' = Rest(Len(seen), arrived + 1)
    BY <1>1, <2>3, <2>4, <2>5
  <2> QED BY <1>3, <2>1, <2>6 DEF held
<1> QED BY <1>2, <1>5, <1>6 DEF TcpInv

LEMMA TcpInitInv == Blocking!Init => TcpInv
<1> SUFFICES ASSUME Blocking!Init PROVE TcpInv
  OBVIOUS
<1>1. /\ NoCall /\ arrived = 0 /\ inbox = <<>> /\ eof = FALSE /\ room = TRUE /\ clientSocket = "open"
      /\ eofSent = FALSE /\ consumer = <<>> /\ seen = <<>>
  BY BlockingCalls DEF Blocking!Init
<1>2. CallsInv
  BY <1>1, NoCallInv
<1>3. \A t \in Threads : call[t].pc = "idle"
  BY <1>1 DEF NoCall, Idle, Started
<1>4. InFlight = <<>>
  BY <1>1 DEF NoCall, InFlight
<1>5. <<>> \in Seq(Nat) /\ <<>> \in Seq(Seq(Nat)) /\ Len(<<>>) = 0
  OBVIOUS
<1>6. TcpTypes
  <2>1. arrived \in 0..(2 * Packets)
    BY <1>1, PeerAssumption
  <2>2. inbox \in Seq(Nat) /\ consumer \in Seq(Nat) /\ seen \in Seq(Seq(Nat))
    BY <1>1, <1>5
  <2> QED BY <1>1, <2>1, <2>2 DEF TcpTypes
<1>7. TcpCalls
  BY <1>3 DEF TcpCalls, TcpCall
<1>8. BytesInv
  <2>1. Rest(0, 0) = <<>>
    <3>1. Rest(0, 0) \in Seq(Nat) /\ Len(Rest(0, 0)) = 0
      BY RestProperties
    <3> QED BY <3>1, EmptySeq
  <2>2. <<>> \o <<>> = <<>>
    BY <1>5, ConcatEmptySeq
  <2>3. consumer \o InFlight \o inbox = <<>>
    BY <1>1, <1>4, <2>2
  <2>4. Len(seen) = 0
    BY <1>1, <1>5
  <2>5. Rest(Len(seen), arrived) = <<>>
    BY <1>1, <2>1, <2>4
  <2> QED BY <1>1, <2>3, <2>4, <2>5 DEF BytesInv, Blocking!InOrder
<1> QED BY <1>2, <1>6, <1>7, <1>8 DEF TcpInv

\* A step of the client, of its peer, or of time.
LEMMA TcpStep == TcpInv /\ Blocking!Next => TcpInv'
<1> SUFFICES ASSUME TcpInv, Blocking!Next PROVE TcpInv'
  OBVIOUS
<1>1. CASE Blocking!Arrive
  BY <1>1, TcpArrive
<1>2. CASE Blocking!Ends \/ Blocking!PeerReads
  <2>1. /\ UNCHANGED <<retry, sendLock, recvLock, call, arrived, inbox, clientSocket, eofSent, consumer, seen>>
        /\ eof' \in {eof, TRUE} /\ room' \in {room, TRUE}
    BY <1>2 DEF Blocking!Ends, Blocking!PeerReads, Blocking!endpoint, Blocking!locks
  <2>2. CallsInv' /\ TcpCalls' /\ InFlight' = InFlight
    BY <2>1, TcpStays
  <2>3. TcpTypes'
    BY <2>1 DEF TcpInv, TcpTypes
  <2> QED BY <2>1, <2>2, <2>3 DEF TcpInv, BytesInv, Blocking!InOrder
<1>3. CASE Blocking!Tick
  <2> DEFINE ready == [t \in Threads |-> Blocking!Ready(t)]
  <2>1. \A t \in Threads : Waits(t, ready[t])
    BY <1>3, BlockingCalls DEF Blocking!Tick
  <2>2. /\ TickCalls /\ UNCHANGED <<retry, sendLock, recvLock>>
        /\ UNCHANGED <<arrived, inbox, eof, room, clientSocket, eofSent, consumer, seen>>
    BY <1>3, BlockingCalls DEF Blocking!Tick, Blocking!link, Blocking!endpoint, TickCalls, locks
  <2> HIDE DEF ready
  <2>3. CallsOnTime'
    BY <2>1, <2>2, TickOnTime DEF TcpInv, CallsInv
  <2>4. /\ CallsInv'
        /\ \A t \in Threads : call'[t].pc = call[t].pc /\ call'[t].op = call[t].op
                              /\ call'[t].todo = call[t].todo /\ call'[t].chunk = call[t].chunk
    BY <2>2, <2>3, TickInv DEF TcpInv
  <2>5. TcpCalls'
    BY <2>2, <2>4 DEF TcpInv, TcpCalls, TcpCall
  <2>6. InFlight' = InFlight
    BY <2>2, <2>4 DEF InFlight, TcpInv, CallsInv, HoldInv
  <2>7. TcpTypes'
    BY <2>2 DEF TcpInv, TcpTypes
  <2> QED BY <2>2, <2>4, <2>5, <2>6, <2>7 DEF TcpInv, BytesInv, Blocking!InOrder
<1>4. ASSUME NEW t \in Threads, Blocking!Runs(t) PROVE TcpInv'
  BY <1>4, TcpAcquire, TcpGivesUp, TcpTryRecv, TcpConsumerNext, TcpTrySend, TcpAwakes, TcpSendEof, TcpClose, TcpClear
     DEF Blocking!Runs
<1>5. ASSUME NEW t \in Threads, NEW op \in Ops, NEW timeout \in Timeouts, Blocking!Call(t, op, timeout)
      PROVE  TcpInv'
  BY <1>5, TcpCallBegins
<1> QED BY <1>1, <1>2, <1>3, <1>4, <1>5 DEF Blocking!Next, Ops

LEMMA TcpTypesOK == CallsInv /\ TcpTypes => Blocking!TypeOK
<1> SUFFICES ASSUME CallsInv, TcpTypes PROVE Blocking!TypeOK
  OBVIOUS
<1>1. Blocking!CallsTypeOK
  BY CallsTypes, BlockingCalls
<1>2. eof \in BOOLEAN /\ room \in BOOLEAN /\ eofSent \in BOOLEAN
  BY DEF TcpTypes
<1>3. {eof, room, eofSent} \subseteq BOOLEAN
  BY <1>2, Zenon
<1> QED BY <1>1, <1>3 DEF Blocking!TypeOK, TcpTypes

-----------------------------------------------------------------------------
(* The blocking UDP client *)

LEMMA UdpCalls ==
  /\ Udp!Idle = Idle
  /\ \A op, timeout, todo : Udp!Started(op, timeout, todo) = Started(op, timeout, todo)
  /\ Udp!NoCall <=> NoCall
  /\ \A t, pc : Udp!At(t, pc) <=> At(t, pc)
  /\ \A t : Udp!Receives(t) <=> Receives(t)
  /\ \A t : Udp!Free(t) <=> Free(t)
  /\ \A t, pc : Udp!TakeLock(t, pc) <=> TakeLock(t, pc)
  /\ \A t : Udp!Return(t) <=> Return(t)
  /\ \A t : Udp!LockTimeout(t) <=> LockTimeout(t)
  /\ \A t : Udp!Select(t) <=> Select(t)
  /\ \A t, ready : Udp!Selected(t, ready) <=> Selected(t, ready)
  /\ \A t, ready : Udp!Waits(t, ready) <=> Waits(t, ready)
  /\ Udp!TickCalls <=> TickCalls
  /\ Udp!CallsTypeOK <=> CallsTypeOK
<1> USE DEF Udp!locks, locks, Udp!At, At
<1>1. Udp!Idle = Idle /\ \A op, timeout, todo : Udp!Started(op, timeout, todo) = Started(op, timeout, todo)
  BY DEF Udp!Idle, Idle, Udp!Started, Started
<1>2. Udp!NoCall <=> NoCall
  BY <1>1 DEF Udp!NoCall, NoCall
<1>3. \A t : Udp!Receives(t) <=> Receives(t)
  BY DEF Udp!Receives, Receives
<1>4. \A t : Udp!Free(t) <=> Free(t)
  BY <1>3 DEF Udp!Free, Free
<1>5. \A t, pc : Udp!TakeLock(t, pc) <=> TakeLock(t, pc)
  BY <1>3 DEF Udp!TakeLock, TakeLock
<1>6. \A t : Udp!Return(t) <=> Return(t)
  BY <1>1 DEF Udp!Return, Return
<1>7. \A t, pc : Udp!Goes(t, pc) <=> Goes(t, pc)
  BY DEF Udp!Goes, Goes
<1>8. \A t : Udp!LockTimeout(t) <=> LockTimeout(t)
  BY <1>4, <1>6 DEF Udp!LockTimeout, LockTimeout
<1>9. \A t : Udp!Select(t) <=> Select(t)
  BY <1>6 DEF Udp!Select, Select, Udp!WaitTime, WaitTime
<1>10. \A t, ready : Udp!Selected(t, ready) <=> Selected(t, ready)
  BY <1>6, <1>7 DEF Udp!Selected, Selected
<1>11. \A t, ready : Udp!Waits(t, ready) <=> Waits(t, ready)
  BY <1>1, <1>4 DEF Udp!Waits, Waits
<1>12. Udp!TickCalls <=> TickCalls
  BY <1>1 DEF Udp!TickCalls, TickCalls, Udp!AfterTick, AfterTick, Udp!Recompute, Recompute, Udp!Less, Less
<1>13. Udp!CallsTypeOK <=> CallsTypeOK
  BY <1>3 DEF Udp!CallsTypeOK, CallsTypeOK
<1>14. \A t, pc : Udp!At(t, pc) <=> At(t, pc)
  OBVIOUS
<1> QED BY <1>1, <1>2, <1>3, <1>4, <1>5, <1>6, <1>8, <1>9, <1>10, <1>11, <1>12, <1>13, <1>14

\* The datagrams returned and those in the socket are all that came, in their order.
UdpState ==
  /\ datagrams \in 0..Datagrams /\ writable \in BOOLEAN /\ udpSocket \in {"open", "closed"}
  /\ given \in Seq(Nat) /\ queue \in Seq(Nat) /\ given \o queue = Rest(0, datagrams)

\* Nothing of a datagram is kept between two calls.
NoneHoldsBytes == \A t \in Threads : call[t].pc # "next"

UdpInv == CallsInv /\ NoneHoldsBytes /\ UdpState

\* A step that moves one thread, and not to the consumer of a stream.
LEMMA UdpMoves ==
  ASSUME UdpInv, CallsInv', UdpState', NEW t \in Threads, \A u \in Threads \ {t} : call'[u] = call[u],
         call'[t].pc # "next"
  PROVE  UdpInv'
<1>1. ASSUME NEW u \in Threads PROVE call'[u].pc # "next"
  BY <1>1 DEF UdpInv, NoneHoldsBytes
<1> QED BY <1>1 DEF UdpInv, NoneHoldsBytes

LEMMA UdpReturns ==
  ASSUME UdpInv, UdpState', NEW t \in Threads, Return(t), retry' = retry
  PROVE  UdpInv'
<1>1. CallsInv'
  <2>1. CallsOnTime'
    BY ReturnOnTime DEF UdpInv, CallsInv
  <2> QED BY <2>1, ReturnInv DEF UdpInv
<1>2. call'[t].pc = "idle" /\ \A u \in Threads \ {t} : call'[u] = call[u]
  BY DEF Return, UdpInv, CallsInv, CallsOnTime, Idle, Started
<1> QED BY <1>1, <1>2, UdpMoves

LEMMA UdpSelects ==
  ASSUME UdpInv, UdpState', NEW t \in Threads, At(t, "try"), Select(t), retry' = retry
  PROVE  UdpInv'
<1>1. CASE Return(t)
  BY <1>1, UdpReturns
<1>2. CASE call' = [call EXCEPT ![t].pc = "select", ![t].wait = WaitTime(call[t].left)]
  <2>1. CallsOnTime'
    BY SelectOnTime DEF UdpInv, CallsInv
  <2>2. CallsInv'
    BY <2>1, SelectInv DEF UdpInv
  <2>3. call'[t].pc = "select" /\ \A u \in Threads \ {t} : call'[u] = call[u]
    BY <1>2 DEF UdpInv, CallsInv, CallsOnTime, Record
  <2> QED BY <2>2, <2>3, UdpMoves
<1> QED BY <1>1, <1>2 DEF Select

\* What a thread does, one case per step of the client.
LEMMA UdpRuns ==
  ASSUME UdpInv, NEW t \in Threads, Udp!Runs(t)
  PROVE  UdpInv'
<1>0. CallsInv /\ CallsOnTime /\ UdpState
  BY DEF UdpInv, CallsInv
<1>1. CASE Udp!Acquire(t)
  <2>1. /\ At(t, "lock") /\ Free(t) /\ retry' = retry
        /\ UNCHANGED <<datagrams, queue, writable, udpSocket, given>>
    BY <1>1, UdpCalls DEF Udp!Acquire
  <2>2. UdpState'
    BY <1>0, <2>1 DEF UdpState, Rest
  <2>3. CASE Return(t)
    BY <2>1, <2>2, <2>3, UdpReturns
  <2>4. CASE TakeLock(t, IF call[t].op = "close" THEN "close" ELSE "try")
    <3>1. PICK pc \in Places \ {"idle", "lock", "next", "select"} : TakeLock(t, pc)
      BY <2>4 DEF Places
    <3>2. CallsOnTime'
      BY <1>0, <2>1, <3>1, MovesOnTime DEF TakeLock
    <3>3. CallsInv'
      BY <1>0, <2>1, <3>1, <3>2, TakeLockInv
    <3>4. call'[t].pc = pc /\ \A u \in Threads \ {t} : call'[u] = call[u]
      BY <1>0, <3>1 DEF TakeLock, CallsOnTime, Record
    <3> QED BY <2>2, <3>1, <3>3, <3>4, UdpMoves
  <2> QED BY <1>1, <2>3, <2>4, UdpCalls DEF Udp!Acquire
<1>2. CASE Udp!GivesUp(t)
  <2>1. LockTimeout(t) /\ retry' = retry /\ UNCHANGED <<datagrams, queue, writable, udpSocket, given>>
    BY <1>2, UdpCalls DEF Udp!GivesUp
  <2>2. UdpState'
    BY <1>0, <2>1 DEF UdpState, Rest
  <2> QED BY <2>1, <2>2, UdpReturns DEF LockTimeout
<1>3. CASE Udp!TryRecv(t)
  <2>1. At(t, "try") /\ UNCHANGED <<retry, datagrams, writable, udpSocket>>
    BY <1>3, UdpCalls DEF Udp!TryRecv
  <2>2. CASE (Return(t) \/ Select(t)) /\ UNCHANGED <<queue, given>>
    <3>1. UdpState'
      BY <1>0, <2>1, <2>2 DEF UdpState, Rest
    <3> QED BY <2>1, <2>2, <3>1, UdpReturns, UdpSelects
  <2>3. CASE queue # <<>> /\ given' = Append(given, Head(queue)) /\ queue' = Tail(queue) /\ Return(t)
    <3>1. /\ given \in Seq(Nat) /\ queue \in Seq(Nat)
      BY <1>0 DEF UdpState
    <3>2. Head(queue) \in Nat /\ queue' \in Seq(Nat) /\ given' \in Seq(Nat)
      BY <2>3, <3>1, HeadTailProperties, AppendProperties
    <3>3. given' \o queue' = given \o queue
      BY <2>3, <3>1, ConcatShift
    <3>4. UdpState'
      BY <1>0, <2>1, <3>2, <3>3 DEF UdpState, Rest
    <3> QED BY <2>1, <2>3, <3>4, UdpReturns
  <2> QED BY <1>3, <2>2, <2>3, UdpCalls DEF Udp!TryRecv
<1>4. CASE Udp!TrySend(t)
  <2>1. At(t, "try") /\ UNCHANGED <<retry, datagrams, queue, udpSocket, given>> /\ writable' \in {writable, FALSE}
    BY <1>4, UdpCalls DEF Udp!TrySend
  <2>2. UdpState'
    BY <1>0, <2>1 DEF UdpState, Rest
  <2>3. Return(t) \/ Select(t)
    BY <1>4, UdpCalls DEF Udp!TrySend
  <2> QED BY <2>1, <2>2, <2>3, UdpReturns, UdpSelects
<1>5. CASE Udp!Awakes(t)
  <2>1. UNCHANGED <<retry, datagrams, queue, writable, udpSocket, given>>
    BY <1>5 DEF Udp!Awakes
  <2>2. UdpState'
    BY <1>0, <2>1 DEF UdpState, Rest
  <2>3. PICK ready \in BOOLEAN : Selected(t, ready)
    <3>1. Selected(t, Udp!Ready(t))
      BY <1>5, UdpCalls DEF Udp!Awakes
    <3>2. CASE Udp!Ready(t)
      BY <3>1, <3>2 DEF Selected
    <3>3. CASE ~Udp!Ready(t)
      BY <3>1, <3>3 DEF Selected
    <3> QED BY <3>2, <3>3
  <2>4. CASE Return(t)
    BY <2>1, <2>2, <2>4, UdpReturns
  <2>5. CASE Goes(t, "try")
    <3>1. CallsOnTime'
      BY <1>0, <2>1, <2>3, SelectedOnTime
    <3>2. CallsInv'
      BY <1>0, <2>3, <3>1, SelectedInv
    <3>3. call'[t].pc = "try" /\ \A u \in Threads \ {t} : call'[u] = call[u]
      BY <1>0, <2>5 DEF Goes, CallsOnTime, Record
    <3> QED BY <2>2, <3>2, <3>3, UdpMoves
  <2> QED BY <2>3, <2>4, <2>5 DEF Selected
<1>6. CASE Udp!Close(t)
  <2>1. /\ Return(t) /\ udpSocket' = "closed" /\ UNCHANGED <<retry, datagrams, queue, writable, given>>
    BY <1>6, UdpCalls DEF Udp!Close
  <2>2. UdpState'
    BY <1>0, <2>1 DEF UdpState, Rest
  <2> QED BY <2>1, <2>2, UdpReturns
<1> QED BY <1>1, <1>2, <1>3, <1>4, <1>5, <1>6 DEF Udp!Runs

LEMMA UdpArrive ==
  ASSUME UdpState, datagrams < Datagrams, datagrams' = datagrams + 1, queue' = Append(queue, datagrams + 1),
         UNCHANGED <<writable, udpSocket, given>>
  PROVE  UdpState'
<1>1. given \in Seq(Nat) /\ queue \in Seq(Nat) /\ datagrams \in Nat /\ Datagrams \in Nat
  BY PeerAssumption DEF UdpState
<1>2. queue' \in Seq(Nat)
  BY <1>1, AppendProperties
<1>3. given \o queue' = Append(given \o queue, datagrams + 1)
  <2>1. \A u, v \in Seq(Nat), e \in Nat : u \o Append(v, e) = Append(u \o v, e)
    BY ConcatPush
  <2> QED BY <1>1, <2>1
<1>4. Append(Rest(0, datagrams), datagrams + 1) = Rest(0, datagrams + 1)
  <2>1. 0 \in Nat /\ 2 * 0 <= datagrams
    BY <1>1
  <2> QED BY <1>1, <2>1, RestProperties
<1>5. given' \o queue' = Rest(0, datagrams')
  BY <1>3, <1>4 DEF UdpState
<1>6. datagrams' \in 0..Datagrams
  BY <1>1
<1> QED BY <1>1, <1>2, <1>5, <1>6 DEF UdpState, Rest

LEMMA UdpInitState == Udp!Init => UdpState
<1> SUFFICES ASSUME Udp!Init PROVE UdpState
  OBVIOUS
<1>1. <<>> \in Seq(Nat) /\ <<>> \o <<>> = <<>>
  <2>1. <<>> \in Seq(Nat)
    OBVIOUS
  <2> QED BY <2>1, ConcatEmptySeq
<1>2. Rest(0, 0) = <<>>
  <2>1. Rest(0, 0) \in Seq(Nat) /\ Len(Rest(0, 0)) = 0
    BY RestProperties
  <2> QED BY <2>1, EmptySeq
<1>3. datagrams = 0 /\ queue = <<>> /\ writable = TRUE /\ udpSocket = "open" /\ given = <<>>
  BY DEF Udp!Init
<1>4. datagrams \in 0..Datagrams
  BY <1>3, PeerAssumption
<1>5. given \o queue = Rest(0, datagrams)
  BY <1>1, <1>2, <1>3
<1> QED BY <1>1, <1>3, <1>4, <1>5 DEF UdpState

LEMMA UdpStep == UdpInv /\ Udp!Next => UdpInv'
<1> SUFFICES ASSUME UdpInv, Udp!Next PROVE UdpInv'
  OBVIOUS
<1>0. CallsInv /\ CallsOnTime /\ UdpState
  BY DEF UdpInv, CallsInv
<1>1. ASSUME UdpState', UNCHANGED <<retry, sendLock, recvLock, call>> PROVE UdpInv'
  BY <1>0, <1>1 DEF UdpInv, NoneHoldsBytes, CallsInv, CallsOnTime, OnTime, HoldInv, CallOK
<1>2. CASE Udp!Arrive
  BY <1>0, <1>1, <1>2, UdpArrive DEF Udp!Arrive, Udp!locks
<1>3. CASE Udp!Drains
  <2>1. UdpState'
    BY <1>0, <1>3 DEF Udp!Drains, UdpState, Rest
  <2> QED BY <1>1, <1>3, <2>1 DEF Udp!Drains, Udp!locks
<1>4. CASE Udp!Tick
  <2> DEFINE ready == [t \in Threads |-> Udp!Ready(t)]
  <2>1. \A t \in Threads : Waits(t, ready[t])
    BY <1>4, UdpCalls DEF Udp!Tick
  <2>2. TickCalls /\ UNCHANGED <<retry, datagrams, queue, writable, udpSocket, given>>
    BY <1>4, UdpCalls DEF Udp!Tick
  <2> HIDE DEF ready
  <2>3. CallsOnTime'
    BY <1>0, <2>1, <2>2, TickOnTime
  <2>4. CallsInv' /\ \A t \in Threads : call'[t].pc = call[t].pc
    BY <1>0, <2>2, <2>3, TickInv
  <2>5. UdpState'
    BY <1>0, <2>2 DEF UdpState, Rest
  <2> QED BY <2>4, <2>5 DEF UdpInv, NoneHoldsBytes
<1>5. ASSUME NEW t \in Threads, Udp!Runs(t) PROVE UdpInv'
  BY <1>5, UdpRuns
<1>6. ASSUME NEW t \in Threads, NEW op \in Ops, NEW timeout \in Timeouts, Udp!Call(t, op, timeout)
      PROVE  UdpInv'
  <2>1. /\ call[t] = Idle /\ call' = [call EXCEPT ![t] = Started(op, timeout, 0)] /\ UNCHANGED <<sendLock, recvLock>>
        /\ UNCHANGED <<retry, datagrams, queue, writable, udpSocket, given>>
    BY <1>6, UdpCalls DEF Udp!Call, Udp!locks
  <2>2. Started(op, timeout, 0) \in Record /\ OnTime(Started(op, timeout, 0))
    BY StartedOnTime
  <2>3. CallsOnTime'
    BY <1>0, <2>1, <2>2, CallChanges
  <2>4. CallsInv'
    <3>1. 0 \in 0..2
      OBVIOUS
    <3> QED BY <1>0, <2>1, <2>3, <3>1, StartedInv DEF locks
  <2>5. call'[t].pc = "lock" /\ \A u \in Threads \ {t} : call'[u] = call[u]
    BY <1>0, <2>1 DEF CallsOnTime, Started
  <2>6. UdpState'
    BY <1>0, <2>1 DEF UdpState, Rest
  <2> QED BY <2>4, <2>5, <2>6, UdpMoves
<1> QED BY <1>2, <1>3, <1>4, <1>5, <1>6 DEF Udp!Next, Ops

LEMMA UdpProperties == CallsInv /\ UdpState => Udp!TypeOK /\ Udp!NothingLost
<1> SUFFICES ASSUME CallsInv, UdpState PROVE Udp!TypeOK /\ Udp!NothingLost
  OBVIOUS
<1>1. Udp!TypeOK
  BY CallsTypes, UdpCalls DEF Udp!TypeOK, UdpState
<1>2. Rest(0, datagrams) = [i \in 1..datagrams |-> i]
  <2>1. datagrams \in Nat
    BY PeerAssumption DEF UdpState
  <2> QED BY <2>1 DEF Rest
<1>3. Udp!NothingLost
  BY <1>2 DEF UdpState, Udp!NothingLost
<1> QED BY <1>1, <1>3

-----------------------------------------------------------------------------
(* The whole *)

\* One part moves, and the calls are those of its client.
ConnectionsInv ==
  /\ RaceInv /\ CallsInv /\ TcpTypes /\ BytesInv /\ UdpState
  /\ part \in {"race", "threads"} => TcpCalls
  /\ part = "datagrams" => NoneHoldsBytes

LEMMA ConnectionsStart == ConnectionsInit => ConnectionsInv
<1> SUFFICES ASSUME ConnectionsInit PROVE ConnectionsInv
  OBVIOUS
<1>1. RaceInv /\ TcpInv /\ UdpState
  BY RaceInit, TcpInitInv, UdpInitState DEF ConnectionsInit
<1>2. NoneHoldsBytes
  BY BlockingCalls DEF ConnectionsInit, Blocking!Init, NoCall, Idle, Started, NoneHoldsBytes
<1> QED BY <1>1, <1>2 DEF ConnectionsInv, TcpInv

LEMMA RaceStays == RaceInv /\ UNCHANGED vars => RaceInv'
  BY RaceStep

LEMMA TcpBytesStay ==
  ASSUME TcpTypes, BytesInv, UNCHANGED tcpVars, InFlight' = InFlight
  PROVE  TcpTypes' /\ BytesInv'
  BY DEF tcpVars, TcpTypes, BytesInv, Blocking!InOrder

LEMMA CallsStay ==
  ASSUME CallsInv, UNCHANGED callVars
  PROVE  CallsInv' /\ InFlight' = InFlight
  BY DEF callVars, locks, CallsInv, CallsOnTime, OnTime, HoldInv, CallOK, InFlight

LEMMA UdpStays == UdpState /\ UNCHANGED udpVars => UdpState'
  BY DEF udpVars, UdpState, Rest

LEMMA ConnectionsStep ==
  ConnectionsInv /\ [ConnectionsNext]_<<part, vars, callVars, tcpVars, udpVars>> => ConnectionsInv'
<1> SUFFICES ASSUME ConnectionsInv, [ConnectionsNext]_<<part, vars, callVars, tcpVars, udpVars>>
             PROVE  ConnectionsInv'
  OBVIOUS
<1> USE DEF ConnectionsInv
<1>1. CASE part = "race" /\ Next /\ UNCHANGED <<part, callVars, tcpVars, udpVars>>
  <2>1. RaceInv' /\ CallsInv' /\ InFlight' = InFlight /\ UdpState'
    BY <1>1, RaceStep, CallsStay, UdpStays
  <2>2. TcpTypes' /\ BytesInv'
    BY <1>1, <2>1, TcpBytesStay
  <2>3. TcpCalls'
    BY <1>1 DEF TcpCalls, TcpCall, callVars, tcpVars
  <2> QED BY <1>1, <2>1, <2>2, <2>3
<1>2. CASE part = "threads" /\ Blocking!Next /\ UNCHANGED <<part, vars, udpVars>>
  <2>1. TcpInv'
    BY <1>2, TcpStep DEF TcpInv
  <2> QED BY <1>2, <2>1, RaceStays, UdpStays DEF TcpInv
<1>3. CASE part = "datagrams" /\ Udp!Next /\ UNCHANGED <<part, vars, tcpVars>>
  <2>1. UdpInv'
    BY <1>3, UdpStep DEF UdpInv
  <2>2. InFlight = <<>> /\ InFlight' = <<>>
    <3>1. CallsInv' => WhoHasBytes'
      BY BytesInFlight, PTL
    <3> QED BY <1>3, <2>1, <3>1, BytesInFlight DEF UdpInv, NoneHoldsBytes, WhoHasBytes
  <2>3. TcpTypes' /\ BytesInv'
    BY <1>3, <2>2, TcpBytesStay
  <2> QED BY <1>3, <2>1, <2>3, RaceStays DEF UdpInv
<1>4. CASE UNCHANGED <<part, vars, callVars, tcpVars, udpVars>>
  <2>1. RaceInv' /\ CallsInv' /\ InFlight' = InFlight /\ UdpState'
    BY <1>4, RaceStays, CallsStay, UdpStays
  <2>2. TcpTypes' /\ BytesInv'
    BY <1>4, <2>1, TcpBytesStay
  <2>3. (TcpCalls => TcpCalls') /\ (NoneHoldsBytes => NoneHoldsBytes')
    BY <1>4 DEF TcpCalls, TcpCall, NoneHoldsBytes, callVars, tcpVars
  <2> QED BY <1>4, <2>1, <2>2, <2>3
<1> QED BY <1>1, <1>2, <1>3, <1>4 DEF ConnectionsNext

LEMMA ConnectionsInvariant == ConnectionsSpec => []ConnectionsInv
  BY ConnectionsStart, ConnectionsStep, PTL DEF ConnectionsSpec

\* The race and both clients keep the types of their variables; a thread that is past
\* lock_with_timeout() has the lock of its call.
THEOREM ConnectionTypes == ConnectionsSpec => []ConnectionsTypeOK
<1>1. ConnectionsInv => ConnectionsTypeOK
  <2> SUFFICES ASSUME ConnectionsInv PROVE ConnectionsTypeOK
    OBVIOUS
  <2>1. TypeOK
    BY DEF ConnectionsInv, RaceInv
  <2>2. Udp!TypeOK
    BY UdpProperties DEF ConnectionsInv
  <2>3. Blocking!TypeOK
    BY TcpTypesOK DEF ConnectionsInv
  <2> QED BY <2>1, <2>2, <2>3 DEF ConnectionsTypeOK
<1> QED BY <1>1, ConnectionsInvariant, PTL

\* "The lock acquisition time is included in the timeout", for any number of threads,
\* any timeouts and any retry interval of the transport: no call of a blocking client,
\* TCP or UDP, takes longer than it was allowed.
THEOREM CallsAreInTime == ConnectionsSpec => []InTime
<1>1. ConnectionsInv => InTime
  BY CallsInTime DEF ConnectionsInv, CallsInv
<1> QED BY <1>1, ConnectionsInvariant, PTL

\* Whatever times out, and however many threads call recv_packet(), the packets returned,
\* what the consumer keeps, what a call has in hand and what the socket holds are the
\* bytes that arrived, in their order; and the datagrams likewise.
THEOREM NothingIsLost == ConnectionsSpec => []NothingLost
<1>1. ConnectionsInv => NothingLost
  <2> SUFFICES ASSUME ConnectionsInv PROVE NothingLost
    OBVIOUS
  <2>1. Blocking!NothingLost
    BY DEF ConnectionsInv, BytesInv, Rest, InFlight, Blocking!NothingLost
  <2> QED BY <2>1, UdpProperties DEF ConnectionsInv, NothingLost
<1> QED BY <1>1, ConnectionsInvariant, PTL

\* The caller of _staggered_race_connection_impl() gets the one socket that is open; when
\* it gets none, none is open, and every address failed unless something was thrown.
THEOREM RaceLeavesOneSocket == ConnectionsSpec => []OneSocketLeft
<1>1. ConnectionsInv => OneSocketLeft
  BY DEF ConnectionsInv, RaceInv
<1> QED BY <1>1, ConnectionsInvariant, PTL
=============================================================================
