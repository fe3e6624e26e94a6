---------------------------- MODULE Backend_proofs ----------------------------
(***************************************************************************)
(* What MCBackend checks on small instances, for every value of its        *)
(* constants.  Each part has its own inductive invariant, which the steps  *)
(* of the other parts leave alone.                                         *)
(***************************************************************************)
EXTENDS MCBackend, SequenceLemmas, TLAPS

(***************************************************************************)
(* The lock on events                                                      *)
(***************************************************************************)

InAcquire == {"waiting", "woken", "cancelled"}

\* A woken task is the first waiter of an unlocked lock: nobody can take the
\* lock before it runs, as acquire() sees a waiter.
WokenIsFirst ==
  \A t \in Tasks : pc[t] = "woken" => ~locked /\ waiters # <<>> /\ Head(waiters) = t

LockInv == TypeOK /\ MutualExclusion /\ NoLostWakeup /\ WokenIsFirst

LEMMA LockInit == Init => LockInv
<1> SUFFICES ASSUME Init PROVE LockInv
  OBVIOUS
<1>1. waiters \in Seq(Tasks) /\ ToSet(waiters) = {} /\ IsInjective(waiters)
  <2>1. waiters = <<>> /\ DOMAIN waiters = {}
    BY DEF Init
  <2> QED BY <2>1, EmptySeq DEF ToSet, IsInjective
<1> QED BY <1>1 DEF Init, LockInv, TypeOK, MutualExclusion, NoLostWakeup, WokenIsFirst

LEMMA HeadInQueue ==
  ASSUME NEW q \in Seq(Tasks), q # <<>>
  PROVE  Head(q) \in Tasks /\ Head(q) \in ToSet(q)
<1>1. Len(q) \in Nat /\ 1 \in 1..Len(q) /\ Head(q) = q[1] /\ DOMAIN q = 1..Len(q)
  BY LenProperties
<1> QED BY <1>1, HeadTailProperties DEF ToSet

\* The queue after one more task.
LEMMA AppendQueue ==
  ASSUME NEW q \in Seq(Tasks), IsInjective(q), NEW t \in Tasks, t \notin ToSet(q)
  PROVE  /\ Append(q, t) \in Seq(Tasks) /\ Append(q, t) # <<>> /\ IsInjective(Append(q, t))
         /\ ToSet(Append(q, t)) = ToSet(q) \cup {t}
         /\ Head(Append(q, t)) = IF q = <<>> THEN t ELSE Head(q)
<1> DEFINE s == Append(q, t)
<1>0. Len(q) \in Nat /\ DOMAIN q = 1..Len(q)
  BY LenProperties
<1>1. /\ s \in Seq(Tasks) /\ s # <<>> /\ Len(s) = Len(q) + 1
      /\ \A i \in 1..Len(q) : s[i] = q[i]
      /\ s[Len(q) + 1] = t
  BY AppendProperties
<1>2. DOMAIN s = 1..(Len(q) + 1)
  BY <1>1, LenProperties
<1>3. Head(s) = IF q = <<>> THEN t ELSE Head(q)
  BY HeadTailAppend
<1> HIDE DEF s
<1>4. \A i \in 1..Len(q) : q[i] # t
  BY <1>0 DEF ToSet
<1>5. IsInjective(s)
  BY <1>0, <1>1, <1>2, <1>4 DEF IsInjective
<1>6. ToSet(s) = ToSet(q) \cup {t}
  BY <1>0, <1>1, <1>2 DEF ToSet
<1> QED BY <1>1, <1>3, <1>5, <1>6 DEF s

LEMMA LockAcquire ==
  ASSUME LockInv, NEW t \in Tasks, Acquire(t)
  PROVE  LockInv'
<1>1. CASE ~MustWait /\ locked' = TRUE /\ pc' = [pc EXCEPT ![t] = "holding"] /\ UNCHANGED waiters
  <2>1. ~locked /\ waiters = <<>> /\ pc[t] = "idle"
    BY <1>1 DEF MustWait, Acquire
  <2> QED BY <1>1, <2>1 DEF LockInv, TypeOK, MutualExclusion, NoLostWakeup, WokenIsFirst
<1>2. CASE /\ MustWait /\ waiters' = Append(waiters, t)
           /\ pc' = [pc EXCEPT ![t] = "waiting"] /\ UNCHANGED locked
  <2>1. pc[t] = "idle" /\ t \notin ToSet(waiters) /\ (locked \/ waiters # <<>>)
    BY <1>2 DEF Acquire, MustWait, LockInv, TypeOK
  <2>2. /\ waiters' \in Seq(Tasks) /\ waiters' # <<>> /\ IsInjective(waiters')
        /\ ToSet(waiters') = ToSet(waiters) \cup {t}
        /\ waiters # <<>> => Head(waiters') = Head(waiters)
    BY <1>2, <2>1, AppendQueue DEF LockInv, TypeOK
  <2>3. TypeOK'
    BY <1>2, <2>1, <2>2 DEF LockInv, TypeOK
  <2>4. MutualExclusion'
    BY <1>2, <2>1 DEF LockInv, TypeOK, MutualExclusion
  <2>5. NoLostWakeup' /\ WokenIsFirst'
    <3>1. waiters # <<>> => Head(waiters) # t
      BY <2>1, HeadInQueue DEF LockInv, TypeOK
    <3>2. waiters # <<>> => Head(waiters) \in Tasks
      BY HeadInQueue DEF LockInv, TypeOK
    <3> QED BY <1>2, <2>1, <2>2, <3>1, <3>2 DEF LockInv, TypeOK, NoLostWakeup, WokenIsFirst
  <2> QED BY <2>3, <2>4, <2>5 DEF LockInv
<1> QED BY <1>1, <1>2 DEF Acquire

\* The queue after a task that is in it leaves.
LEMMA DequeuedQueue ==
  ASSUME LockInv, NEW t \in Tasks, pc[t] \in InAcquire
  PROVE  /\ Dequeued(t) \in Seq(Tasks) /\ IsInjective(Dequeued(t))
         /\ ToSet(Dequeued(t)) = ToSet(waiters) \ {t}
         /\ waiters # <<>> /\ (Head(waiters) # t => Dequeued(t) # <<>> /\ Head(Dequeued(t)) = Head(waiters))
<1>1. t \in ToSet(waiters)
  BY DEF LockInv, TypeOK, InAcquire
<1>2. waiters # <<>>
  BY <1>1 DEF ToSet
<1> QED BY <1>1, <1>2, RemoveFirstProperties DEF Dequeued, LockInv, TypeOK

LEMMA LockResume ==
  ASSUME LockInv, NEW t \in Tasks, Resume(t)
  PROVE  LockInv'
<1>1. /\ pc[t] = "woken" /\ locked' = TRUE /\ pc' = [pc EXCEPT ![t] = "holding"] /\ waiters' = Dequeued(t)
      /\ ~locked /\ Head(waiters) = t
  BY DEF Resume, LockInv, WokenIsFirst
<1>2. /\ Dequeued(t) \in Seq(Tasks) /\ IsInjective(Dequeued(t))
      /\ ToSet(Dequeued(t)) = ToSet(waiters) \ {t}
  BY <1>1, DequeuedQueue DEF InAcquire
<1>3. TypeOK'
  BY <1>1, <1>2 DEF LockInv, TypeOK
<1>4. MutualExclusion' /\ NoLostWakeup'
  BY <1>1 DEF LockInv, TypeOK, MutualExclusion, NoLostWakeup
<1>5. WokenIsFirst'
  BY <1>1 DEF LockInv, TypeOK, WokenIsFirst
<1> QED BY <1>3, <1>4, <1>5 DEF LockInv

\* What waking the first waiter of an unlocked lock establishes.
LEMMA WakeFirst ==
  ASSUME NEW q \in Seq(Tasks), NEW p \in [Tasks -> {"idle", "waiting", "woken", "cancelled", "holding"}],
         ToSet(q) = {u \in Tasks : p[u] \in InAcquire},
         \A u \in Tasks : p[u] = "woken" => q # <<>> /\ Head(q) = u
  PROVE  /\ WokenFirst(q, p) \in [Tasks -> {"idle", "waiting", "woken", "cancelled", "holding"}]
         /\ \A u \in Tasks : (p[u] \in InAcquire <=> WokenFirst(q, p)[u] \in InAcquire)
                             /\ (p[u] = "holding" <=> WokenFirst(q, p)[u] = "holding")
                             /\ (WokenFirst(q, p)[u] = "woken" => q # <<>> /\ Head(q) = u)
         /\ q # <<>> => WokenFirst(q, p)[Head(q)] \in {"woken", "cancelled"}
<1>1. q # <<>> => Head(q) \in Tasks /\ p[Head(q)] \in InAcquire
  BY HeadInQueue
<1> QED BY <1>1 DEF WokenFirst, InAcquire

LEMMA LockUnwind ==
  ASSUME LockInv, NEW t \in Tasks, Unwind(t)
  PROVE  LockInv'
<1> DEFINE p == [pc EXCEPT ![t] = "idle"]
<1>1. /\ pc[t] = "cancelled" /\ waiters' = Dequeued(t) /\ UNCHANGED locked
      /\ pc' = IF locked THEN p ELSE WokenFirst(waiters', p)
  BY DEF Unwind, PassesOn, LockInv, TypeOK
<1>2. /\ waiters' \in Seq(Tasks) /\ IsInjective(waiters') /\ ToSet(waiters') = ToSet(waiters) \ {t}
      /\ waiters # <<>> /\ (Head(waiters) # t => waiters' # <<>> /\ Head(waiters') = Head(waiters))
  BY <1>1, DequeuedQueue DEF InAcquire
<1>3. /\ p \in [Tasks -> {"idle", "waiting", "woken", "cancelled", "holding"}]
      /\ ToSet(waiters') = {u \in Tasks : p[u] \in InAcquire}
      /\ \A u \in Tasks : p[u] = "holding" <=> pc[u] = "holding"
      /\ \A u \in Tasks : p[u] = "woken" => ~locked /\ waiters' # <<>> /\ Head(waiters') = u
  BY <1>1, <1>2 DEF LockInv, TypeOK, WokenIsFirst, InAcquire
<1> HIDE DEF p
<1>4. CASE locked
  BY <1>1, <1>2, <1>3, <1>4 DEF LockInv, TypeOK, MutualExclusion, NoLostWakeup, WokenIsFirst, InAcquire
<1>5. CASE ~locked
  <2>1. /\ pc' \in [Tasks -> {"idle", "waiting", "woken", "cancelled", "holding"}]
        /\ \A u \in Tasks : (p[u] \in InAcquire <=> pc'[u] \in InAcquire)
                            /\ (p[u] = "holding" <=> pc'[u] = "holding")
                            /\ (pc'[u] = "woken" => waiters' # <<>> /\ Head(waiters') = u)
        /\ waiters' # <<>> => pc'[Head(waiters')] \in {"woken", "cancelled"}
    BY <1>1, <1>2, <1>3, <1>5, WakeFirst
  <2> QED BY <1>1, <1>2, <1>3, <1>5, <2>1 DEF LockInv, TypeOK, MutualExclusion, NoLostWakeup, WokenIsFirst, InAcquire
<1> QED BY <1>4, <1>5

LEMMA LockRelease ==
  ASSUME LockInv, NEW t \in Tasks, Release(t)
  PROVE  LockInv'
<1> DEFINE p == [pc EXCEPT ![t] = "idle"]
<1>1. /\ pc[t] = "holding" /\ locked' = FALSE /\ UNCHANGED waiters /\ pc' = WokenFirst(waiters, p)
      /\ locked
  BY DEF Release, LockInv, MutualExclusion
<1>2. /\ p \in [Tasks -> {"idle", "waiting", "woken", "cancelled", "holding"}]
      /\ ToSet(waiters) = {u \in Tasks : p[u] \in InAcquire}
      /\ \A u \in Tasks : p[u] # "holding" /\ p[u] # "woken"
  BY <1>1 DEF LockInv, TypeOK, MutualExclusion, WokenIsFirst, InAcquire
<1> HIDE DEF p
<1>3. /\ pc' \in [Tasks -> {"idle", "waiting", "woken", "cancelled", "holding"}]
      /\ \A u \in Tasks : (p[u] \in InAcquire <=> pc'[u] \in InAcquire)
                          /\ (p[u] = "holding" <=> pc'[u] = "holding")
                          /\ (pc'[u] = "woken" => waiters # <<>> /\ Head(waiters) = u)
      /\ waiters # <<>> => pc'[Head(waiters)] \in {"woken", "cancelled"}
  BY <1>1, <1>2, WakeFirst DEF LockInv, TypeOK
<1> QED BY <1>1, <1>2, <1>3 DEF LockInv, TypeOK, MutualExclusion, NoLostWakeup, WokenIsFirst, InAcquire

LEMMA LockStep == LockInv /\ [Next]_vars => LockInv'
<1> SUFFICES ASSUME LockInv, [Next]_vars PROVE LockInv'
  OBVIOUS
<1>1. ASSUME NEW t \in Tasks, Cancel(t) PROVE LockInv'
  <2>1. /\ pc[t] \in {"waiting", "woken"} /\ pc' = [pc EXCEPT ![t] = "cancelled"]
        /\ UNCHANGED <<locked, waiters>>
    BY <1>1 DEF Cancel
  <2>2. waiters # <<>> => Head(waiters) \in Tasks
    BY HeadInQueue DEF LockInv, TypeOK
  <2> QED BY <2>1, <2>2 DEF LockInv, TypeOK, MutualExclusion, NoLostWakeup, WokenIsFirst
<1>2. CASE UNCHANGED vars
  BY <1>2 DEF vars, LockInv, TypeOK, MutualExclusion, NoLostWakeup, WokenIsFirst
<1> QED BY <1>1, <1>2, LockAcquire, LockResume, LockUnwind, LockRelease DEF Next

-----------------------------------------------------------------------------
(* The order of the queues *)

LEMMA BeforeAppend ==
  ASSUME NEW S, NEW q \in Seq(S), NEW t \in S, NEW u, NEW v
  PROVE  Before(Append(q, t), u, v) <=> Before(q, u, v) \/ (v = t /\ u \in ToSet(q))
<1> DEFINE s == Append(q, t)
<1>1. Len(q) \in Nat /\ DOMAIN q = 1..Len(q)
  BY LenProperties
<1>2. /\ s \in Seq(S) /\ Len(s) = Len(q) + 1 /\ s[Len(q) + 1] = t
      /\ \A i \in 1..Len(q) : s[i] = q[i]
  BY AppendProperties
<1>3. DOMAIN s = 1..(Len(q) + 1)
  BY <1>2, LenProperties
<1> HIDE DEF s
<1>4. ASSUME Before(s, u, v) PROVE Before(q, u, v) \/ (v = t /\ u \in ToSet(q))
  <2>1. PICK i, j \in 1..(Len(q) + 1) : i < j /\ s[i] = u /\ s[j] = v
    BY <1>3, <1>4 DEF Before
  <2>2. i \in 1..Len(q) /\ q[i] = u
    BY <1>1, <1>2, <2>1
  <2>3. CASE j \in 1..Len(q)
    BY <1>1, <1>2, <2>1, <2>2, <2>3 DEF Before
  <2>4. CASE j = Len(q) + 1
    BY <1>1, <1>2, <2>1, <2>2, <2>4 DEF ToSet
  <2> QED BY <1>1, <2>3, <2>4
<1>5. ASSUME Before(q, u, v) PROVE Before(s, u, v)
  <2>1. PICK i, j \in 1..Len(q) : i < j /\ q[i] = u /\ q[j] = v
    BY <1>1, <1>5 DEF Before
  <2>2. i \in DOMAIN s /\ j \in DOMAIN s /\ s[i] = u /\ s[j] = v
    BY <1>1, <1>2, <1>3, <2>1
  <2> QED BY <2>1, <2>2 DEF Before
<1>6. ASSUME v = t, u \in ToSet(q) PROVE Before(s, u, v)
  <2>1. PICK i \in 1..Len(q) : q[i] = u
    BY <1>1, <1>6 DEF ToSet
  <2>2. i \in DOMAIN s /\ Len(q) + 1 \in DOMAIN s /\ i < Len(q) + 1 /\ s[i] = u
    BY <1>1, <1>2, <1>3, <2>1
  <2> QED BY <1>2, <1>6, <2>2 DEF Before
<1> QED BY <1>4, <1>5, <1>6 DEF s

LEMMA BeforeRemove ==
  ASSUME NEW S, NEW q \in Seq(S), IsInjective(q), NEW e \in ToSet(q), NEW u, NEW v
  PROVE  Before(RemoveFirst(q, e), u, v) <=> Before(q, u, v) /\ u # e /\ v # e
<1> DEFINE s == RemoveFirst(q, e)
<1>1. Len(q) \in Nat /\ DOMAIN q = 1..Len(q)
  BY LenProperties
<1>2. s \in Seq(S) /\ Len(s) = Len(q) - 1
  BY RemoveFirstPlaces
<1>3. PICK m \in 1..Len(q) :
        q[m] = e /\ \A i \in 1..(Len(q) - 1) : s[i] = IF i < m THEN q[i] ELSE q[i + 1]
  BY RemoveFirstPlaces
<1>4. DOMAIN s = 1..(Len(q) - 1)
  BY <1>2, LenProperties
<1>5. \A i, j \in 1..Len(q) : q[i] = q[j] => i = j
  BY <1>1 DEF IsInjective
<1> HIDE DEF s
<1>6. ASSUME Before(s, u, v) PROVE Before(q, u, v) /\ u # e /\ v # e
  <2>1. PICK i, j \in 1..(Len(q) - 1) : i < j /\ s[i] = u /\ s[j] = v
    BY <1>4, <1>6 DEF Before
  <2>2. PICK x \in 1..Len(q) : q[x] = u /\ x # m /\ x = IF i < m THEN i ELSE i + 1
    BY <1>1, <1>3, <2>1
  <2>3. PICK y \in 1..Len(q) : q[y] = v /\ y # m /\ y = IF j < m THEN j ELSE j + 1
    BY <1>1, <1>3, <2>1
  <2>4. x < y
    BY <1>1, <2>1, <2>2, <2>3
  <2> QED BY <1>1, <1>3, <1>5, <2>2, <2>3, <2>4 DEF Before
<1>7. ASSUME Before(q, u, v), u # e, v # e PROVE Before(s, u, v)
  <2>1. PICK x, y \in 1..Len(q) : x < y /\ q[x] = u /\ q[y] = v
    BY <1>1, <1>7 DEF Before
  <2>2. x # m /\ y # m
    BY <1>3, <1>7, <2>1
  <2>3. \A k \in 1..Len(q) : k # m =>
          \E i \in 1..(Len(q) - 1) : s[i] = q[k] /\ i = IF k < m THEN k ELSE k - 1
    <3>1. ASSUME NEW k \in 1..Len(q), k < m PROVE k \in 1..(Len(q) - 1) /\ s[k] = q[k]
      BY <1>1, <1>3, <3>1
    <3>2. ASSUME NEW k \in 1..Len(q), k > m PROVE k - 1 \in 1..(Len(q) - 1) /\ s[k - 1] = q[k]
      <4>1. k - 1 \in 1..(Len(q) - 1) /\ ~(k - 1 < m) /\ (k - 1) + 1 = k
        BY <1>1, <3>2
      <4> QED BY <1>3, <4>1
    <3> QED BY <1>1, <3>1, <3>2
  <2>4. PICK i \in 1..(Len(q) - 1) : s[i] = u /\ i = IF x < m THEN x ELSE x - 1
    BY <2>1, <2>2, <2>3
  <2>5. PICK j \in 1..(Len(q) - 1) : s[j] = v /\ j = IF y < m THEN y ELSE y - 1
    BY <2>1, <2>2, <2>3
  <2>6. i < j
    BY <1>1, <2>1, <2>2, <2>4, <2>5
  <2> QED BY <1>4, <2>4, <2>5, <2>6 DEF Before
<1> QED BY <1>6, <1>7 DEF s

LEMMA HeadIsFirst ==
  ASSUME NEW S, NEW q \in Seq(S), IsInjective(q), q # <<>>, NEW u
  PROVE  ~Before(q, u, Head(q))
<1>1. Len(q) \in Nat /\ DOMAIN q = 1..Len(q) /\ 1 \in 1..Len(q) /\ Head(q) = q[1]
  BY LenProperties, EmptySeq
<1>2. \A i, j \in 1..Len(q) : q[i] = q[j] => i = j
  BY <1>1 DEF IsInjective
<1> QED BY <1>1, <1>2 DEF Before

-----------------------------------------------------------------------------
(* The lock on events is a fair mutex *)

LineTypes == InLine = {t \in Tasks : pc[t] \in {"waiting", "woken"}} /\ DOMAIN Line = InLine

LEMMA LockLine == LockInv => LineTypes
BY DEF LockInv, TypeOK, InLine, Line, LineTypes

LEMMA LineWithout ==
  ASSUME NEW t, InLine' = InLine \ {t},
         \A u, v \in InLine' : Before(waiters, u, v)' <=> Before(waiters, u, v)
  PROVE  Line' = Mutex!Without(t)
BY DEF Line, Mutex!Without

LEMMA LineKept ==
  ASSUME InLine' = InLine, \A u, v \in InLine : Before(waiters, u, v)' <=> Before(waiters, u, v)
  PROVE  Line' = Line
BY DEF Line

LEMMA LockSimulated == LockInv /\ LockInv' /\ [Next]_vars => [Mutex!Next]_(Mutex!vars)
<1> SUFFICES ASSUME LockInv, LockInv', [Next]_vars PROVE Mutex!Next \/ UNCHANGED Mutex!vars
  BY DEF Mutex!vars
<1>1. /\ waiters \in Seq(Tasks) /\ IsInjective(waiters)
      /\ ToSet(waiters) = {t \in Tasks : pc[t] \in InAcquire}
      /\ pc \in [Tasks -> {"idle", "waiting", "woken", "cancelled", "holding"}]
  BY DEF LockInv, TypeOK, InAcquire
<1>2. /\ InLine = {t \in Tasks : pc[t] \in {"waiting", "woken"}} /\ DOMAIN Line = InLine
      /\ InLine' = {t \in Tasks : pc'[t] \in {"waiting", "woken"}} /\ DOMAIN Line' = InLine'
  <2>1. LockInv' => LineTypes'
    BY LockLine, PTL
  <2> QED BY <2>1, LockLine DEF LineTypes
<1>3. ASSUME NEW t \in Tasks, Acquire(t) PROVE Mutex!Next
  <2>1. CASE ~MustWait /\ locked' = TRUE /\ pc' = [pc EXCEPT ![t] = "holding"] /\ UNCHANGED waiters
    <3>1. ~locked /\ waiters = <<>> /\ ToSet(waiters) = {}
      BY <2>1 DEF MustWait, ToSet
    <3>2. InLine = {} /\ InLine' = {}
      BY <1>1, <2>1, <3>1 DEF InLine
    <3>3. Holders = {} /\ Holders' = {t}
      BY <1>1, <2>1, <3>1 DEF LockInv, MutualExclusion, Holders
    <3>4. Line' = Mutex!Without(t)
      BY <3>2, LineWithout
    <3> QED BY <1>2, <3>2, <3>3, <3>4 DEF Mutex!Enter, Mutex!Next
  <2>2. CASE /\ MustWait /\ waiters' = Append(waiters, t)
             /\ pc' = [pc EXCEPT ![t] = "waiting"] /\ UNCHANGED locked
    <3>1. pc[t] = "idle" /\ t \notin InLine /\ t \notin Holders /\ InLine' = InLine \cup {t} /\ Holders' = Holders
      BY <1>1, <1>2, <1>3, <2>2 DEF Acquire, Holders
    <3>2. t \notin ToSet(waiters) /\ InLine \subseteq ToSet(waiters)
      BY <1>1, <3>1 DEF InLine, InAcquire
    <3>3. \A u, v : Before(waiters, u, v)' <=> Before(waiters, u, v) \/ (v = t /\ u \in ToSet(waiters))
      BY <1>1, <2>2, BeforeAppend
    <3>4. \A u : ~Before(waiters, u, t) /\ ~Before(waiters, t, u)
      BY <3>2 DEF Before, ToSet
    <3>5. Line' = [u \in DOMAIN Line \cup {t} |-> IF u = t THEN DOMAIN Line ELSE Line[u]]
      <4>1. \A v \in InLine : {u \in InLine' : Before(waiters, u, v)'} = {u \in InLine : Before(waiters, u, v)}
        BY <3>1, <3>2, <3>3, <3>4
      <4>2. {u \in InLine' : Before(waiters, u, t)'} = InLine
        BY <3>1, <3>2, <3>3, <3>4
      <4> QED BY <1>2, <3>1, <4>1, <4>2 DEF Line
    <3> QED BY <1>2, <3>1, <3>5 DEF Mutex!Ask, Mutex!Next
  <2> QED BY <1>3, <2>1, <2>2 DEF Acquire
<1>4. ASSUME NEW t \in Tasks, Resume(t) PROVE Mutex!Next
  <2>1. /\ pc[t] = "woken" /\ pc' = [pc EXCEPT ![t] = "holding"] /\ waiters' = RemoveFirst(waiters, t)
        /\ ~locked /\ waiters # <<>> /\ Head(waiters) = t
    BY <1>4 DEF Resume, Dequeued, LockInv, WokenIsFirst
  <2>2. Holders = {} /\ Holders' = {t} /\ InLine' = InLine \ {t} /\ t \in InLine /\ t \in ToSet(waiters)
    BY <1>1, <1>2, <2>1 DEF LockInv, MutualExclusion, Holders, InAcquire
  <2>3. Mutex!First(t)
    <3>1. \A u : ~Before(waiters, u, t)
      BY <1>1, <2>1, HeadIsFirst
    <3> QED BY <1>2, <2>2, <3>1 DEF Mutex!First, Line
  <2>4. Line' = Mutex!Without(t)
    <3>1. \A u, v : Before(waiters, u, v)' <=> Before(waiters, u, v) /\ u # t /\ v # t
      BY <1>1, <2>1, <2>2, BeforeRemove
    <3> QED BY <2>2, <3>1, LineWithout
  <2> QED BY <2>2, <2>3, <2>4 DEF Mutex!Enter, Mutex!Next
<1>5. ASSUME NEW t \in Tasks, Cancel(t) PROVE Mutex!Next \/ UNCHANGED Mutex!vars
  <2>1. pc[t] \in {"waiting", "woken"} /\ pc' = [pc EXCEPT ![t] = "cancelled"] /\ waiters' = waiters
    BY <1>5 DEF Cancel
  <2>2. t \in InLine /\ InLine' = InLine \ {t} /\ Holders' = Holders
    BY <1>1, <1>2, <2>1 DEF Holders
  <2>3. Line' = Mutex!Without(t)
    BY <2>1, <2>2, LineWithout DEF Before
  <2> QED BY <1>2, <2>2, <2>3 DEF Mutex!GiveUp, Mutex!Next
<1>6. ASSUME NEW t \in Tasks, Unwind(t) PROVE UNCHANGED Mutex!vars
  <2>1. pc[t] = "cancelled" /\ waiters' = RemoveFirst(waiters, t) /\ t \in ToSet(waiters)
    BY <1>1, <1>6 DEF Unwind, Dequeued, InAcquire
  <2>2. /\ \A u \in Tasks : pc'[u] \in {"waiting", "woken"} <=> pc[u] \in {"waiting", "woken"}
        /\ \A u \in Tasks : pc'[u] = "holding" <=> pc[u] = "holding"
    BY <1>1, <1>6 DEF Unwind, WokenFirst
  <2>3. InLine' = InLine /\ Holders' = Holders /\ t \notin InLine
    BY <1>2, <2>1, <2>2 DEF Holders
  <2>4. \A u, v : Before(waiters, u, v)' <=> Before(waiters, u, v) /\ u # t /\ v # t
    BY <1>1, <2>1, BeforeRemove
  <2>5. Line' = Line
    BY <2>3, <2>4, LineKept
  <2> QED BY <2>3, <2>5 DEF Mutex!vars
<1>7. ASSUME NEW t \in Tasks, Release(t) PROVE Mutex!Next
  <2>1. pc[t] = "holding" /\ waiters' = waiters /\ pc' = WokenFirst(waiters, [pc EXCEPT ![t] = "idle"])
    BY <1>7 DEF Release
  <2>2. /\ \A u \in Tasks : pc'[u] \in {"waiting", "woken"} <=> pc[u] \in {"waiting", "woken"}
        /\ \A u \in Tasks : pc'[u] # "holding"
    BY <1>1, <2>1 DEF WokenFirst, LockInv, MutualExclusion
  <2>3. InLine' = InLine /\ Holders = {t} /\ Holders' = {}
    BY <1>2, <2>1, <2>2 DEF Holders, LockInv, MutualExclusion
  <2>4. Line' = Line
    BY <2>1, <2>3, LineKept DEF Before
  <2> QED BY <2>3, <2>4 DEF Mutex!Leave, Mutex!Next
<1>8. CASE UNCHANGED vars
  <2>1. Holders' = Holders /\ InLine' = InLine /\ waiters' = waiters
    BY <1>8 DEF vars, Holders, InLine
  <2>2. Line' = Line
    BY <2>1, LineKept DEF Before
  <2> QED BY <2>1, <2>2 DEF Mutex!vars
<1> QED BY <1>3, <1>4, <1>5, <1>6, <1>7, <1>8 DEF Next

LEMMA LockRefinedInit == Init => Mutex!Init
<1> SUFFICES ASSUME Init PROVE Mutex!Init
  OBVIOUS
<1>1. ToSet(waiters) = {} /\ InLine = {} /\ Holders = {}
  BY DEF Init, ToSet, InLine, Holders
<1>2. DOMAIN Line = {}
  BY <1>1 DEF Line
<1> QED BY <1>1, <1>2 DEF Mutex!Init

-----------------------------------------------------------------------------
(***************************************************************************)
(* The lock on a parking lot                                               *)
(***************************************************************************)

\* What the instances take of the sequences is what is known of them.
LEMMA ParkingOperators ==
  /\ \A q, x : Parking!RemoveFirst(q, x) = RemoveFirst(q, x)
  /\ \A q : Parking!ToSet(q) = ToSet(q)
  /\ \A q, u, v : Parking!Before(q, u, v) <=> Before(q, u, v)
<1>1. \A q, x : Parking!RemoveFirst(q, x) = RemoveFirst(q, x)
  BY DEF Parking!RemoveFirst, RemoveFirst, Parking!RemoveAt, RemoveAt, Parking!SelectInSeq, SelectInSeq,
         Parking!Min, Min
<1>2. \A q : Parking!ToSet(q) = ToSet(q)
  BY DEF Parking!ToSet, ToSet
<1>3. \A q, u, v : Parking!Before(q, u, v) <=> Before(q, u, v)
  BY DEF Parking!Before, Before
<1> QED BY <1>1, <1>2, <1>3

ParkTypes ==
  /\ lotLocked \in BOOLEAN
  /\ lot \in Seq(Tasks) /\ IsInjective(lot)
  /\ lotPc \in [Tasks -> {"idle", "parked", "granted", "holding"}]
  /\ ToSet(lot) = {t \in Tasks : lotPc[t] = "parked"}

\* The lock has one owner, from the hand-over on, and _locked says whether it has one.
ParkInv ==
  /\ ParkTypes
  /\ \A t, u \in Parking!Owners : t = u
  /\ lotLocked <=> Parking!Owners # {}
  /\ Parking!NobodyStranded

LEMMA ParkInit == Parking!Init => ParkInv
<1> SUFFICES ASSUME Parking!Init PROVE ParkInv
  OBVIOUS
<1>1. lot \in Seq(Tasks) /\ ToSet(lot) = {} /\ IsInjective(lot)
  <2>1. lot = <<>> /\ DOMAIN lot = {}
    BY DEF Parking!Init
  <2> QED BY <2>1, EmptySeq DEF ToSet, IsInjective
<1>2. Parking!Owners = {}
  BY DEF Parking!Init, Parking!Owners
<1> QED BY <1>1, <1>2 DEF Parking!Init, ParkInv, ParkTypes, Parking!NobodyStranded

\* The effect of an acquire() that parks, and of a task that leaves the lot.
LEMMA ParkAcquire ==
  ASSUME ParkInv, NEW t \in Tasks, Parking!Acquire(t)
  PROVE  ParkInv'
<1>1. lotPc[t] = "idle" /\ t \notin Parking!Owners /\ t \notin ToSet(lot)
  BY DEF Parking!Acquire, Parking!Owners, ParkInv, ParkTypes
<1>2. CASE /\ lotLocked \/ lot # <<>>
           /\ lot' = Append(lot, t) /\ lotPc' = [lotPc EXCEPT ![t] = "parked"] /\ UNCHANGED lotLocked
  <2>1. lot' \in Seq(Tasks) /\ lot' # <<>> /\ IsInjective(lot') /\ ToSet(lot') = ToSet(lot) \cup {t}
    BY <1>1, <1>2, AppendQueue DEF ParkInv, ParkTypes
  <2>2. Parking!Owners' = Parking!Owners
    BY <1>1, <1>2 DEF Parking!Owners, ParkInv, ParkTypes
  <2>3. ParkTypes'
    BY <1>2, <2>1 DEF ParkInv, ParkTypes
  <2>4. lotLocked
    BY <1>2 DEF ParkInv, Parking!NobodyStranded
  <2> QED BY <1>2, <2>2, <2>3, <2>4 DEF ParkInv, Parking!NobodyStranded
<1>3. CASE ~lotLocked /\ lot = <<>> /\ lotLocked' = TRUE /\ lotPc' = [lotPc EXCEPT ![t] = "holding"] /\ UNCHANGED lot
  <2>1. Parking!Owners' = {t}
    BY <1>3 DEF Parking!Owners, ParkInv, ParkTypes
  <2>2. ParkTypes'
    BY <1>1, <1>3 DEF ParkInv, ParkTypes
  <2> QED BY <1>3, <2>1, <2>2 DEF ParkInv, Parking!NobodyStranded
<1> QED BY <1>2, <1>3 DEF Parking!Acquire

LEMMA ParkCancel ==
  ASSUME ParkInv, NEW t \in Tasks, Parking!Cancel(t)
  PROVE  ParkInv' /\ lot' = RemoveFirst(lot, t) /\ t \in ToSet(lot) /\ Parking!Owners' = Parking!Owners
<1>1. /\ lotPc[t] = "parked" /\ lot' = RemoveFirst(lot, t) /\ lotPc' = [lotPc EXCEPT ![t] = "idle"]
      /\ UNCHANGED lotLocked /\ t \in ToSet(lot)
  BY ParkingOperators DEF Parking!Cancel, Parking!Unparked, ParkInv, ParkTypes
<1>2. /\ lot' \in Seq(Tasks) /\ IsInjective(lot') /\ ToSet(lot') = ToSet(lot) \ {t}
  BY <1>1, RemoveFirstProperties DEF ParkInv, ParkTypes
<1>3. Parking!Owners' = Parking!Owners
  BY <1>1 DEF Parking!Owners, ParkInv, ParkTypes
<1>4. ParkTypes'
  BY <1>1, <1>2 DEF ParkInv, ParkTypes
<1>5. lotLocked
  <2>1. lot # <<>>
    BY <1>1 DEF ToSet
  <2> QED BY <2>1 DEF ParkInv, Parking!NobodyStranded
<1> QED BY <1>1, <1>3, <1>4, <1>5 DEF ParkInv, Parking!NobodyStranded

\* The lock goes from its holder to the first parked task, or is unlocked.
LEMMA ParkRelease ==
  ASSUME ParkInv, NEW t \in Tasks, Parking!Release(t)
  PROVE  /\ ParkInv' /\ Parking!Owners = {t}
         /\ \/ lot' = lot /\ Parking!Owners' = {}
            \/ /\ lot # <<>> /\ lot' = RemoveFirst(lot, Head(lot))
               /\ Head(lot) \in ToSet(lot) /\ Parking!Owners' = {Head(lot)}
<1>1. lotPc[t] = "holding" /\ (lotLocked' <=> lot # <<>>)
  BY DEF Parking!Release, Parking!StaysLocked
<1>2. Parking!Owners = {t}
  BY <1>1 DEF ParkInv, Parking!Owners
<1>3. CASE lot = <<>>
  <2>1. lotPc' = [lotPc EXCEPT ![t] = "idle"] /\ UNCHANGED lot /\ ~lotLocked'
    BY <1>1, <1>3 DEF Parking!Release
  <2>2. Parking!Owners' = {}
    BY <1>2, <2>1 DEF Parking!Owners, ParkInv, ParkTypes
  <2>3. ParkTypes'
    BY <1>1, <1>3, <2>1 DEF ParkInv, ParkTypes, Parking!Release, Parking!StaysLocked
  <2> QED BY <1>2, <1>3, <2>1, <2>2, <2>3 DEF ParkInv, Parking!NobodyStranded
<1>4. CASE lot # <<>>
  <2> DEFINE h == Head(lot)
  <2>1. /\ lot' = RemoveFirst(lot, h) /\ lotPc' = [lotPc EXCEPT ![t] = "idle", ![h] = "granted"] /\ lotLocked'
    BY <1>1, <1>4, ParkingOperators DEF Parking!Release, Parking!Unparked, Parking!NextOf
  <2>2. h \in Tasks /\ h \in ToSet(lot)
    BY <1>4, HeadInQueue DEF ParkInv, ParkTypes
  <2>3. lot' \in Seq(Tasks) /\ IsInjective(lot') /\ ToSet(lot') = ToSet(lot) \ {h}
    BY <2>1, <2>2, RemoveFirstProperties DEF ParkInv, ParkTypes
  <2> HIDE DEF h
  <2>4. lotPc[h] = "parked" /\ h # t
    BY <1>1, <2>2 DEF ParkInv, ParkTypes
  <2>5. Parking!Owners' = {h}
    BY <1>2, <2>1, <2>2, <2>4 DEF Parking!Owners, ParkInv, ParkTypes
  <2>6. ParkTypes'
    BY <1>1, <2>1, <2>2, <2>3, <2>4 DEF ParkInv, ParkTypes, Parking!Release, Parking!StaysLocked
  <2>7. ParkInv'
    BY <2>1, <2>5, <2>6 DEF ParkInv, Parking!NobodyStranded
  <2> QED BY <1>2, <1>4, <2>1, <2>2, <2>5, <2>7 DEF h
<1> QED BY <1>3, <1>4

LEMMA ParkResume ==
  ASSUME ParkInv, NEW t \in Tasks, Parking!Resume(t)
  PROVE  ParkInv' /\ Parking!Owners' = Parking!Owners /\ lot' = lot
<1>1. lotPc[t] = "granted" /\ lotPc' = [lotPc EXCEPT ![t] = "holding"] /\ UNCHANGED <<lotLocked, lot>>
  BY DEF Parking!Resume
<1>2. Parking!Owners' = Parking!Owners
  BY <1>1 DEF Parking!Owners, ParkInv, ParkTypes
<1>3. ParkTypes'
  BY <1>1 DEF ParkInv, ParkTypes
<1> QED BY <1>1, <1>2, <1>3 DEF ParkInv, Parking!NobodyStranded

LEMMA ParkKept ==
  ASSUME ParkInv, UNCHANGED lotVars
  PROVE  ParkInv' /\ Parking!Owners' = Parking!Owners /\ lot' = lot
BY DEF ParkInv, ParkTypes, Parking!Owners, Parking!NobodyStranded, lotVars

LEMMA ParkStep == ParkInv /\ (Parking!Next \/ UNCHANGED lotVars) => ParkInv'
BY ParkAcquire, ParkCancel, ParkRelease, ParkResume, ParkKept DEF Parking!Next

-----------------------------------------------------------------------------
(* The lock on a parking lot is a fair mutex *)

LEMMA ParkLine ==
  Parking!Line = [t \in ToSet(lot) |-> {u \in ToSet(lot) : Before(lot, u, t)}]
BY ParkingOperators DEF Parking!Line

LEMMA ParkLineWithout ==
  ASSUME ParkInv, NEW t \in ToSet(lot), lot' = RemoveFirst(lot, t)
  PROVE  Parking!Line' = Parking!Mutex!Without(t)
<1>1. ToSet(lot)' = ToSet(lot) \ {t}
  BY RemoveFirstProperties DEF ParkInv, ParkTypes
<1>2. \A u, v : Before(lot, u, v)' <=> Before(lot, u, v) /\ u # t /\ v # t
  BY BeforeRemove DEF ParkInv, ParkTypes
<1>3. Parking!Line' = [v \in ToSet(lot)' |-> {u \in ToSet(lot)' : Before(lot, u, v)'}]
  BY ParkingOperators DEF Parking!Line
<1> QED BY <1>1, <1>2, <1>3, ParkLine DEF Parking!Mutex!Without

LEMMA ParkSimulated ==
  ParkInv /\ ParkInv' /\ (Parking!Next \/ UNCHANGED lotVars) => [Parking!Mutex!Next]_(Parking!Mutex!vars)
<1> SUFFICES ASSUME ParkInv, ParkInv', Parking!Next \/ UNCHANGED lotVars
             PROVE  Parking!Mutex!Next \/ UNCHANGED Parking!Mutex!vars
  BY DEF Parking!Mutex!vars
<1>1. DOMAIN Parking!Line = ToSet(lot)
  BY ParkLine
<1>2. ASSUME lot' = lot PROVE Parking!Line' = Parking!Line
  BY <1>2 DEF Parking!Line, Parking!Before, Parking!ToSet
<1>3. ASSUME NEW t \in Tasks, Parking!Acquire(t) PROVE Parking!Mutex!Next
  <2>1. lotPc[t] = "idle" /\ t \notin Parking!Owners /\ t \notin ToSet(lot)
    BY <1>3 DEF Parking!Acquire, Parking!Owners, ParkInv, ParkTypes
  <2>2. CASE lot' = Append(lot, t) /\ lotPc' = [lotPc EXCEPT ![t] = "parked"]
    <3>1. ToSet(lot)' = ToSet(lot) \cup {t}
      BY <2>1, <2>2, AppendQueue DEF ParkInv, ParkTypes
    <3>2. Parking!Owners' = Parking!Owners
      BY <2>1, <2>2 DEF Parking!Owners, ParkInv, ParkTypes
    <3>3. \A u, v : Before(lot, u, v)' <=> Before(lot, u, v) \/ (v = t /\ u \in ToSet(lot))
      BY <2>2, BeforeAppend DEF ParkInv, ParkTypes
    <3>4. \A u : ~Before(lot, u, t) /\ ~Before(lot, t, u)
      BY <2>1 DEF Before, ToSet
    <3>5. Parking!Line' = [v \in ToSet(lot)' |-> {u \in ToSet(lot)' : Before(lot, u, v)'}]
      BY ParkingOperators DEF Parking!Line
    <3>6. Parking!Line' = [u \in DOMAIN Parking!Line \cup {t} |-> IF u = t THEN DOMAIN Parking!Line ELSE Parking!Line[u]]
      <4>1. \A v \in ToSet(lot) : {u \in ToSet(lot)' : Before(lot, u, v)'} = {u \in ToSet(lot) : Before(lot, u, v)}
        BY <2>1, <3>1, <3>3, <3>4
      <4>2. {u \in ToSet(lot)' : Before(lot, u, t)'} = ToSet(lot)
        BY <2>1, <3>1, <3>3, <3>4
      <4> QED BY <1>1, <2>1, <3>1, <3>5, <4>1, <4>2, ParkLine
    <3> QED BY <1>1, <2>1, <3>2, <3>6 DEF Parking!Mutex!Ask, Parking!Mutex!Next
  <2>3. CASE ~lotLocked /\ lot = <<>> /\ lotPc' = [lotPc EXCEPT ![t] = "holding"] /\ UNCHANGED lot
    <3>1. Parking!Owners = {} /\ Parking!Owners' = {t}
      BY <2>3 DEF Parking!Owners, ParkInv, ParkTypes
    <3>2. ToSet(lot) = {}
      BY <2>3 DEF ToSet
    <3>3. Parking!Line' = Parking!Mutex!Without(t)
      BY <1>1, <1>2, <2>3, <3>2, ParkLine DEF Parking!Mutex!Without
    <3> QED BY <1>1, <3>1, <3>2, <3>3 DEF Parking!Mutex!Enter, Parking!Mutex!Next
  <2> QED BY <1>3, <2>2, <2>3 DEF Parking!Acquire
<1>4. ASSUME NEW t \in Tasks, Parking!Resume(t) PROVE UNCHANGED Parking!Mutex!vars
  BY <1>2, <1>4, ParkResume DEF Parking!Mutex!vars
<1>5. ASSUME NEW t \in Tasks, Parking!Cancel(t) PROVE Parking!Mutex!Next
  BY <1>1, <1>5, ParkCancel, ParkLineWithout DEF Parking!Mutex!GiveUp, Parking!Mutex!Next
<1>6. ASSUME NEW t \in Tasks, Parking!Release(t) PROVE Parking!Mutex!Next
  <2>1. CASE lot' = lot /\ Parking!Owners' = {}
    BY <1>2, <1>6, <2>1, ParkRelease DEF Parking!Mutex!Leave, Parking!Mutex!Next
  <2>2. CASE /\ lot # <<>> /\ lot' = RemoveFirst(lot, Head(lot))
             /\ Head(lot) \in ToSet(lot) /\ Parking!Owners' = {Head(lot)}
    <3>1. Parking!Mutex!First(Head(lot))
      <4>1. \A u : ~Before(lot, u, Head(lot))
        BY <2>2, HeadIsFirst DEF ParkInv, ParkTypes
      <4> QED BY <1>1, <2>2, <4>1, ParkLine DEF Parking!Mutex!First
    <3>2. Parking!Line' = Parking!Mutex!Without(Head(lot))
      BY <2>2, ParkLineWithout
    <3> QED BY <1>1, <1>6, <2>2, <3>1, <3>2, ParkRelease DEF Parking!Mutex!Leave, Parking!Mutex!Next
  <2> QED BY <1>6, <2>1, <2>2, ParkRelease
<1>7. CASE UNCHANGED lotVars
  BY <1>2, <1>7, ParkKept DEF Parking!Mutex!vars
<1> QED BY <1>3, <1>4, <1>5, <1>6, <1>7 DEF Parking!Next

LEMMA ParkRefinedInit == Parking!Init => Parking!Mutex!Init
<1> SUFFICES ASSUME Parking!Init PROVE Parking!Mutex!Init
  OBVIOUS
<1>1. ToSet(lot) = {} /\ Parking!Owners = {}
  BY DEF Parking!Init, ToSet, Parking!Owners
<1> QED BY <1>1, ParkLine DEF Parking!Mutex!Init

-----------------------------------------------------------------------------
(***************************************************************************)
(* The threads portal                                                      *)
(***************************************************************************)

CallbackPosted(c) == \E i \in 1..Len(posted) : posted[i] = <<"callback", c>>
InFlight == {"scheduled", "running", "cancelling"}

PortalTypes ==
  /\ backend \in {"asyncio", "trio"}
  /\ portal \in {"open", "closing", "joining", "closed"} /\ aborted \in BOOLEAN
  /\ thread \in [Calls -> {"idle", "attached", "blocked", "free", "refused"}]
  /\ kind \in [Calls -> {"sync", "coroutine"}]
  /\ callWaiters \subseteq Calls
  /\ posted \in Seq({"callback", "cancel"} \X Calls)
  /\ future \in [Calls -> {"pending", "done", "cancelled"}]
  /\ task \in [Calls -> {"none", "scheduled", "running", "cancelling", "done"}]

\* A callback is posted once, after its call attached itself.
OneCallback ==
  \A i, j \in 1..Len(posted) : posted[i] = posted[j] /\ posted[i][1] = "callback" => i = j

\* Where a call is.  Its waiter is there until the callback of a function ran, or,
\* on asyncio, until the task of a coroutine starts; what is still pending has
\* its callback in the queue or its task under way.
CallInv(c) ==
  /\ thread[c] \in {"idle", "attached", "refused"} => ~CallbackPosted(c) /\ task[c] = "none"
  /\ thread[c] = "attached" => c \in callWaiters
  /\ CallbackPosted(c) => c \in callWaiters /\ task[c] = "none"
  /\ CallbackPosted(c) => thread[c] = IF kind[c] = "sync" THEN "free" ELSE "blocked"
  /\ thread[c] = "blocked" => CallbackPosted(c)
  /\ thread[c] = "free" /\ future[c] = "pending" => CallbackPosted(c) \/ task[c] \in InFlight
  /\ backend = "asyncio" /\ task[c] = "scheduled" => c \in callWaiters
  /\ portal \in {"joining", "closed"} => callWaiters = {}
  /\ portal = "closed" => task[c] \in {"none", "done"}

PortalInv ==
  /\ PortalTypes /\ OneCallback
  /\ portal \in {"joining", "closed"} => callWaiters = {}
  /\ \A c \in Calls : CallInv(c)

LEMMA PortalInit == Portal!Init => PortalInv
<1> SUFFICES ASSUME Portal!Init PROVE PortalInv
  OBVIOUS
<1>1. posted = <<>> /\ posted \in Seq({"callback", "cancel"} \X Calls) /\ Len(posted) = 0
  BY DEF Portal!Init
<1>2. \A c \in Calls : ~CallbackPosted(c)
  BY <1>1 DEF CallbackPosted
<1>3. PortalTypes
  BY <1>1, PortalAssumption DEF Portal!Init, PortalTypes, Portal!PortalParameters
<1>4. OneCallback
  BY <1>1 DEF OneCallback
<1> QED BY <1>2, <1>3, <1>4 DEF Portal!Init, PortalInv, CallInv

\* What is posted.
LEMMA PostedOne ==
  ASSUME PortalTypes, NEW m \in {"callback", "cancel"}, NEW c \in Calls, posted' = Append(posted, <<m, c>>)
  PROVE  /\ posted' \in Seq({"callback", "cancel"} \X Calls)
         /\ \A d \in Calls : CallbackPosted(d)' <=> CallbackPosted(d) \/ (d = c /\ m = "callback")
         /\ (m = "callback" => ~CallbackPosted(c)) /\ OneCallback => OneCallback'
<1> DEFINE e == <<m, c>>
<1>1. e \in {"callback", "cancel"} \X Calls /\ e[1] = m /\ \A d : e = <<"callback", d>> <=> d = c /\ m = "callback"
  OBVIOUS
<1> HIDE DEF e
<1>2. /\ posted' \in Seq({"callback", "cancel"} \X Calls) /\ Len(posted) \in Nat /\ Len(posted') = Len(posted) + 1
      /\ \A i \in 1..Len(posted) : posted'[i] = posted[i]
      /\ posted'[Len(posted) + 1] = e
  BY <1>1, AppendProperties, LenProperties DEF PortalTypes, e
<1>3. \A i \in 1..Len(posted') : i \in 1..Len(posted) \/ i = Len(posted) + 1
  BY <1>2
<1>4. ASSUME NEW d \in Calls PROVE CallbackPosted(d)' <=> CallbackPosted(d) \/ (d = c /\ m = "callback")
  <2>1. ASSUME CallbackPosted(d)' PROVE CallbackPosted(d) \/ (d = c /\ m = "callback")
    BY <1>1, <1>2, <1>3, <2>1 DEF CallbackPosted
  <2>2. ASSUME CallbackPosted(d) PROVE CallbackPosted(d)'
    <3>1. PICK i \in 1..Len(posted) : posted[i] = <<"callback", d>>
      BY <2>2 DEF CallbackPosted
    <3>2. i \in 1..Len(posted') /\ posted'[i] = <<"callback", d>>
      BY <1>2, <3>1
    <3> QED BY <3>2 DEF CallbackPosted
  <2>3. ASSUME d = c, m = "callback" PROVE CallbackPosted(d)'
    <3>1. Len(posted) + 1 \in 1..Len(posted') /\ posted'[Len(posted) + 1] = <<"callback", d>>
      BY <1>1, <1>2, <2>3
    <3> QED BY <3>1 DEF CallbackPosted
  <2> QED BY <2>1, <2>2, <2>3
<1>5. ASSUME m = "callback" => ~CallbackPosted(c), OneCallback PROVE OneCallback'
  <2>1. ASSUME NEW i \in 1..Len(posted), posted[i] = e, m = "callback" PROVE FALSE
    BY <1>1, <1>5, <2>1 DEF CallbackPosted, e
  <2>2. SUFFICES ASSUME NEW i \in 1..Len(posted'), NEW j \in 1..Len(posted'),
                        posted'[i] = posted'[j], posted'[i][1] = "callback"
                 PROVE  i = j
    BY DEF OneCallback
  <2>3. CASE i \in 1..Len(posted) /\ j \in 1..Len(posted)
    BY <1>2, <1>5, <2>2, <2>3 DEF OneCallback
  <2>4. CASE i = Len(posted) + 1 \/ j = Len(posted) + 1
    BY <1>1, <1>2, <1>3, <2>1, <2>2, <2>4
  <2> QED BY <1>3, <2>3, <2>4
<1> QED BY <1>2, <1>4, <1>5

LEMMA PoppedOne ==
  ASSUME PortalTypes, OneCallback, posted # <<>>, posted' = Tail(posted)
  PROVE  /\ posted' \in Seq({"callback", "cancel"} \X Calls) /\ OneCallback'
         /\ Head(posted) \in {"callback", "cancel"} \X Calls
         /\ \A d \in Calls : CallbackPosted(d)' <=> CallbackPosted(d) /\ Head(posted) # <<"callback", d>>
         /\ \A d \in Calls : Head(posted) = <<"callback", d>> => CallbackPosted(d)
<1>1. /\ posted' \in Seq({"callback", "cancel"} \X Calls) /\ Len(posted) \in Nat \ {0}
      /\ Len(posted') = Len(posted) - 1 /\ Head(posted) = posted[1] /\ 1 \in 1..Len(posted)
      /\ Head(posted) \in {"callback", "cancel"} \X Calls
      /\ \A i \in 1..Len(posted') : posted'[i] = posted[i + 1]
  BY HeadTailProperties, LenProperties, EmptySeq DEF PortalTypes
<1>2. \A i \in 1..Len(posted') : i + 1 \in 1..Len(posted)
  BY <1>1
<1>3. OneCallback'
  BY <1>1, <1>2 DEF OneCallback
<1>4. ASSUME NEW d \in Calls PROVE CallbackPosted(d)' <=> CallbackPosted(d) /\ Head(posted) # <<"callback", d>>
  <2>1. ASSUME CallbackPosted(d)' PROVE CallbackPosted(d) /\ Head(posted) # <<"callback", d>>
    <3>1. PICK i \in 1..Len(posted') : posted'[i] = <<"callback", d>>
      BY <2>1 DEF CallbackPosted
    <3>2. i + 1 \in 1..Len(posted) /\ posted[i + 1] = <<"callback", d>> /\ i + 1 # 1
      BY <1>1, <1>2, <3>1
    <3>3. <<"callback", d>>[1] = "callback"
      OBVIOUS
    <3> QED BY <1>1, <3>2, <3>3 DEF OneCallback, CallbackPosted
  <2>2. ASSUME CallbackPosted(d), Head(posted) # <<"callback", d>> PROVE CallbackPosted(d)'
    <3>1. PICK i \in 1..Len(posted) : posted[i] = <<"callback", d>> /\ i # 1
      BY <1>1, <2>2 DEF CallbackPosted
    <3>2. i - 1 \in 1..Len(posted') /\ (i - 1) + 1 = i
      BY <1>1, <3>1
    <3> QED BY <1>1, <3>1, <3>2 DEF CallbackPosted
  <2> QED BY <2>1, <2>2
<1>5. \A d \in Calls : Head(posted) = <<"callback", d>> => CallbackPosted(d)
  BY <1>1 DEF CallbackPosted
<1> QED BY <1>1, <1>3, <1>4, <1>5

LEMMA PostedKept ==
  ASSUME PortalTypes, OneCallback, posted' = posted
  PROVE  /\ posted' \in Seq({"callback", "cancel"} \X Calls) /\ OneCallback'
         /\ \A d \in Calls : CallbackPosted(d)' <=> CallbackPosted(d)
BY DEF PortalTypes, OneCallback, CallbackPosted

LEMMA PortalThreads ==
  ASSUME PortalInv, NEW c \in Calls, Portal!Attach(c) \/ Portal!Post(c) \/ Portal!CancelFuture(c), UNCHANGED backend
  PROVE  PortalInv'
<1> USE DEF PortalInv, PortalTypes
<1>1. CASE Portal!Attach(c)
  <2>1. posted' = posted
    BY <1>1 DEF Portal!Attach
  <2>2. PortalTypes'
    BY <1>1 DEF Portal!Attach
  <2> QED BY <1>1, <2>1, <2>2, PostedKept DEF Portal!Attach, CallInv
<1>2. CASE Portal!Post(c)
  <2>1. posted' = Append(posted, <<"callback", c>>) /\ thread[c] = "attached" /\ ~CallbackPosted(c)
    BY <1>2 DEF Portal!Post, CallInv
  <2>2. /\ posted' \in Seq({"callback", "cancel"} \X Calls) /\ OneCallback'
        /\ \A d \in Calls : CallbackPosted(d)' <=> CallbackPosted(d) \/ d = c
    BY <2>1, PostedOne
  <2>3. PortalTypes'
    BY <1>2, <2>2 DEF Portal!Post
  <2> QED BY <1>2, <2>2, <2>3 DEF Portal!Post, CallInv
<1>3. CASE Portal!CancelFuture(c)
  <2>1. /\ posted' \in Seq({"callback", "cancel"} \X Calls) /\ OneCallback'
        /\ \A d \in Calls : CallbackPosted(d)' <=> CallbackPosted(d)
    <3>1. posted' = posted \/ posted' = Append(posted, <<"cancel", c>>)
      BY <1>3 DEF Portal!CancelFuture, Portal!CancelPosted
    <3> QED BY <3>1, PostedKept, PostedOne
  <2>2. PortalTypes'
    BY <1>3, <2>1 DEF Portal!CancelFuture
  <2> QED BY <1>3, <2>1, <2>2 DEF Portal!CancelFuture, CallInv
<1> QED BY <1>1, <1>2, <1>3

LEMMA PortalCallbacks ==
  ASSUME PortalInv, Portal!RunCallback \/ Portal!RunCancel, UNCHANGED backend
  PROVE  PortalInv'
<1> USE DEF PortalInv, PortalTypes
<1>1. CASE Portal!RunCallback
  <2>1. posted # <<>> /\ Head(posted)[1] = "callback" /\ posted' = Tail(posted)
    BY <1>1 DEF Portal!RunCallback
  <2>2. /\ posted' \in Seq({"callback", "cancel"} \X Calls) /\ OneCallback'
        /\ Head(posted) \in {"callback", "cancel"} \X Calls
        /\ \A d \in Calls : CallbackPosted(d)' <=> CallbackPosted(d) /\ Head(posted) # <<"callback", d>>
        /\ \A d \in Calls : Head(posted) = <<"callback", d>> => CallbackPosted(d)
    BY <2>1, PoppedOne
  <2>3. PICK c \in Calls : Head(posted) = <<"callback", c>> /\ Head(posted)[2] = c
    BY <2>1, <2>2
  <2>4. CallbackPosted(c) /\ \A d \in Calls : CallbackPosted(d)' <=> CallbackPosted(d) /\ d # c
    BY <2>2, <2>3
  <2>5. CASE /\ kind[c] = "sync" /\ callWaiters' = callWaiters \ {c}
             /\ future' = [future EXCEPT ![c] = IF @ = "pending" THEN "done" ELSE @]
             /\ UNCHANGED <<thread, task>>
    <3>1. PortalTypes'
      BY <1>1, <2>2, <2>5 DEF Portal!RunCallback
    <3> QED BY <1>1, <2>2, <2>4, <2>5, <3>1 DEF Portal!RunCallback, CallInv, InFlight
  <2>6. CASE /\ kind[c] = "coroutine" /\ callWaiters' = Portal!Kept(c)
             /\ task' = [task EXCEPT ![c] = "scheduled"] /\ thread' = [thread EXCEPT ![c] = "free"]
             /\ UNCHANGED future
    <3>1. callWaiters' = IF backend = "asyncio" THEN callWaiters ELSE callWaiters \ {c}
      BY <2>6 DEF Portal!Kept
    <3>2. PortalTypes'
      BY <1>1, <2>2, <2>6, <3>1 DEF Portal!RunCallback
    <3>3. portal \notin {"joining", "closed"}
      BY <2>4 DEF CallInv
    <3> QED BY <1>1, <2>2, <2>4, <2>6, <3>1, <3>2, <3>3 DEF Portal!RunCallback, CallInv, InFlight
  <2> QED BY <1>1, <2>3, <2>5, <2>6 DEF Portal!RunCallback, Portal!Released
<1>2. CASE Portal!RunCancel
  <2>1. posted # <<>> /\ Head(posted)[1] = "cancel" /\ posted' = Tail(posted)
    BY <1>2 DEF Portal!RunCancel
  <2>2. /\ posted' \in Seq({"callback", "cancel"} \X Calls) /\ OneCallback'
        /\ Head(posted) \in {"callback", "cancel"} \X Calls
        /\ \A d \in Calls : CallbackPosted(d)' <=> CallbackPosted(d) /\ Head(posted) # <<"callback", d>>
    BY <2>1, PoppedOne
  <2>3. PICK c \in Calls : Head(posted)[2] = c /\ \A d : Head(posted) # <<"callback", d>>
    BY <2>1, <2>2
  <2>4. task' = [task EXCEPT ![c] = IF @ = "running" THEN "cancelling" ELSE @]
    BY <1>2, <2>3 DEF Portal!RunCancel
  <2>5. PortalTypes'
    BY <1>2, <2>2, <2>4 DEF Portal!RunCancel
  <2> QED BY <1>2, <2>2, <2>3, <2>4, <2>5 DEF Portal!RunCancel, CallInv, InFlight
<1> QED BY <1>1, <1>2

LEMMA PortalTasks ==
  ASSUME PortalInv, NEW c \in Calls, Portal!Start(c) \/ Portal!CoroutineEnds(c), UNCHANGED backend
  PROVE  PortalInv'
<1> USE DEF PortalInv, PortalTypes
<1>1. CASE Portal!Start(c)
  <2>1. /\ posted' \in Seq({"callback", "cancel"} \X Calls) /\ OneCallback'
        /\ \A d \in Calls : CallbackPosted(d)' <=> CallbackPosted(d)
    <3>1. posted' = posted \/ posted' = Append(posted, <<"cancel", c>>)
      BY <1>1 DEF Portal!Start
    <3> QED BY <3>1, PostedKept, PostedOne
  <2>2. PortalTypes'
    BY <1>1, <2>1 DEF Portal!Start, Portal!Released
  <2> QED BY <1>1, <2>1, <2>2 DEF Portal!Start, Portal!Released, CallInv, InFlight
<1>2. CASE Portal!CoroutineEnds(c)
  <2>1. posted' = posted
    BY <1>2 DEF Portal!CoroutineEnds
  <2>2. PortalTypes'
    BY <1>2 DEF Portal!CoroutineEnds
  <2> QED BY <1>2, <2>1, <2>2, PostedKept DEF Portal!CoroutineEnds, CallInv, InFlight
<1> QED BY <1>1, <1>2

LEMMA PortalExit ==
  ASSUME PortalInv, Portal!Close \/ Portal!Join \/ Portal!Abort \/ Portal!Closed, UNCHANGED backend
  PROVE  PortalInv'
<1> USE DEF PortalInv, PortalTypes
<1>1. CASE Portal!Close
  <2>1. PortalTypes'
    BY <1>1 DEF Portal!Close
  <2> QED BY <1>1, <2>1, PostedKept DEF Portal!Close, CallInv
<1>2. CASE Portal!Join
  <2>1. PortalTypes'
    BY <1>2 DEF Portal!Join
  <2> QED BY <1>2, <2>1, PostedKept DEF Portal!Join, CallInv
<1>3. CASE Portal!Abort
  <2>1. \A d \in Calls : Portal!Aborted(task[d]) = CASE task[d] = "running" -> "cancelling"
                           [] task[d] = "scheduled" /\ backend = "asyncio" -> "done" [] OTHER -> task[d]
    BY DEF Portal!Aborted
  <2>2. \A d \in Calls : task'[d] = Portal!Aborted(task[d])
    BY <1>3 DEF Portal!Abort
  <2>3. ASSUME NEW d \in Calls
        PROVE  /\ task'[d] \in {"none", "scheduled", "running", "cancelling", "done"}
               /\ task'[d] = task[d] \/ (task[d] = "running" /\ task'[d] = "cancelling")
                  \/ (task[d] = "scheduled" /\ backend = "asyncio" /\ task'[d] = "done")
    BY <2>1, <2>2, Zenon DEF Portal!Aborted
  <2>4. backend = "asyncio" => \A d \in Calls : task[d] # "scheduled"
    BY <1>3 DEF Portal!Abort, CallInv
  <2>5. PortalTypes'
    BY <1>3, <2>3 DEF Portal!Abort
  <2> QED BY <1>3, <2>3, <2>4, <2>5, PostedKept DEF Portal!Abort, CallInv, InFlight
<1>4. CASE Portal!Closed
  <2>1. PortalTypes'
    BY <1>4 DEF Portal!Closed
  <2> QED BY <1>4, <2>1, PostedKept DEF Portal!Closed, CallInv
<1> QED BY <1>1, <1>2, <1>3, <1>4

LEMMA PortalStep == PortalInv /\ (Portal!Next \/ PortalLeft \/ UNCHANGED portalVars) => PortalInv'
<1>1. ASSUME PortalInv, UNCHANGED portalVars PROVE PortalInv'
  <2>1. PortalTypes'
    BY <1>1 DEF PortalInv, PortalTypes, portalVars
  <2>2. OneCallback'
    BY <1>1 DEF PortalInv, OneCallback, portalVars
  <2>3. portal' \in {"joining", "closed"} => callWaiters' = {}
    BY <1>1 DEF PortalInv, portalVars
  <2>4. ASSUME NEW c \in Calls PROVE CallInv(c)'
    <3>1. CallInv(c) /\ CallbackPosted(c)' = CallbackPosted(c)
      BY <1>1 DEF PortalInv, portalVars, CallbackPosted
    <3> QED BY <1>1, <3>1 DEF CallInv, portalVars
  <2> QED BY <2>1, <2>2, <2>3, <2>4 DEF PortalInv
<1> QED BY <1>1, PortalThreads, PortalCallbacks, PortalTasks, PortalExit
        DEF Portal!Next, Portal!LoopStep, PortalLeft

\* Once the waiters are gone no callback comes, and the tasks are waited for.
LEMMA PortalProperty == PortalInv => Portal!NothingLeftBehind
<1> SUFFICES ASSUME PortalInv, portal = "closed" PROVE Portal!NothingLeftBehind
  BY DEF Portal!NothingLeftBehind
<1>1. callWaiters = {} /\ \A c \in Calls : ~CallbackPosted(c)
  BY DEF PortalInv, CallInv
<1>2. ASSUME NEW i \in DOMAIN posted PROVE posted[i][1] = "cancel"
  <2>1. i \in 1..Len(posted) /\ posted[i] \in {"callback", "cancel"} \X Calls
    BY <1>2, LenProperties, ElementOfSeq DEF PortalInv, PortalTypes
  <2> QED BY <1>1, <2>1 DEF CallbackPosted
<1>3. ASSUME NEW c \in Portal!Accepted
      PROVE  thread[c] = "free" /\ future[c] # "pending" /\ task[c] \in {"none", "done"}
  <2>1. c \in Calls /\ CallInv(c) /\ thread[c] \in {"attached", "blocked", "free"}
    BY <1>3 DEF PortalInv, Portal!Accepted
  <2> QED BY <1>1, <2>1 DEF CallInv, InFlight
<1> QED BY <1>1, <1>2, <1>3 DEF Portal!NothingLeftBehind

-----------------------------------------------------------------------------
(***************************************************************************)
(* The calls to an executor                                                *)
(***************************************************************************)

ExecutorInv ==
  /\ Executor!TypeOK /\ Executor!CancelledNeverRan /\ Executor!NothingSubmittedIsLeft
  /\ caller = "yielding" => call[current] = "cancelled"

LEMMA ExecutorInit == Executor!Init => ExecutorInv
<1> SUFFICES ASSUME Executor!Init PROVE ExecutorInv
  OBVIOUS
<1>1. current \in Executor!Idents
  BY ExecutorAssumption DEF Executor!Init, Executor!Idents, Executor!ExecutorParameters
<1>2. Executor!TypeOK
  BY <1>1 DEF Executor!Init, Executor!TypeOK
<1> QED BY <1>2 DEF Executor!Init, ExecutorInv, Executor!CancelledNeverRan, Executor!NothingSubmittedIsLeft

LEMMA ExecutorOthers ==
  ASSUME ExecutorInv, NEW c \in Executor!Idents, Executor!Others(c) \/ Executor!ExecutorCancels(c)
  PROVE  ExecutorInv'
<1> USE DEF ExecutorInv, Executor!TypeOK, Executor!CancelledNeverRan, Executor!NothingSubmittedIsLeft,
            Executor!Idents, Executor!Done
<1>1. CASE Executor!WorkerStarts(c)
  BY <1>1 DEF Executor!WorkerStarts
<1>2. CASE Executor!WorkerFinishes(c)
  BY <1>2 DEF Executor!WorkerFinishes, Executor!BecomesDone
<1>3. CASE Executor!ExecutorCancels(c)
  BY <1>3 DEF Executor!ExecutorCancels, Executor!BecomesDone
<1>4. CASE Executor!Notify(c)
  BY <1>4 DEF Executor!Notify
<1>5. CASE Executor!SetEvent(c)
  BY <1>5 DEF Executor!SetEvent
<1> QED BY <1>1, <1>2, <1>3, <1>4, <1>5 DEF Executor!Others

\* The task leaves with the future f: what had not started is cancelled.
LEMMA ExecutorLeaves ==
  ASSUME ExecutorInv, NEW how \in {"results", "cancelled", "future cancelled"},
         NEW f \in [Executor!Idents -> {"pending", "running", "finished", "cancelled"}],
         \A c \in Executor!Idents : f[c] = call[c] \/ call[c] = "pending",
         f[current] \in {"finished", "cancelled"}, how = "cancelled" => f[current] = "cancelled",
         Executor!Leave(how, f), cancel' \in BOOLEAN, UNCHANGED <<notifying, setting, event, current>>
  PROVE  ExecutorInv'
<1>1. caller' = "left" /\ outcome' = how /\ call' = [c \in Executor!Idents |-> IF f[c] = "pending" THEN "cancelled" ELSE f[c]]
  BY DEF Executor!Leave, Executor!CancelRest
<1>2. /\ \A c \in Executor!Idents : call'[c] # "pending" /\ (Executor!Done(c) => call'[c] = call[c])
      /\ call'[current] = f[current]
  BY <1>1 DEF ExecutorInv, Executor!TypeOK, Executor!Done
<1> QED BY <1>1, <1>2 DEF ExecutorInv, Executor!TypeOK, Executor!CancelledNeverRan,
           Executor!NothingSubmittedIsLeft, Executor!Done

LEMMA ExecutorReturns ==
  ASSUME ExecutorInv, event, caller \in {"waiting", "shielded"},
         caller = "waiting" => call[current] # "cancelled",
         Executor!Returns, UNCHANGED <<notifying, setting, cancel>>
  PROVE  ExecutorInv'
<1>1. call[current] \in {"finished", "cancelled"} /\ current \in Executor!Idents /\ outcome = "none"
  BY DEF ExecutorInv, Executor!TypeOK, Executor!Done
<1>2. CASE call[current] = "cancelled"
  <2>1. Executor!Leave("future cancelled", call) /\ UNCHANGED <<event, current>>
    BY <1>2 DEF Executor!Returns
  <2> QED BY <1>1, <2>1, ExecutorLeaves DEF ExecutorInv, Executor!TypeOK
<1>3. CASE call[current] # "cancelled" /\ current = Submitted
  <2>1. Executor!Leave("results", call) /\ UNCHANGED <<event, current>>
    BY <1>3 DEF Executor!Returns
  <2> QED BY <1>1, <2>1, ExecutorLeaves DEF ExecutorInv, Executor!TypeOK
<1>4. CASE call[current] # "cancelled" /\ current # Submitted
  <2>1. /\ current' = current + 1 /\ event' = Executor!Done(current + 1) /\ caller' = "waiting"
        /\ UNCHANGED <<outcome, call>>
    BY <1>4 DEF Executor!Returns
  <2>2. current + 1 \in Executor!Idents
    BY <1>1, <1>4, ExecutorAssumption DEF Executor!Idents, Executor!ExecutorParameters
  <2>3. event' = (call[current + 1] \in {"finished", "cancelled"})
    BY <2>1 DEF Executor!Done
  <2>4. event' \in BOOLEAN
    <3>1. CASE call[current + 1] \in {"finished", "cancelled"}
      BY <2>3, <3>1
    <3>2. CASE call[current + 1] \notin {"finished", "cancelled"}
      BY <2>3, <3>2
    <3> QED BY <3>1, <3>2
  <2>5. event' => call[current + 1] \in {"finished", "cancelled"}
    BY <2>3
  <2> QED BY <1>1, <2>1, <2>2, <2>4, <2>5 DEF ExecutorInv, Executor!TypeOK, Executor!CancelledNeverRan,
             Executor!NothingSubmittedIsLeft, Executor!Done
<1> QED BY <1>2, <1>3, <1>4

LEMMA ExecutorTask ==
  ASSUME ExecutorInv, Executor!TaskGoesOn \/ Executor!Cancel
  PROVE  ExecutorInv'
<1>0. /\ current \in Executor!Idents /\ call \in [Executor!Idents -> {"pending", "running", "finished", "cancelled"}]
      /\ cancel \in BOOLEAN
  BY DEF ExecutorInv, Executor!TypeOK
<1>1. CASE Executor!Cancel
  BY <1>1 DEF Executor!Cancel, ExecutorInv, Executor!TypeOK, Executor!CancelledNeverRan,
     Executor!NothingSubmittedIsLeft, Executor!Done
<1>2. CASE Executor!CancelDelivered
  <2>1. CASE Executor!Accepted(current)
    <3> DEFINE f == [call EXCEPT ![current] = IF @ = "pending" THEN "cancelled" ELSE @]
    <3>1. Executor!Leave("cancelled", f) /\ cancel' = FALSE /\ UNCHANGED <<notifying, setting, event, current>>
      BY <1>2, <2>1 DEF Executor!CancelDelivered
    <3>2. /\ f \in [Executor!Idents -> {"pending", "running", "finished", "cancelled"}]
          /\ \A c \in Executor!Idents : f[c] = call[c] \/ call[c] = "pending"
          /\ f[current] = "cancelled"
      BY <1>0, <2>1 DEF Executor!Accepted
    <3> HIDE DEF f
    <3> QED BY <3>1, <3>2, ExecutorLeaves
  <2>2. CASE ~Executor!Accepted(current)
    BY <1>2, <2>2 DEF Executor!CancelDelivered, ExecutorInv, Executor!TypeOK, Executor!CancelledNeverRan,
       Executor!NothingSubmittedIsLeft, Executor!Done
  <2> QED BY <2>1, <2>2
<1>3. CASE Executor!Woken
  <2>1. CASE /\ caller = "waiting" /\ ~cancel /\ call[current] = "cancelled"
             /\ caller' = "yielding" /\ UNCHANGED <<call, event, current, outcome>>
    BY <1>3, <2>1 DEF Executor!Woken, ExecutorInv, Executor!TypeOK, Executor!CancelledNeverRan,
       Executor!NothingSubmittedIsLeft, Executor!Done
  <2>2. CASE /\ Executor!Returns /\ caller \in {"waiting", "shielded"}
             /\ caller = "waiting" => call[current] # "cancelled"
    BY <1>3, <2>2, ExecutorReturns DEF Executor!Woken
  <2> QED BY <1>3, <2>1, <2>2 DEF Executor!Woken
<1>4. CASE Executor!Yielded
  <2>1. /\ caller = "yielding" /\ Executor!Leave(IF cancel THEN "cancelled" ELSE "future cancelled", call)
        /\ cancel' = FALSE /\ UNCHANGED <<notifying, setting, event, current>>
    BY <1>4 DEF Executor!Yielded
  <2>2. call[current] = "cancelled"
    BY <2>1 DEF ExecutorInv
  <2> QED BY <1>0, <2>1, <2>2, ExecutorLeaves
<1> QED BY <1>1, <1>2, <1>3, <1>4 DEF Executor!TaskGoesOn

LEMMA ExecutorStep == ExecutorInv /\ (Executor!Next \/ CallsLeft \/ UNCHANGED executorVars) => ExecutorInv'
<1>1. ASSUME ExecutorInv, UNCHANGED executorVars PROVE ExecutorInv'
  <2> USE DEF ExecutorInv, executorVars, Executor!Done
  <2>1. Executor!TypeOK'
    BY <1>1 DEF Executor!TypeOK
  <2> QED BY <1>1, <2>1 DEF Executor!CancelledNeverRan, Executor!NothingSubmittedIsLeft
<1> QED BY <1>1, ExecutorOthers, ExecutorTask DEF Executor!Next, CallsLeft

-----------------------------------------------------------------------------
(***************************************************************************)
(* The cancel scopes of a task                                             *)
(***************************************************************************)

Callbacks == {Nested!Step, Nested!DelayedCancel} \cup {Nested!Retry(s) : s \in Scopes}
States == {"created", "entered", "exited"}
NoReason == {"no"} \cup Nested!Reasons
Awaiting == host \in {"waiting", "yielding", "ignoring"}

ScopeTypes ==
  /\ scope \in [Scopes -> [state : States, called : BOOLEAN, caught : BOOLEAN, calls : Nat, base : Nat]]
  /\ stack \in Seq(Scopes) /\ IsInjective(stack)
  /\ ToSet(stack) = {s \in Scopes : scope[s].state = "entered"}
  /\ host \in {"running", "waiting", "yielding", "ignoring", "done"}
  /\ awaited \in {"pending", "done"} \cup Nested!Reasons /\ work \in {"pending", "done"}
  /\ must \in NoReason /\ last \in NoReason /\ raising \in NoReason /\ delayed \in NoReason
  /\ cancelling \in Nat /\ outside \in {"no", "requested", "thrown"} /\ ~broken /\ broken \in BOOLEAN

\* A scope that somebody cancelled and that is not left yet.
Cancelled(s) == scope[s].called /\ scope[s].state = "entered"
IfScope(r) == r \in Scopes => Cancelled(r)

\* Wherever a reason is kept, its scope is not left; and where it can be kept.
ReasonInv ==
  /\ IfScope(must) /\ IfScope(last) /\ IfScope(raising) /\ IfScope(delayed)
  /\ Awaiting => IfScope(awaited)
  /\ ~Awaiting => must = "no"
  /\ last # "no" => host = "ignoring"
  /\ raising # "no" => host = "running"
  /\ host = "done" => stack = <<>>
  /\ awaited = "pending" => host \in {"waiting", "ignoring"}

\* A queue holds a callback once, and the delayed cancellation before the step of the task.
Orderly(q) == q \in Seq(Callbacks) /\ IsInjective(q) /\ ~Before(q, Nested!Step, Nested!DelayedCancel)

\* What is in the queue of the loop: no cancellation is delayed while another one is,
\* as the first is delivered before the step of the task that would delay the next.
ReadyInv ==
  /\ Orderly(ready)
  /\ Nested!Step \in ToSet(ready) <=> Awaiting /\ awaited # "pending"
  /\ Nested!DelayedCancel \in ToSet(ready) <=> delayed # "no"
  /\ \A s \in Scopes : Nested!Retry(s) \in ToSet(ready) => Cancelled(s)

ScopeInv == ScopeTypes /\ ReasonInv /\ ReadyInv

\* The callbacks are distinct.
LEMMA CallbackNames ==
  /\ Nested!Step # Nested!DelayedCancel
  /\ \A s \in Scopes : Nested!Retry(s) \notin {Nested!Step, Nested!DelayedCancel}
  /\ \A s, u \in Scopes : Nested!Retry(s) = Nested!Retry(u) => s = u
<1>1. \A a, b : [retry |-> a] = [retry |-> b] => a = b
  <2>1. ASSUME NEW a, NEW b, [retry |-> a] = [retry |-> b] PROVE a = b
    <3>1. [retry |-> a].retry = [retry |-> b].retry
      BY <2>1
    <3> QED BY <3>1
  <2> QED BY <2>1
<1>2. "step" \notin Scopes /\ "delayed" \notin Scopes /\ "step" # "delayed"
  BY ScopeAssumption DEF Nested!ScopeParameters
<1> QED BY <1>1, <1>2 DEF Nested!Step, Nested!DelayedCancel, Nested!Retry

LEMMA NestedOperators ==
  /\ \A q, x : Nested!RemoveFirst(q, x) = RemoveFirst(q, x)
  /\ \A q : Nested!IsInjective(q) = IsInjective(q)
  /\ \A q : Nested!Min(q) = Min(q)
<1>1. \A q, x : Nested!RemoveFirst(q, x) = RemoveFirst(q, x)
  BY DEF Nested!RemoveFirst, RemoveFirst, Nested!RemoveAt, RemoveAt, Nested!SelectInSeq, SelectInSeq,
         Nested!Min, Min
<1>2. \A q : Nested!IsInjective(q) = IsInjective(q)
  BY DEF Nested!IsInjective, IsInjective
<1>3. \A q : Nested!Min(q) = Min(q)
  BY DEF Nested!Min, Min
<1> QED BY <1>1, <1>2, <1>3

LEMMA ContainsIsMember ==
  ASSUME NEW S, NEW q \in Seq(S), NEW x
  PROVE  Nested!Contains(q, x) <=> x \in ToSet(q)
BY LenProperties DEF Nested!Contains, ToSet

\* Callbacks that are queued, run and cancelled keep the order.
LEMMA OrderlyAppend ==
  ASSUME NEW q, Orderly(q), NEW c \in Callbacks, c \notin ToSet(q),
         c = Nested!DelayedCancel => Nested!Step \notin ToSet(q)
  PROVE  Orderly(Append(q, c)) /\ ToSet(Append(q, c)) = ToSet(q) \cup {c}
<1>1. q \in Seq(Callbacks) /\ IsInjective(q)
  BY DEF Orderly
<1>2. Append(q, c) \in Seq(Callbacks)
  BY <1>1, AppendProperties
<1>3. IsInjective(Append(q, c))
  BY <1>1, AppendKeepsInjective
<1>4. ToSet(Append(q, c)) = ToSet(q) \cup {c}
  BY <1>1, ToSetProperties
<1>5. ~Before(Append(q, c), Nested!Step, Nested!DelayedCancel)
  BY <1>1, BeforeAppend DEF Orderly
<1> QED BY <1>2, <1>3, <1>4, <1>5 DEF Orderly

LEMMA TailProperties ==
  ASSUME NEW S, NEW q \in Seq(S), IsInjective(q), q # <<>>
  PROVE  /\ Tail(q) \in Seq(S) /\ IsInjective(Tail(q)) /\ Head(q) \in S /\ Head(q) \in ToSet(q)
         /\ ToSet(Tail(q)) = ToSet(q) \ {Head(q)}
         /\ \A u, v : Before(Tail(q), u, v) => Before(q, u, v)
         /\ \A v \in ToSet(q) \ {Head(q)} : Before(q, Head(q), v)
<1> DEFINE t == Tail(q)
<1>1. /\ t \in Seq(S) /\ Len(q) \in Nat \ {0} /\ Len(t) = Len(q) - 1 /\ Head(q) = q[1] /\ Head(q) \in S
      /\ \A i \in 1..Len(t) : t[i] = q[i + 1]
  BY HeadTailProperties, LenProperties, EmptySeq
<1>2. DOMAIN q = 1..Len(q) /\ DOMAIN t = 1..(Len(q) - 1)
  BY <1>1, LenProperties
<1> HIDE DEF t
<1>3. \A i, j \in 1..Len(q) : q[i] = q[j] => i = j
  BY <1>2 DEF IsInjective
<1>4. \A i \in 1..(Len(q) - 1) : i + 1 \in 1..Len(q) /\ t[i] = q[i + 1] /\ i + 1 # 1
  BY <1>1
<1>5. \A i \in 1..Len(q) : i # 1 => i - 1 \in 1..(Len(q) - 1) /\ t[i - 1] = q[i]
  <2>1. ASSUME NEW i \in 1..Len(q), i # 1 PROVE i - 1 \in 1..(Len(q) - 1) /\ (i - 1) + 1 = i
    BY <1>1, <2>1
  <2> QED BY <1>4, <2>1
<1>6. IsInjective(t)
  <2>1. ASSUME NEW i \in 1..(Len(q) - 1), NEW j \in 1..(Len(q) - 1), t[i] = t[j] PROVE i = j
    <3>1. i + 1 = j + 1
      BY <1>3, <1>4, <2>1
    <3> QED BY <1>1, <3>1
  <2> QED BY <1>2, <2>1 DEF IsInjective
<1>7. 1 \in 1..Len(q)
  BY <1>1
<1>8. ToSet(t) = ToSet(q) \ {Head(q)}
  <2>1. ASSUME NEW x \in ToSet(t) PROVE x \in ToSet(q) \ {Head(q)}
    <3>1. PICK i \in 1..(Len(q) - 1) : t[i] = x
      BY <1>2 DEF ToSet
    <3> QED BY <1>1, <1>2, <1>3, <1>4, <1>7, <3>1 DEF ToSet
  <2>2. ASSUME NEW x \in ToSet(q) \ {Head(q)} PROVE x \in ToSet(t)
    <3>1. PICK i \in 1..Len(q) : q[i] = x
      BY <1>2 DEF ToSet
    <3>2. i # 1
      BY <1>1, <3>1
    <3> QED BY <1>2, <1>5, <3>1, <3>2 DEF ToSet
  <2> QED BY <2>1, <2>2
<1>9. ASSUME NEW u, NEW v, Before(t, u, v) PROVE Before(q, u, v)
  <2>1. PICK i, j \in 1..(Len(q) - 1) : i < j /\ t[i] = u /\ t[j] = v
    BY <1>2, <1>9 DEF Before
  <2>2. i + 1 < j + 1
    BY <1>1, <2>1
  <2> QED BY <1>2, <1>4, <2>1, <2>2 DEF Before
<1>10. ASSUME NEW v \in ToSet(q) \ {Head(q)} PROVE Before(q, Head(q), v)
  <2>1. PICK i \in 1..Len(q) : q[i] = v
    BY <1>2 DEF ToSet
  <2>2. i # 1 /\ 1 < i
    BY <1>1, <2>1
  <2> QED BY <1>1, <1>2, <1>7, <2>1, <2>2 DEF Before
<1>11. Head(q) \in ToSet(q)
  BY <1>1, <1>2, <1>7 DEF ToSet
<1> QED BY <1>1, <1>6, <1>8, <1>9, <1>10, <1>11 DEF t

LEMMA OrderlyTail ==
  ASSUME NEW q, Orderly(q), q # <<>>
  PROVE  /\ Orderly(Tail(q)) /\ Head(q) \in ToSet(q)
         /\ ToSet(Tail(q)) = ToSet(q) \ {Head(q)}
         /\ Head(q) = Nested!Step => Nested!DelayedCancel \notin ToSet(q)
<1>1. /\ q \in Seq(Callbacks) /\ IsInjective(q) /\ ~Before(q, Nested!Step, Nested!DelayedCancel)
  BY DEF Orderly
<1>2. /\ Tail(q) \in Seq(Callbacks) /\ IsInjective(Tail(q)) /\ Head(q) \in ToSet(q)
      /\ ToSet(Tail(q)) = ToSet(q) \ {Head(q)}
      /\ \A u, v : Before(Tail(q), u, v) => Before(q, u, v)
      /\ \A v \in ToSet(q) \ {Head(q)} : Before(q, Head(q), v)
  BY <1>1, TailProperties
<1> QED BY <1>1, <1>2, CallbackNames DEF Orderly

LEMMA OrderlyWithout ==
  ASSUME NEW q, Orderly(q), NEW c
  PROVE  Orderly(Nested!Without(q, c)) /\ ToSet(Nested!Without(q, c)) = ToSet(q) \ {c}
<1>1. Nested!Without(q, c) = RemoveFirst(q, c) /\ q \in Seq(Callbacks) /\ IsInjective(q)
  BY NestedOperators DEF Nested!Without, Orderly
<1>2. CASE c \in ToSet(q)
  <2>1. /\ RemoveFirst(q, c) \in Seq(Callbacks) /\ IsInjective(RemoveFirst(q, c))
        /\ ToSet(RemoveFirst(q, c)) = ToSet(q) \ {c}
    BY <1>1, <1>2, RemoveFirstProperties
  <2>2. \A u, v : Before(RemoveFirst(q, c), u, v) => Before(q, u, v)
    BY <1>1, <1>2, BeforeRemove
  <2> QED BY <1>1, <2>1, <2>2 DEF Orderly
<1>3. CASE c \notin ToSet(q)
  <2>1. \A i \in 1..Len(q) : q[i] # c
    BY <1>1, <1>3, LenProperties DEF ToSet
  <2>2. RemoveFirst(q, c) = q
    BY <2>1 DEF RemoveFirst
  <2> QED BY <1>1, <1>3, <2>2
<1> QED BY <1>2, <1>3

\* What TaskCancel() puts on a queue.
LEMMA QueueConcat ==
  ASSUME NEW q \in Seq(Callbacks), NEW a \in Callbacks, NEW b \in Callbacks
  PROVE  /\ q \o <<a>> \o <<b>> = Append(Append(q, a), b)
         /\ q \o <<a>> \o <<>> = Append(q, a)
         /\ q \o <<a>> = Append(q, a) /\ q \o <<>> = q
<1>1. q \o <<a>> = Append(q, a) /\ q \o <<>> = q
  BY AppendIsConcat, ConcatEmptySeq
<1>2. Append(q, a) \in Seq(Callbacks)
  BY AppendProperties
<1>3. Append(q, a) \o <<b>> = Append(Append(q, a), b) /\ Append(q, a) \o <<>> = Append(q, a)
  BY <1>2, AppendIsConcat, ConcatEmptySeq
<1> QED BY <1>1, <1>3

\* A scope that is opened, and one that is left.
LEMMA StackPush ==
  ASSUME NEW q \in Seq(Scopes), IsInjective(q), NEW s \in Scopes, s \notin ToSet(q)
  PROVE  <<s>> \o q \in Seq(Scopes) /\ IsInjective(<<s>> \o q) /\ ToSet(<<s>> \o q) = ToSet(q) \cup {s}
<1> DEFINE p == <<s>> \o q
<1>1. <<s>> \in Seq(Scopes) /\ Len(<<s>>) = 1 /\ <<s>>[1] = s /\ Len(q) \in Nat /\ DOMAIN q = 1..Len(q)
  BY LenProperties
<1>2. /\ p \in Seq(Scopes) /\ Len(p) = Len(<<s>>) + Len(q)
      /\ \A i \in 1..(Len(<<s>>) + Len(q)) :
           p[i] = IF i <= Len(<<s>>) THEN <<s>>[i] ELSE q[i - Len(<<s>>)]
  BY <1>1, ConcatProperties
<1> HIDE DEF p
<1>3. p[1] = s /\ DOMAIN p = 1..(Len(q) + 1) /\ \A i \in 1..(Len(q) + 1) : i # 1 => i - 1 \in 1..Len(q) /\ p[i] = q[i - 1]
  <2>1. Len(p) = Len(q) + 1 /\ DOMAIN p = 1..(Len(q) + 1)
    BY <1>1, <1>2, LenProperties
  <2>2. \A i \in 1..(Len(q) + 1) : p[i] = IF i <= 1 THEN <<s>>[i] ELSE q[i - 1]
    BY <1>1, <1>2
  <2> QED BY <1>1, <2>1, <2>2
<1>4. \A i \in 1..Len(q) : q[i] # s /\ i + 1 \in 1..(Len(q) + 1) /\ i + 1 # 1 /\ (i + 1) - 1 = i
  BY <1>1 DEF ToSet
<1>5. IsInjective(p)
  <2>1. \A i, j \in 1..Len(q) : q[i] = q[j] => i = j
    BY <1>1 DEF IsInjective
  <2>2. ASSUME NEW i \in 1..(Len(q) + 1), NEW j \in 1..(Len(q) + 1), p[i] = p[j] PROVE i = j
    <3>1. CASE i = 1 /\ j # 1
      BY <1>3, <1>4, <2>2, <3>1
    <3>2. CASE j = 1 /\ i # 1
      BY <1>3, <1>4, <2>2, <3>2
    <3>3. CASE i # 1 /\ j # 1
      <4>1. i - 1 = j - 1
        BY <1>3, <2>1, <2>2, <3>3
      <4> QED BY <1>1, <4>1
    <3> QED BY <3>1, <3>2, <3>3
  <2> QED BY <1>3, <2>2 DEF IsInjective
<1>6. ToSet(p) = ToSet(q) \cup {s}
  <2>1. ASSUME NEW x \in ToSet(p) PROVE x \in ToSet(q) \cup {s}
    BY <1>1, <1>3 DEF ToSet
  <2>2. ASSUME NEW x \in ToSet(q) PROVE x \in ToSet(p)
    <3>1. PICK i \in 1..Len(q) : q[i] = x
      BY <1>1 DEF ToSet
    <3>2. i + 1 \in DOMAIN p /\ p[i + 1] = x
      BY <1>3, <1>4, <3>1
    <3> QED BY <3>2 DEF ToSet
  <2>3. 1 \in DOMAIN p
    BY <1>1, <1>3
  <2> QED BY <1>3, <2>1, <2>2, <2>3 DEF ToSet
<1> QED BY <1>2, <1>5, <1>6 DEF p

\* What follows from the names of the scopes.
LEMMA ScopeNames ==
  /\ \A s \in Scopes : s \notin {"no", "pending", "done", "task.cancel()"}
  /\ Nested!Reasons = Scopes \cup {"task.cancel()"} /\ "no" \notin Nested!Reasons
  /\ "pending" \notin Nested!Reasons /\ "done" \notin Nested!Reasons
  /\ Nested!Step \in Callbacks /\ Nested!DelayedCancel \in Callbacks
  /\ \A s \in Scopes : Nested!Retry(s) \in Callbacks
<1>1. \A s \in Scopes : s \notin {"no", "pending", "done", "task.cancel()"}
  BY ScopeAssumption DEF Nested!ScopeParameters
<1> QED BY <1>1 DEF Nested!Reasons, Callbacks

LEMMA ScopeInit == Nested!Init => ScopeInv
<1> SUFFICES ASSUME Nested!Init PROVE ScopeInv
  OBVIOUS
<1> USE DEF Nested!Init
<1>1. \A q \in {stack, ready} : q = <<>> /\ DOMAIN q = {} /\ ToSet(q) = {} /\ IsInjective(q)
  BY DEF ToSet, IsInjective
<1>2. stack \in Seq(Scopes) /\ ready \in Seq(Callbacks)
  OBVIOUS
<1>3. scope \in [Scopes -> [state : States, called : BOOLEAN, caught : BOOLEAN, calls : Nat, base : Nat]]
  BY DEF States
<1>4. ScopeTypes
  BY <1>1, <1>2, <1>3 DEF ScopeTypes, NoReason
<1>5. ReasonInv
  BY ScopeNames DEF ReasonInv, IfScope, Awaiting
<1>6. ~Before(ready, Nested!Step, Nested!DelayedCancel)
  BY <1>1 DEF Before
<1>7. ReadyInv
  BY <1>1, <1>2, <1>6 DEF ReadyInv, Orderly, Awaiting
<1> QED BY <1>4, <1>5, <1>7 DEF ScopeInv

\* The stack and the scopes that are open do not move.
LEMMA ScopeReady ==
  ASSUME ReadyInv, \A s \in Scopes : Cancelled(s) => Cancelled(s)',
         UNCHANGED <<delayed, ready>>, (Awaiting /\ awaited # "pending")' <=> (Awaiting /\ awaited # "pending")
  PROVE  ReadyInv'
BY DEF ReadyInv, Orderly, Before

\* A retry is queued when its scope is cancelled and it is not queued yet.
LEMMA RetryQueued ==
  ASSUME NEW q, Orderly(q), NEW s \in Scopes, Nested!Retry(s) \notin ToSet(q)
  PROVE  Orderly(Append(q, Nested!Retry(s))) /\ ToSet(Append(q, Nested!Retry(s))) = ToSet(q) \cup {Nested!Retry(s)}
BY OrderlyAppend, ScopeNames, CallbackNames

LEMMA QueuedHere ==
  ASSUME NEW q, Orderly(q), NEW s \in Scopes, Nested!Retry(s) \notin ToSet(q), NEW d
  PROVE  /\ Orderly(Nested!DeliverHere(s, q, d))
         /\ ToSet(Nested!DeliverHere(s, q, d)) \in {ToSet(q), ToSet(q) \cup {Nested!Retry(s)}}
BY RetryQueued DEF Nested!DeliverHere

LEMMA ScopeEnter ==
  ASSUME ScopeInv, NEW s \in Scopes, Nested!Enter(s)
  PROVE  ScopeInv'
<1>1. /\ host = "running" /\ raising = "no" /\ scope[s].state = "created"
      /\ scope' = [scope EXCEPT ![s].state = "entered", ![s].base = cancelling]
      /\ stack' = <<s>> \o stack
      /\ ready' = IF scope[s].called THEN Nested!DeliverHere(s, ready, delayed) ELSE ready
      /\ UNCHANGED <<host, awaited, work, must, last, raising, cancelling, delayed, outside, broken>>
  BY DEF Nested!Enter, Nested!taskVars
<1>2. /\ scope' \in [Scopes -> [state : States, called : BOOLEAN, caught : BOOLEAN, calls : Nat, base : Nat]]
      /\ scope'[s].state = "entered" /\ scope'[s].called = scope[s].called
      /\ \A u \in Scopes : u # s => scope'[u] = scope[u]
  BY <1>1 DEF ScopeInv, ScopeTypes, States
<1>3. s \notin ToSet(stack)
  BY <1>1 DEF ScopeInv, ScopeTypes
<1>4. stack' \in Seq(Scopes) /\ IsInjective(stack') /\ ToSet(stack') = ToSet(stack) \cup {s}
  <2>1. stack \in Seq(Scopes) /\ IsInjective(stack)
    BY DEF ScopeInv, ScopeTypes
  <2>2. stack' = <<s>> \o stack
    BY <1>1
  <2> QED BY <1>3, <2>1, <2>2, StackPush
<1>5. ScopeTypes'
  <2>1. ToSet(stack)' = {u \in Scopes : scope'[u].state = "entered"}
    <3>1. ToSet(stack)' = ToSet(stack) \cup {s} /\ ToSet(stack) = {u \in Scopes : scope[u].state = "entered"}
      BY <1>4 DEF ScopeInv, ScopeTypes
    <3>2. \A u \in Scopes : scope'[u].state = "entered" <=> u = s \/ scope[u].state = "entered"
      BY <1>2
    <3> QED BY <3>1, <3>2
  <2>2. /\ scope' \in [Scopes -> [state : States, called : BOOLEAN, caught : BOOLEAN, calls : Nat, base : Nat]]
        /\ stack' \in Seq(Scopes) /\ IsInjective(stack)'
    BY <1>2, <1>4 DEF IsInjective
  <2>3. UNCHANGED <<host, awaited, work, must, last, raising, cancelling, delayed, outside, broken>>
    BY <1>1
  <2> QED BY <2>1, <2>2, <2>3 DEF ScopeInv, ScopeTypes, NoReason
<1>6. \A u \in Scopes : Cancelled(u) => Cancelled(u)'
  BY <1>1, <1>2 DEF Cancelled
<1>7. ReasonInv'
  BY <1>1, <1>6 DEF ScopeInv, ReasonInv, IfScope, Awaiting
<1>8. ReadyInv'
  <2>1. CASE ~scope[s].called
    BY <1>1, <1>6, <2>1, ScopeReady DEF ScopeInv, Awaiting
  <2>2. CASE scope[s].called
    <3>1. Nested!Retry(s) \notin ToSet(ready) /\ Orderly(ready)
      BY <1>1 DEF ScopeInv, ReadyInv, Cancelled
    <3>2. Orderly(ready') /\ ToSet(ready') \in {ToSet(ready), ToSet(ready) \cup {Nested!Retry(s)}}
      BY <1>1, <2>2, <3>1, QueuedHere
    <3>3. Orderly(ready)'
      BY <3>2 DEF Orderly, Before
    <3>4. Cancelled(s)'
      BY <1>2, <2>2 DEF Cancelled
    <3> QED BY <1>1, <1>6, <3>2, <3>3, <3>4, CallbackNames DEF ScopeInv, ReadyInv, Awaiting
  <2> QED BY <2>1, <2>2
<1> QED BY <1>5, <1>7, <1>8 DEF ScopeInv

LEMMA ScopeCancelHere ==
  ASSUME ScopeInv, NEW s \in Scopes, Nested!CancelHere(s)
  PROVE  ScopeInv'
<1>1. /\ host = "running" /\ ~scope[s].called /\ scope' = [scope EXCEPT ![s].called = TRUE]
      /\ ready' = IF scope[s].state = "entered" THEN Nested!DeliverHere(s, ready, delayed) ELSE ready
      /\ UNCHANGED <<stack, host, awaited, work, must, last, raising, cancelling, delayed, outside, broken>>
  BY DEF Nested!CancelHere, Nested!taskVars
<1>2. /\ scope' \in [Scopes -> [state : States, called : BOOLEAN, caught : BOOLEAN, calls : Nat, base : Nat]]
      /\ scope'[s].called /\ \A u \in Scopes : scope'[u].state = scope[u].state
      /\ \A u \in Scopes : u # s => scope'[u] = scope[u]
  BY <1>1 DEF ScopeInv, ScopeTypes
<1>3. ScopeTypes'
  BY <1>1, <1>2 DEF ScopeInv, ScopeTypes
<1>4. \A u \in Scopes : Cancelled(u) => Cancelled(u)'
  BY <1>1, <1>2 DEF Cancelled
<1>5. ReasonInv'
  BY <1>1, <1>4 DEF ScopeInv, ReasonInv, IfScope, Awaiting
<1>6. ReadyInv'
  <2>1. CASE scope[s].state # "entered"
    BY <1>1, <1>4, <2>1, ScopeReady DEF ScopeInv, Awaiting
  <2>2. CASE scope[s].state = "entered"
    <3>1. Nested!Retry(s) \notin ToSet(ready) /\ Orderly(ready)
      BY <1>1 DEF ScopeInv, ReadyInv, Cancelled
    <3>2. Orderly(ready') /\ ToSet(ready') \in {ToSet(ready), ToSet(ready) \cup {Nested!Retry(s)}}
      BY <1>1, <2>2, <3>1, QueuedHere
    <3>3. Orderly(ready)'
      BY <3>2 DEF Orderly, Before
    <3>4. Cancelled(s)'
      BY <1>2, <2>2 DEF Cancelled
    <3> QED BY <1>1, <1>4, <3>2, <3>3, <3>4, CallbackNames DEF ScopeInv, ReadyInv, Awaiting
  <2> QED BY <2>1, <2>2
<1> QED BY <1>3, <1>5, <1>6 DEF ScopeInv

\* __deliver_cancellation() of a scope that is not left, out of the task.
LEMMA ScopeDeliver ==
  ASSUME ScopeInv, Awaiting, NEW s \in Scopes, NEW q, NEW scopes, Nested!Deliver(s, q, scopes),
         scopes \in [Scopes -> [state : States, called : BOOLEAN, caught : BOOLEAN, calls : Nat, base : Nat]],
         \A u \in Scopes : scopes[u].state = scope[u].state /\ (scope[u].called => scopes[u].called),
         scopes[s].called, scope[s].state = "entered",
         Orderly(q), ToSet(q) = ToSet(ready) \ {Nested!Retry(s)},
         UNCHANGED <<stack, host, work, last, raising, delayed, outside, broken>>
  PROVE  ScopeInv'
<1>1. /\ scope' \in [Scopes -> [state : States, called : BOOLEAN, caught : BOOLEAN, calls : Nat, base : Nat]]
      /\ \A u \in Scopes : scope'[u].state = scope[u].state /\ scope'[u].called = scopes[u].called
      /\ cancelling' \in Nat
  <2>1. cancelling \in Nat
    BY DEF ScopeInv, ScopeTypes
  <2>2. CASE scope' = [scopes EXCEPT ![s].calls = @ + 1] /\ cancelling' = cancelling + 1
    BY <2>1, <2>2
  <2>3. CASE scope' = scopes /\ cancelling' = cancelling
    BY <2>1, <2>3
  <2> QED BY <2>2, <2>3 DEF Nested!Deliver
<1>2. Cancelled(s)' /\ \A u \in Scopes : Cancelled(u) => Cancelled(u)'
  BY <1>1 DEF Cancelled
<1>3. s \in Nested!Reasons /\ Nested!Retry(s) \notin ToSet(q) /\ s # "no" /\ s # "pending"
  BY ScopeNames
<1>4. Nested!Step \in ToSet(q) <=> awaited # "pending"
  BY CallbackNames DEF ScopeInv, ReadyInv
<1>5. Nested!DelayedCancel \in ToSet(q) <=> delayed # "no"
  BY CallbackNames DEF ScopeInv, ReadyInv
<1>6. \A u \in Scopes : Nested!Retry(u) \in ToSet(q) => Cancelled(u)'
  BY <1>2 DEF ScopeInv, ReadyInv
<1>7. CASE delayed = "no" /\ must = "no" /\ awaited = "pending"
  <2>1. awaited' = s /\ must' = must /\ ready' = q \o <<Nested!Step>> \o <<Nested!Retry(s)>>
    BY <1>7 DEF Nested!Deliver, Nested!TaskCancel
  <2> DEFINE p == Append(q, Nested!Step)
  <2>2. Orderly(p) /\ ToSet(p) = ToSet(q) \cup {Nested!Step}
    BY <1>4, <1>7, OrderlyAppend, ScopeNames, CallbackNames
  <2>3. Nested!Retry(s) \notin ToSet(p)
    BY <1>3, <2>2, CallbackNames
  <2>4. ready' = Append(p, Nested!Retry(s))
    BY <2>1, QueueConcat, ScopeNames DEF Orderly
  <2> HIDE DEF p
  <2>5. Orderly(ready') /\ ToSet(ready') = ToSet(q) \cup {Nested!Step, Nested!Retry(s)}
    BY <2>2, <2>3, <2>4, RetryQueued
  <2>6. ScopeTypes'
    BY <1>1, <1>3, <2>1 DEF ScopeInv, ScopeTypes
  <2>7. ReasonInv'
    BY <1>2, <1>3, <2>1 DEF ScopeInv, ReasonInv, IfScope, Awaiting
  <2>8. Orderly(ready)'
    BY <2>5 DEF Orderly, Before
  <2>9. ReadyInv'
    BY <1>2, <1>3, <1>5, <1>6, <2>1, <2>5, <2>8, CallbackNames DEF ReadyInv, Awaiting
  <2> QED BY <2>6, <2>7, <2>9 DEF ScopeInv
<1>8. CASE delayed = "no" /\ must = "no" /\ awaited # "pending"
  <2>1. awaited' = awaited /\ must' = s /\ ready' = q \o <<Nested!Retry(s)>>
    BY <1>8 DEF Nested!Deliver, Nested!TaskCancel
  <2>2. ready' = Append(q, Nested!Retry(s))
    BY <2>1, QueueConcat, ScopeNames DEF Orderly
  <2>3. Orderly(ready') /\ ToSet(ready') = ToSet(q) \cup {Nested!Retry(s)}
    BY <1>3, <2>2, RetryQueued
  <2>4. ScopeTypes'
    BY <1>1, <1>3, <2>1 DEF ScopeInv, ScopeTypes, NoReason
  <2>5. ReasonInv'
    BY <1>2, <1>3, <2>1 DEF ScopeInv, ReasonInv, IfScope, Awaiting
  <2>6. Orderly(ready)'
    BY <2>3 DEF Orderly, Before
  <2>7. ReadyInv'
    BY <1>2, <1>4, <1>5, <1>6, <2>1, <2>3, <2>6, CallbackNames DEF ReadyInv, Awaiting
  <2> QED BY <2>4, <2>5, <2>7 DEF ScopeInv
<1>9. CASE ~(delayed = "no" /\ must = "no")
  <2>1. /\ ready' = IF delayed \in {"no", s} THEN Append(q, Nested!Retry(s)) ELSE q
        /\ UNCHANGED <<awaited, must, cancelling>>
    BY <1>9 DEF Nested!Deliver
  <2>2. Orderly(ready') /\ ToSet(ready') \in {ToSet(q), ToSet(q) \cup {Nested!Retry(s)}}
    BY <1>3, <2>1, RetryQueued
  <2>3. ScopeTypes'
    BY <1>1, <2>1 DEF ScopeInv, ScopeTypes
  <2>4. ReasonInv'
    BY <1>2, <2>1 DEF ScopeInv, ReasonInv, IfScope, Awaiting
  <2>5. Orderly(ready)'
    BY <2>2 DEF Orderly, Before
  <2>6. ReadyInv'
    BY <1>2, <1>4, <1>5, <1>6, <2>1, <2>2, <2>5, CallbackNames DEF ReadyInv, Awaiting
  <2> QED BY <2>3, <2>4, <2>6 DEF ScopeInv
<1> QED BY <1>7, <1>8, <1>9

LEMMA ScopeCancelCalled ==
  ASSUME ScopeInv, NEW s \in Scopes, Nested!CancelCalled(s)
  PROVE  ScopeInv'
<1> DEFINE called == [scope EXCEPT ![s].called = TRUE]
<1>1. /\ host \notin {"running", "done"} /\ ~scope[s].called
      /\ IF scope[s].state = "entered" THEN Nested!Deliver(s, ready, called)
         ELSE scope' = called /\ UNCHANGED <<ready, awaited, must, cancelling>>
      /\ UNCHANGED <<stack, host, work, last, raising, delayed, outside, broken>>
  BY DEF Nested!CancelCalled
<1>2. /\ called \in [Scopes -> [state : States, called : BOOLEAN, caught : BOOLEAN, calls : Nat, base : Nat]]
      /\ \A u \in Scopes : called[u].state = scope[u].state /\ (scope[u].called => called[u].called)
      /\ called[s].called
  BY DEF ScopeInv, ScopeTypes
<1>3. Awaiting
  BY <1>1 DEF ScopeInv, ScopeTypes, Awaiting
<1>4. Orderly(ready) /\ Nested!Retry(s) \notin ToSet(ready)
  BY <1>1 DEF ScopeInv, ReadyInv, Cancelled
<1> HIDE DEF called
<1>5. CASE scope[s].state = "entered"
  <2>1. ToSet(ready) = ToSet(ready) \ {Nested!Retry(s)}
    BY <1>4
  <2> QED BY <1>1, <1>2, <1>3, <1>4, <1>5, <2>1, ScopeDeliver
<1>6. CASE scope[s].state # "entered"
  <2>1. scope' = called /\ UNCHANGED <<ready, awaited, must, cancelling>>
    BY <1>1, <1>6
  <2>2. \A u \in Scopes : Cancelled(u) => Cancelled(u)'
    BY <1>2, <2>1 DEF Cancelled
  <2>3. ScopeTypes'
    BY <1>1, <1>2, <2>1 DEF ScopeInv, ScopeTypes
  <2>4. ReasonInv'
    BY <1>1, <2>1, <2>2 DEF ScopeInv, ReasonInv, IfScope, Awaiting
  <2>5. ReadyInv'
    BY <1>1, <2>1, <2>2, ScopeReady DEF ScopeInv, Awaiting
  <2> QED BY <2>3, <2>4, <2>5 DEF ScopeInv
<1> QED BY <1>5, <1>6

LEMMA ScopeRetryRuns ==
  ASSUME ScopeInv, Nested!RetryRuns
  PROVE  ScopeInv'
<1>1. PICK s \in Scopes : Head(ready) = Nested!Retry(s) /\ Nested!Deliver(s, Tail(ready), scope)
  BY DEF Nested!RetryRuns
<1>2. /\ host # "running" /\ ready # <<>>
      /\ UNCHANGED <<stack, host, work, last, raising, delayed, outside, broken>>
  BY DEF Nested!RetryRuns
<1>3. /\ Orderly(Tail(ready)) /\ Nested!Retry(s) \in ToSet(ready)
      /\ ToSet(Tail(ready)) = ToSet(ready) \ {Nested!Retry(s)}
  BY <1>1, <1>2, OrderlyTail DEF ScopeInv, ReadyInv
<1>4. Cancelled(s)
  BY <1>3 DEF ScopeInv, ReadyInv
<1>5. stack # <<>>
  BY <1>4 DEF ScopeInv, ScopeTypes, Cancelled, ToSet
<1>6. Awaiting
  BY <1>2, <1>5 DEF ScopeInv, ScopeTypes, ReasonInv, Awaiting
<1>7. scope \in [Scopes -> [state : States, called : BOOLEAN, caught : BOOLEAN, calls : Nat, base : Nat]]
  BY DEF ScopeInv, ScopeTypes
<1> QED BY <1>1, <1>2, <1>3, <1>4, <1>6, <1>7, ScopeDeliver DEF Cancelled

\* Another cancellation of the task, from outside its scopes or delayed before.
LEMMA ScopeTaskCancel ==
  ASSUME ScopeInv, Awaiting, NEW r \in Nested!Reasons, IfScope(r), NEW q, Nested!TaskCancel(r, q, <<>>),
         Orderly(q), ToSet(q) = ToSet(ready) \ {Nested!DelayedCancel} \/ (q = ready /\ delayed' = delayed),
         delayed' \in {delayed, "no"}, q # ready => delayed' = "no",
         cancelling' \in Nat, outside' \in {"no", "requested", "thrown"},
         UNCHANGED <<scope, stack, host, work, last, raising, broken>>
  PROVE  ScopeInv'
<1>1. \A u \in Scopes : Cancelled(u)' <=> Cancelled(u)
  BY DEF Cancelled
<1>2. r # "no" /\ r # "pending"
  BY ScopeNames
<1>3. /\ Nested!Step \in ToSet(q) <=> awaited # "pending"
      /\ Nested!DelayedCancel \in ToSet(q) <=> delayed' # "no"
      /\ \A u \in Scopes : Nested!Retry(u) \in ToSet(q) => Cancelled(u)'
  <2>1. CASE q = ready
    BY <1>1, <2>1, CallbackNames DEF ScopeInv, ReadyInv
  <2>2. CASE q # ready
    BY <1>1, <2>2, CallbackNames DEF ScopeInv, ReadyInv
  <2> QED BY <2>1, <2>2
<1>4. CASE awaited = "pending"
  <2>1. awaited' = r /\ must' = must /\ ready' = q \o <<Nested!Step>> \o <<>>
    BY <1>4 DEF Nested!TaskCancel
  <2>2. ready' = Append(q, Nested!Step)
    BY <2>1, QueueConcat, ScopeNames DEF Orderly
  <2>3. Orderly(ready') /\ ToSet(ready') = ToSet(q) \cup {Nested!Step}
    BY <1>3, <1>4, <2>2, OrderlyAppend, ScopeNames, CallbackNames
  <2>4. Orderly(ready)'
    BY <2>3 DEF Orderly, Before
  <2>5. ScopeTypes'
    BY <2>1 DEF ScopeInv, ScopeTypes, NoReason
  <2>6. ReasonInv'
    BY <1>1, <1>2, <2>1, ScopeNames DEF ScopeInv, ReasonInv, IfScope, Awaiting
  <2>7. ReadyInv'
    BY <1>2, <1>3, <2>1, <2>3, <2>4, CallbackNames DEF ReadyInv, Awaiting
  <2> QED BY <2>5, <2>6, <2>7 DEF ScopeInv
<1>5. CASE awaited # "pending"
  <2>1. awaited' = awaited /\ must' = r /\ ready' = q
    BY <1>5, QueueConcat, ScopeNames DEF Nested!TaskCancel, Orderly
  <2>2. Orderly(ready)'
    BY <2>1 DEF Orderly, Before
  <2>3. ScopeTypes'
    BY <2>1 DEF ScopeInv, ScopeTypes, NoReason
  <2>4. ReasonInv'
    BY <1>1, <1>2, <2>1, ScopeNames DEF ScopeInv, ReasonInv, IfScope, Awaiting
  <2>5. ReadyInv'
    BY <1>3, <2>1, <2>2 DEF ReadyInv, Awaiting
  <2> QED BY <2>3, <2>4, <2>5 DEF ScopeInv
<1> QED BY <1>4, <1>5

LEMMA ScopeCancelTask ==
  ASSUME ScopeInv, Nested!CancelTask
  PROVE  ScopeInv'
<1>1. /\ host \notin {"running", "done"} /\ outside' = "requested" /\ cancelling' = cancelling + 1
      /\ Nested!TaskCancel("task.cancel()", ready, <<>>)
      /\ UNCHANGED <<scope, stack, host, work, last, raising, delayed, broken>>
  BY DEF Nested!CancelTask
<1>2. Awaiting /\ cancelling' \in Nat /\ Orderly(ready)
  BY <1>1 DEF ScopeInv, ScopeTypes, ReadyInv, Awaiting
<1>3. "task.cancel()" \in Nested!Reasons /\ IfScope("task.cancel()")
  BY ScopeNames DEF IfScope
<1> QED BY <1>1, <1>2, <1>3, ScopeTaskCancel

LEMMA ScopeDelayedRuns ==
  ASSUME ScopeInv, Nested!DelayedRuns
  PROVE  ScopeInv'
<1>1. /\ host # "running" /\ ready # <<>> /\ Head(ready) = Nested!DelayedCancel /\ delayed' = "no"
      /\ IF host = "done" THEN ready' = Tail(ready) /\ UNCHANGED <<awaited, must>>
         ELSE Nested!TaskCancel(delayed, Tail(ready), <<>>)
      /\ UNCHANGED <<scope, stack, host, work, last, raising, cancelling, outside, broken>>
  BY DEF Nested!DelayedRuns
<1>2. /\ Orderly(Tail(ready)) /\ Nested!DelayedCancel \in ToSet(ready)
      /\ ToSet(Tail(ready)) = ToSet(ready) \ {Nested!DelayedCancel}
  BY <1>1, OrderlyTail DEF ScopeInv, ReadyInv
<1>3. delayed # "no" /\ delayed \in Nested!Reasons /\ IfScope(delayed)
  BY <1>2 DEF ScopeInv, ScopeTypes, NoReason, ReasonInv, ReadyInv
<1>4. cancelling' \in Nat /\ outside' \in {"no", "requested", "thrown"}
  BY <1>1 DEF ScopeInv, ScopeTypes
<1>5. CASE host # "done"
  <2>1. Awaiting
    BY <1>1, <1>5 DEF ScopeInv, ScopeTypes, Awaiting
  <2> QED BY <1>1, <1>2, <1>3, <1>4, <1>5, <2>1, ScopeTaskCancel
<1>6. CASE host = "done"
  <2>1. ready' = Tail(ready) /\ UNCHANGED <<awaited, must>>
    BY <1>1, <1>6
  <2>2. ScopeTypes'
    BY <1>1, <2>1 DEF ScopeInv, ScopeTypes, NoReason
  <2>3. ReasonInv'
    BY <1>1, <2>1, ScopeNames DEF ScopeInv, ReasonInv, IfScope, Awaiting, Cancelled
  <2>4. Orderly(ready)'
    BY <1>2, <2>1 DEF Orderly, Before
  <2>5. ReadyInv'
    BY <1>1, <1>2, <2>1, <2>4, CallbackNames DEF ScopeInv, ReadyInv, Awaiting, Cancelled
  <2> QED BY <2>2, <2>3, <2>5 DEF ScopeInv
<1> QED BY <1>5, <1>6

LEMMA ScopeAwait ==
  ASSUME ScopeInv, NEW mode \in {"waiting", "yielding", "ignoring"}, NEW pending \in BOOLEAN,
         mode = "yielding" => ~pending, Nested!Await(mode, pending)
  PROVE  ScopeInv'
<1>1. /\ host = "running" /\ raising = "no" /\ host' = mode
      /\ awaited' = IF pending THEN "pending" ELSE "done"
      /\ work' \in {"pending", "done"}
      /\ ready' = IF pending THEN ready ELSE Append(ready, Nested!Step)
      /\ UNCHANGED <<scope, stack, must, last, raising, cancelling, delayed, outside, broken>>
  BY DEF Nested!Await
<1>2. Orderly(ready) /\ Nested!Step \notin ToSet(ready)
  BY <1>1 DEF ScopeInv, ReadyInv, Awaiting
<1>3. Orderly(ready') /\ ToSet(ready') = IF pending THEN ToSet(ready) ELSE ToSet(ready) \cup {Nested!Step}
  BY <1>1, <1>2, OrderlyAppend, ScopeNames, CallbackNames
<1>4. ScopeTypes'
  BY <1>1 DEF ScopeInv, ScopeTypes
<1>5. ReasonInv'
  BY <1>1, ScopeNames DEF ScopeInv, ReasonInv, IfScope, Awaiting, Cancelled
<1>6. Orderly(ready)'
  BY <1>3 DEF Orderly, Before
<1>7. ReadyInv'
  BY <1>1, <1>2, <1>3, <1>6, CallbackNames DEF ScopeInv, ReadyInv, Awaiting, Cancelled
<1> QED BY <1>4, <1>5, <1>7 DEF ScopeInv

LEMMA ScopeFinish ==
  ASSUME ScopeInv, Nested!Finish
  PROVE  ScopeInv'
<1>1. /\ host = "running" /\ stack = <<>> /\ host' = "done" /\ raising' = "no"
      /\ UNCHANGED <<scope, stack, awaited, work, must, last, cancelling, delayed, ready, outside, broken>>
  BY DEF Nested!Finish
<1>2. ScopeTypes'
  BY <1>1 DEF ScopeInv, ScopeTypes, NoReason
<1>3. ReasonInv'
  BY <1>1, ScopeNames DEF ScopeInv, ReasonInv, IfScope, Awaiting, Cancelled
<1>4. ReadyInv'
  BY <1>1, ScopeReady DEF ScopeInv, Awaiting, Cancelled
<1> QED BY <1>2, <1>3, <1>4 DEF ScopeInv

LEMMA ScopeFutureDone ==
  ASSUME ScopeInv, Nested!FutureDone
  PROVE  ScopeInv'
<1>1. /\ host \in {"waiting", "ignoring"} /\ work' = "done"
      /\ UNCHANGED <<scope, stack, host, must, last, raising, cancelling, delayed, outside, broken>>
  BY DEF Nested!FutureDone
<1>2. CASE awaited = "pending" /\ awaited' = "done" /\ ready' = Append(ready, Nested!Step)
  <2>1. Orderly(ready) /\ Nested!Step \notin ToSet(ready)
    BY <1>2 DEF ScopeInv, ReadyInv
  <2>2. Orderly(ready') /\ ToSet(ready') = ToSet(ready) \cup {Nested!Step}
    BY <1>2, <2>1, OrderlyAppend, ScopeNames, CallbackNames
  <2>3. ScopeTypes'
    BY <1>1, <1>2 DEF ScopeInv, ScopeTypes
  <2>4. ReasonInv'
    BY <1>1, <1>2, ScopeNames DEF ScopeInv, ReasonInv, IfScope, Awaiting, Cancelled
  <2>5. Orderly(ready)'
    BY <2>2 DEF Orderly, Before
  <2>6. ReadyInv'
    BY <1>1, <1>2, <2>1, <2>2, <2>5, CallbackNames DEF ScopeInv, ReadyInv, Awaiting, Cancelled
  <2> QED BY <2>3, <2>4, <2>6 DEF ScopeInv
<1>3. CASE UNCHANGED <<awaited, ready>>
  <2>1. ScopeTypes'
    BY <1>1, <1>3 DEF ScopeInv, ScopeTypes
  <2>2. ReasonInv'
    BY <1>1, <1>3 DEF ScopeInv, ReasonInv, IfScope, Awaiting, Cancelled
  <2>3. ReadyInv'
    BY <1>1, <1>3, ScopeReady DEF ScopeInv, Awaiting, Cancelled
  <2> QED BY <2>1, <2>2, <2>3 DEF ScopeInv
<1> QED BY <1>2, <1>3 DEF Nested!FutureDone

\* The queue q, with at most the retry of a cancelled scope among those.
Checked(c, scopes, q) ==
  /\ Orderly(c)
  /\ \/ ToSet(c) = ToSet(q)
     \/ \E s \in ToSet(scopes) : scope[s].called /\ ToSet(c) = ToSet(q) \cup {Nested!Retry(s)}

\* _check_pending_cancellation() queues at most the retry of a cancelled scope among those it looks at.
LEMMA PendingChecked ==
  ASSUME NEW scopes \in Seq(Scopes), NEW q, Orderly(q), NEW d
  PROVE  Checked(Nested!CheckPending(scopes, q, d), scopes, q)
<1> DEFINE called == {i \in DOMAIN scopes : scope[scopes[i]].called}
           innermost == scopes[Min(called)]
<1>1. Nested!CheckPending(scopes, q, d) =
        IF called = {} \/ Nested!Contains(q, Nested!Retry(innermost)) THEN q
        ELSE Nested!DeliverHere(innermost, q, d)
  BY NestedOperators DEF Nested!CheckPending
<1>2. DOMAIN scopes = 1..Len(scopes) /\ Len(scopes) \in Nat
  BY LenProperties
<1>3. ASSUME called # {} PROVE innermost \in Scopes /\ innermost \in ToSet(scopes) /\ scope[innermost].called
  <2>1. Min(called) \in called
    <3>1. called \subseteq Nat
      BY <1>2
    <3> QED BY <1>3, <3>1, MinOfNaturals
  <2>2. Min(called) \in DOMAIN scopes /\ scope[innermost].called
    BY <2>1
  <2> QED BY <1>2, <2>2, ElementOfSeq DEF ToSet
<1> HIDE DEF called, innermost
<1>4. CASE called = {} \/ Nested!Contains(q, Nested!Retry(innermost))
  BY <1>1, <1>4 DEF Checked
<1>5. CASE called # {} /\ ~Nested!Contains(q, Nested!Retry(innermost))
  <2>1. Nested!Retry(innermost) \notin ToSet(q)
    BY <1>5, ContainsIsMember DEF Orderly
  <2>2. Nested!CheckPending(scopes, q, d) = Nested!DeliverHere(innermost, q, d)
    BY <1>1, <1>5
  <2>3. /\ Orderly(Nested!DeliverHere(innermost, q, d))
        /\ ToSet(Nested!DeliverHere(innermost, q, d)) \in {ToSet(q), ToSet(q) \cup {Nested!Retry(innermost)}}
    BY <1>3, <1>5, <2>1, QueuedHere
  <2> QED BY <1>3, <1>5, <2>2, <2>3 DEF Checked
<1> QED BY <1>4, <1>5

\* A step of the task, which nothing delays a cancellation before.
LEMMA ScopeSteps ==
  ASSUME ScopeInv, Nested!TaskSteps
  PROVE  ScopeInv'
<1> DEFINE q == Tail(ready)
           thrown == Nested!Thrown
<1>1. /\ ready # <<>> /\ Head(ready) = Nested!Step /\ must' = "no"
      /\ UNCHANGED <<scope, stack, cancelling>>
  BY DEF Nested!TaskSteps
<1>2. /\ Orderly(q) /\ ToSet(q) = ToSet(ready) \ {Nested!Step} /\ Nested!DelayedCancel \notin ToSet(ready)
      /\ Nested!Step \in ToSet(ready)
  BY <1>1, OrderlyTail DEF ScopeInv, ReadyInv
<1>3. Awaiting /\ awaited # "pending" /\ delayed = "no"
  BY <1>2 DEF ScopeInv, ReadyInv
<1>4. thrown \in NoReason /\ IfScope(thrown)
  BY <1>3 DEF Nested!Thrown, ScopeInv, ScopeTypes, ReasonInv, NoReason
<1>5. \A u \in Scopes : Cancelled(u)' <=> Cancelled(u)
  BY <1>1 DEF Cancelled
<1>6. /\ Nested!Step \notin ToSet(q) /\ Nested!DelayedCancel \notin ToSet(q)
      /\ \A u \in Scopes : Nested!Retry(u) \in ToSet(q) => Cancelled(u)'
  BY <1>2, <1>5 DEF ScopeInv, ReadyInv
<1> HIDE DEF q, thrown
<1>7. CASE Nested!StepWaiting
  <2>1. /\ host' = "running" /\ raising' = thrown /\ outside' \in {outside, "thrown"} /\ ready' = q
        /\ UNCHANGED <<awaited, work, last, delayed, broken>>
    BY <1>7 DEF Nested!StepWaiting, q, thrown
  <2>2. ScopeTypes'
    BY <1>1, <1>4, <2>1 DEF ScopeInv, ScopeTypes, NoReason
  <2>3. host = "waiting"
    BY <1>7 DEF Nested!StepWaiting
  <2>4. ReasonInv'
    BY <1>1, <1>3, <1>4, <1>5, <2>1, <2>3, ScopeNames DEF ScopeInv, ReasonInv, IfScope, Awaiting
  <2>5. Orderly(ready)'
    BY <1>2, <2>1 DEF Orderly, Before
  <2>6. ReadyInv'
    BY <1>3, <1>6, <2>1, <2>5 DEF ReadyInv, Awaiting
  <2> QED BY <2>2, <2>4, <2>6 DEF ScopeInv
<1>8. ASSUME NEW r \in NoReason, Nested!Reschedule(r)
      PROVE  /\ delayed' = r /\ ~broken' /\ broken' \in BOOLEAN
             /\ Nested!Rescheduled(r) = IF r = "no" THEN q ELSE Append(q, Nested!DelayedCancel)
             /\ Orderly(Nested!Rescheduled(r))
             /\ ToSet(Nested!Rescheduled(r)) = IF r = "no" THEN ToSet(q) ELSE ToSet(q) \cup {Nested!DelayedCancel}
  <2>1. delayed' = r /\ ~broken' /\ broken' \in BOOLEAN
    <3>1. ~broken
      BY DEF ScopeInv, ScopeTypes
    <3> QED BY <1>3, <1>8, <3>1 DEF Nested!Reschedule
  <2>2. Nested!Rescheduled(r) = IF r = "no" THEN q ELSE Append(q, Nested!DelayedCancel)
    BY DEF Nested!Rescheduled, q
  <2>3. Orderly(Append(q, Nested!DelayedCancel)) /\ ToSet(Append(q, Nested!DelayedCancel)) = ToSet(q) \cup {Nested!DelayedCancel}
    BY <1>2, <1>6, OrderlyAppend, ScopeNames
  <2> QED BY <1>2, <2>1, <2>2, <2>3
<1>9. CASE Nested!StepYielding
  <2>1. /\ host = "yielding" /\ host' = "running" /\ ready' = Nested!Rescheduled(thrown) /\ Nested!Reschedule(thrown)
        /\ UNCHANGED <<awaited, work, last, raising, outside>>
    BY <1>9 DEF Nested!StepYielding, thrown
  <2>2. /\ delayed' = thrown /\ ~broken' /\ broken' \in BOOLEAN /\ Orderly(ready')
        /\ ToSet(ready') = IF thrown = "no" THEN ToSet(q) ELSE ToSet(q) \cup {Nested!DelayedCancel}
    BY <1>4, <1>8, <2>1
  <2>3. ScopeTypes'
    BY <1>1, <1>4, <2>1, <2>2 DEF ScopeInv, ScopeTypes, NoReason
  <2>4. ReasonInv'
    BY <1>1, <1>3, <1>4, <1>5, <2>1, <2>2, ScopeNames DEF ScopeInv, ReasonInv, IfScope, Awaiting
  <2>5. Orderly(ready)'
    BY <2>2 DEF Orderly, Before
  <2>6. ReadyInv'
    BY <1>3, <1>6, <2>1, <2>2, <2>5, CallbackNames DEF ReadyInv, Awaiting
  <2> QED BY <2>3, <2>4, <2>6 DEF ScopeInv
<1>10. CASE Nested!StepIgnoring
  <2> DEFINE r == IF thrown # "no" THEN thrown ELSE last
             p == Nested!Rescheduled(r)
  <2>1. r \in NoReason /\ IfScope(r)
    BY <1>4 DEF ScopeInv, ScopeTypes, ReasonInv
  <2>2. host = "ignoring" /\ UNCHANGED <<raising, outside>>
    BY <1>10 DEF Nested!StepIgnoring
  <2>3. \/ /\ awaited' = "pending" /\ last' = r /\ ready' = q
           /\ UNCHANGED <<host, work, delayed, broken>>
        \/ /\ Nested!Reschedule(r) /\ last' = "no" /\ host' = host /\ awaited' = "done" /\ work' = "done"
           /\ ready' = Append(p, Nested!Step)
        \/ /\ Nested!Reschedule(r) /\ last' = "no" /\ host' = host /\ awaited' = "pending" /\ work' = "pending"
           /\ ready' = p
        \/ /\ Nested!Reschedule(r) /\ last' = "no" /\ host' = "running" /\ UNCHANGED <<awaited, work>>
           /\ ready' = Nested!CheckPending(stack, p, delayed')
    BY <1>10 DEF Nested!StepIgnoring, q, thrown
  <2> HIDE DEF r, p
  <2>4. CASE awaited' = "pending" /\ last' = r /\ ready' = q /\ UNCHANGED <<host, work, delayed, broken>>
    <3>1. ScopeTypes'
      BY <1>1, <2>1, <2>2, <2>4 DEF ScopeInv, ScopeTypes, NoReason
    <3>2. ReasonInv'
      BY <1>1, <1>3, <1>5, <2>1, <2>2, <2>4, ScopeNames DEF ScopeInv, ReasonInv, IfScope, Awaiting
    <3>3. Orderly(ready)'
      BY <1>2, <2>4 DEF Orderly, Before
    <3>4. ReadyInv'
      BY <1>3, <1>6, <2>2, <2>4, <3>3 DEF ReadyInv, Awaiting
    <3> QED BY <3>1, <3>2, <3>4 DEF ScopeInv
  <2>5. ASSUME Nested!Reschedule(r)
        PROVE  /\ delayed' = r /\ ~broken' /\ broken' \in BOOLEAN /\ Orderly(p)
               /\ ToSet(p) = IF r = "no" THEN ToSet(q) ELSE ToSet(q) \cup {Nested!DelayedCancel}
    BY <1>8, <2>1, <2>5 DEF p
  <2>6. ASSUME Nested!Reschedule(r), last' = "no",
               host' \in {host, "running"}, work' \in {"pending", "done"},
               awaited' \in {"pending", "done"} \/ (host' = "running" /\ awaited' = awaited),
               awaited' = "pending" => host' = host
        PROVE  ScopeTypes' /\ ReasonInv'
    <3>1. ScopeTypes'
      BY <1>1, <2>1, <2>2, <2>5, <2>6 DEF ScopeInv, ScopeTypes, NoReason
    <3>2. ReasonInv'
      BY <1>1, <1>3, <1>5, <2>1, <2>2, <2>5, <2>6, ScopeNames DEF ScopeInv, ReasonInv, IfScope, Awaiting
    <3> QED BY <3>1, <3>2
  <2>7. CASE /\ Nested!Reschedule(r) /\ last' = "no" /\ host' = host /\ awaited' = "done" /\ work' = "done"
             /\ ready' = Append(p, Nested!Step)
    <3>1. Orderly(ready') /\ ToSet(ready') = ToSet(p) \cup {Nested!Step}
      BY <1>6, <2>5, <2>7, OrderlyAppend, ScopeNames, CallbackNames
    <3>2. Orderly(ready)'
      BY <3>1 DEF Orderly, Before
    <3>3. ReadyInv'
      BY <1>3, <1>6, <2>2, <2>5, <2>7, <3>1, <3>2, CallbackNames DEF ReadyInv, Awaiting
    <3> QED BY <2>6, <2>7, <3>3 DEF ScopeInv
  <2>8. CASE /\ Nested!Reschedule(r) /\ last' = "no" /\ host' = host /\ awaited' = "pending" /\ work' = "pending"
             /\ ready' = p
    <3>1. Orderly(ready)'
      BY <2>5, <2>8 DEF Orderly, Before
    <3>2. ReadyInv'
      BY <1>3, <1>6, <2>2, <2>5, <2>8, <3>1, CallbackNames DEF ReadyInv, Awaiting
    <3> QED BY <2>6, <2>8, <3>2 DEF ScopeInv
  <2>9. CASE /\ Nested!Reschedule(r) /\ last' = "no" /\ host' = "running" /\ UNCHANGED <<awaited, work>>
             /\ ready' = Nested!CheckPending(stack, p, delayed')
    <3>1. stack \in Seq(Scopes) /\ ToSet(stack) = {s \in Scopes : scope[s].state = "entered"} /\ work \in {"pending", "done"}
      BY DEF ScopeInv, ScopeTypes
    <3>2. /\ Orderly(ready')
          /\ \/ ToSet(ready') = ToSet(p)
             \/ \E s \in ToSet(stack) : scope[s].called /\ ToSet(ready') = ToSet(p) \cup {Nested!Retry(s)}
      BY <2>5, <2>9, <3>1, PendingChecked DEF Checked
    <3>3. \/ ToSet(ready') = ToSet(p)
          \/ \E s \in Scopes : Cancelled(s)' /\ ToSet(ready') = ToSet(p) \cup {Nested!Retry(s)}
      BY <1>5, <3>1, <3>2 DEF Cancelled
    <3>4. Orderly(ready)'
      BY <3>2 DEF Orderly, Before
    <3>5. ReadyInv'
      BY <1>3, <1>6, <2>2, <2>5, <2>9, <3>3, <3>4, CallbackNames DEF ReadyInv, Awaiting
    <3> QED BY <1>3, <2>6, <2>9, <3>1, <3>5 DEF ScopeInv
  <2> QED BY <2>3, <2>4, <2>7, <2>8, <2>9
<1> QED BY <1>7, <1>9, <1>10 DEF Nested!TaskSteps

\* The requests that are left when a scope is left.
LEMMA MaxOfTwo ==
  ASSUME NEW a \in Nat, NEW b \in Int
  PROVE  Nested!Max({a, b}) \in Nat
<1>1. \E x \in {a, b} : \A y \in {a, b} : x >= y
  <2>1. CASE a >= b
    BY <2>1
  <2>2. CASE b >= a
    BY <2>2
  <2> QED BY <2>1, <2>2
<1>2. Nested!Max({a, b}) \in {a, b} /\ \A y \in {a, b} : Nested!Max({a, b}) >= y
  BY <1>1 DEF Nested!Max
<1> DEFINE m == Nested!Max({a, b})
<1>3. m \in Int /\ m >= a
  BY <1>2
<1> HIDE DEF m
<1>4. m \in Nat
  BY <1>3
<1> QED BY <1>4 DEF m

\* The scope takes its cancellation, and the one it delayed, with it.
LEMMA ScopeExit ==
  ASSUME ScopeInv, Nested!Exit
  PROVE  ScopeInv'
<1> DEFINE s == Head(stack)
           caught == scope[s].called /\ raising = s
           kept == Nested!Without(ready, Nested!Retry(s))
           queue == IF Nested!DropsDelayed(s) THEN Nested!Without(kept, Nested!DelayedCancel) ELSE kept
           left == IF Nested!DropsDelayed(s) THEN "no" ELSE delayed
<1>1. /\ host = "running" /\ stack # <<>>
      /\ scope' = [scope EXCEPT ![s].state = "exited", ![s].caught = caught, ![s].calls = 0]
      /\ cancelling' = IF scope[s].called THEN Nested!Uncancel(s) ELSE cancelling
      /\ delayed' = left
      /\ raising' = IF caught THEN "no" ELSE raising
      /\ ready' = Nested!CheckPending(Tail(stack), queue, left)
      /\ stack' = Tail(stack)
      /\ UNCHANGED <<host, awaited, work, must, last, outside, broken>>
  BY DEF Nested!Exit
<1>2. /\ s \in Scopes /\ s \in ToSet(stack) /\ Tail(stack) \in Seq(Scopes) /\ IsInjective(Tail(stack))
      /\ ToSet(Tail(stack)) = ToSet(stack) \ {s}
  BY <1>1, TailProperties DEF ScopeInv, ScopeTypes
<1>3. scope[s].state = "entered" /\ scope[s].called \in BOOLEAN /\ (Nested!DropsDelayed(s) <=> delayed = s)
  BY <1>2 DEF ScopeInv, ScopeTypes, ReasonInv, IfScope, Cancelled, Nested!DropsDelayed
<1>4. raising' = IF raising = s THEN "no" ELSE raising
  BY <1>1, <1>2 DEF ScopeInv, ReasonInv, IfScope, Cancelled
<1>5. Orderly(kept) /\ ToSet(kept) = ToSet(ready) \ {Nested!Retry(s)}
  BY OrderlyWithout DEF ScopeInv, ReadyInv
<1>6. /\ Orderly(queue)
      /\ ToSet(queue) = IF delayed = s THEN ToSet(ready) \ {Nested!Retry(s), Nested!DelayedCancel}
                        ELSE ToSet(ready) \ {Nested!Retry(s)}
  <2>1. /\ Orderly(Nested!Without(kept, Nested!DelayedCancel))
        /\ ToSet(Nested!Without(kept, Nested!DelayedCancel)) = ToSet(kept) \ {Nested!DelayedCancel}
    BY <1>5, OrderlyWithout
  <2> QED BY <1>3, <1>5, <2>1
<1>7. left = IF delayed = s THEN "no" ELSE delayed
  BY <1>3
<1>8. caught \in BOOLEAN
  BY <1>3
<1>9. scope' \in [Scopes -> [state : States, called : BOOLEAN, caught : BOOLEAN, calls : Nat, base : Nat]]
      /\ scope'[s].state = "exited" /\ \A u \in Scopes : u # s => scope'[u] = scope[u]
  <2> HIDE DEF s, caught, kept, queue, left
  <2>1. /\ scope \in [Scopes -> [state : States, called : BOOLEAN, caught : BOOLEAN, calls : Nat, base : Nat]]
        /\ scope' = [scope EXCEPT ![s].state = "exited", ![s].caught = caught, ![s].calls = 0]
    BY <1>1 DEF ScopeInv, ScopeTypes
  <2>2. /\ DOMAIN scope' = Scopes /\ \A u \in Scopes : u # s => scope'[u] = scope[u]
        /\ scope'[s] = [scope[s] EXCEPT !.state = "exited", !.caught = caught, !.calls = 0]
    BY <1>2, <2>1
  <2>3. scope[s] \in [state : States, called : BOOLEAN, caught : BOOLEAN, calls : Nat, base : Nat]
    BY <1>2, <2>1
  <2>4. /\ scope'[s] \in [state : States, called : BOOLEAN, caught : BOOLEAN, calls : Nat, base : Nat]
        /\ scope'[s].state = "exited"
    <3>1. scope[s].called \in BOOLEAN /\ scope[s].base \in Nat
      BY <2>3
    <3>2. scope'[s] = [state |-> "exited", called |-> scope[s].called, caught |-> caught, calls |-> 0,
                       base |-> scope[s].base]
      BY <2>2, <2>3
    <3>3. "exited" \in States /\ 0 \in Nat
      BY DEF States
    <3>4. scope'[s] \in [state : States, called : BOOLEAN, caught : BOOLEAN, calls : Nat, base : Nat]
      <4>1. ASSUME NEW c \in BOOLEAN, NEW d \in BOOLEAN, NEW b \in Nat
            PROVE  [state |-> "exited", called |-> d, caught |-> c, calls |-> 0, base |-> b]
                     \in [state : States, called : BOOLEAN, caught : BOOLEAN, calls : Nat, base : Nat]
        BY <3>3
      <4> QED BY <1>8, <3>1, <3>2, <4>1
    <3> QED BY <3>2, <3>4
  <2> QED BY <1>2, <2>1, <2>2, <2>4
<1>10. cancelling' \in Nat
  <2>1. cancelling \in Nat /\ scope[s].base \in Nat /\ scope[s].calls \in Nat
    BY <1>2 DEF ScopeInv, ScopeTypes
  <2>2. Nested!Uncancel(s) \in Nat
    <3>1. cancelling - scope[s].calls \in Int
      BY <2>1
    <3> QED BY <2>1, <3>1, MaxOfTwo DEF Nested!Uncancel
  <2> QED BY <1>1, <2>1, <2>2
<1>11. \A u \in Scopes : Cancelled(u)' <=> Cancelled(u) /\ u # s
  BY <1>9 DEF Cancelled
<1>12. \A u \in ToSet(Tail(stack)) : u \in Scopes /\ (scope[u].called => Cancelled(u)')
  BY <1>2, <1>11 DEF ScopeInv, ScopeTypes, Cancelled
<1>13. /\ Orderly(ready')
       /\ \/ ToSet(ready') = ToSet(queue)
          \/ \E u \in Scopes : Cancelled(u)' /\ ToSet(ready') = ToSet(queue) \cup {Nested!Retry(u)}
  <2> HIDE DEF s, caught, kept, queue, left
  <2>1. /\ Orderly(ready')
        /\ \/ ToSet(ready') = ToSet(queue)
           \/ \E u \in ToSet(Tail(stack)) : scope[u].called /\ ToSet(ready') = ToSet(queue) \cup {Nested!Retry(u)}
    <3>1. Orderly(queue) /\ Tail(stack) \in Seq(Scopes)
      BY <1>2, <1>6
    <3>2. ready' = Nested!CheckPending(Tail(stack), queue, left)
      BY <1>1
    <3>3. Checked(Nested!CheckPending(Tail(stack), queue, left), Tail(stack), queue)
      BY <3>1, PendingChecked
    <3> QED BY <3>2, <3>3 DEF Checked
  <2> QED BY <1>12, <2>1
<1>14. Orderly(ready)'
  BY <1>13 DEF Orderly, Before
<1> HIDE DEF s, caught, kept, queue, left
<1>15. ScopeTypes'
  <2>1. ToSet(stack)' = {u \in Scopes : scope'[u].state = "entered"}
    BY <1>1, <1>2, <1>9 DEF ScopeInv, ScopeTypes
  <2> QED BY <1>1, <1>2, <1>4, <1>7, <1>9, <1>10, <2>1 DEF ScopeInv, ScopeTypes, NoReason
<1>16. ReasonInv'
  <2>1. must = "no" /\ last = "no"
    BY <1>1 DEF ScopeInv, ReasonInv, Awaiting
  <2> QED BY <1>1, <1>4, <1>7, <1>11, <2>1, ScopeNames DEF ScopeInv, ReasonInv, IfScope, Awaiting
<1>17. ReadyInv'
  <2>1. /\ Nested!Step \in ToSet(queue) <=> Awaiting /\ awaited # "pending"
        /\ Nested!DelayedCancel \in ToSet(queue) <=> delayed' # "no"
        /\ \A u \in Scopes : Nested!Retry(u) \in ToSet(queue) => Cancelled(u)'
    BY <1>1, <1>2, <1>6, <1>7, <1>11, CallbackNames, ScopeNames DEF ScopeInv, ReadyInv
  <2> QED BY <1>1, <1>13, <1>14, <2>1, CallbackNames DEF ReadyInv, Awaiting
<1> QED BY <1>15, <1>16, <1>17 DEF ScopeInv

LEMMA ScopeKept == ScopeInv /\ UNCHANGED scopeVars => ScopeInv'
<1> SUFFICES ASSUME ScopeInv, UNCHANGED scopeVars PROVE ScopeInv'
  OBVIOUS
<1> USE DEF scopeVars
<1>1. ScopeTypes'
  BY DEF ScopeInv, ScopeTypes
<1>2. ReasonInv'
  BY DEF ScopeInv, ReasonInv, IfScope, Cancelled, Awaiting
<1>3. ReadyInv'
  BY DEF ScopeInv, ReadyInv, Orderly, Before, Cancelled, Awaiting
<1> QED BY <1>1, <1>2, <1>3 DEF ScopeInv

LEMMA ScopeStep == ScopeInv /\ (Nested!Next \/ TaskLeft \/ UNCHANGED scopeVars) => ScopeInv'
<1> SUFFICES ASSUME ScopeInv, Nested!Next PROVE ScopeInv'
  BY ScopeKept DEF TaskLeft
<1>1. ASSUME NEW s \in Scopes, Nested!Enter(s) \/ Nested!CancelHere(s) \/ Nested!CancelCalled(s) PROVE ScopeInv'
  BY <1>1, ScopeEnter, ScopeCancelHere, ScopeCancelCalled
<1>2. CASE Nested!Leaves
  BY <1>2, ScopeExit, ScopeFinish DEF Nested!Leaves
<1>3. CASE Nested!AwaitsUnshielded \/ Nested!AwaitsShielded
  BY <1>3, ScopeAwait DEF Nested!AwaitsUnshielded, Nested!AwaitsShielded
<1>4. CASE Nested!FutureDone \/ Nested!LoopRuns \/ Nested!CancelTask
  BY <1>4, ScopeFutureDone, ScopeSteps, ScopeDelayedRuns, ScopeRetryRuns, ScopeCancelTask DEF Nested!LoopRuns
<1> QED BY <1>1, <1>2, <1>3, <1>4 DEF Nested!Next

LEMMA ScopeProperties == ScopeInv => Nested!TypeOK /\ Nested!CancelledInItsScope
<1> SUFFICES ASSUME ScopeInv PROVE Nested!TypeOK /\ Nested!CancelledInItsScope
  OBVIOUS
<1>1. Nested!IsInjective(stack) /\ Nested!IsInjective(ready)
  BY NestedOperators DEF ScopeInv, ScopeTypes, ReadyInv, Orderly
<1>2. Nested!TypeOK
  BY <1>1 DEF ScopeInv, ScopeTypes, States, NoReason, Nested!TypeOK
<1>3. ASSUME NEW r \in Scopes, IfScope(r) PROVE Nested!Contains(stack, r)
  BY <1>3, ContainsIsMember DEF ScopeInv, ScopeTypes, IfScope, Cancelled
<1>4. IfScope(raising) /\ IfScope(delayed) /\ ~broken
  BY DEF ScopeInv, ScopeTypes, ReasonInv
<1> QED BY <1>2, <1>3, <1>4 DEF Nested!CancelledInItsScope

-----------------------------------------------------------------------------
(***************************************************************************)
(* What the scopes owe: cancelling counts the requests of the scopes that  *)
(* the task is in, and the one from outside.                               *)
(***************************************************************************)

CallsMade == [s \in Scopes |-> scope[s].calls]
FromOutside == IF outside = "no" THEN 0 ELSE 1
\* The scopes that the one at i is nested in.
Under(i) == {stack[j] : j \in (i + 1)..Len(stack)}

\* What a scope notes when it is entered is never more than the requests of those it is
\* nested in, which stay until they are left in turn: it withdraws its own and no other.
OwedInv ==
  \E g : /\ Weights(g, CallsMade, Scopes) /\ cancelling = g[Scopes] + FromOutside
         /\ \A i \in 1..Len(stack) : scope[stack[i]].base <= g[Under(i)] + FromOutside

CallsInv == \A s \in Scopes : scope[s].calls # 0 => Cancelled(s)

\* The task was cancelled from outside wherever its reason is kept.
OutsideInv == outside = "no" => "task.cancel()" \notin {must, last, raising, delayed, awaited}

RequestInv == OwedInv /\ CallsInv /\ OutsideInv

LEMMA ScopesFinite == IsFiniteSet(Scopes)
BY ScopeAssumption DEF Nested!ScopeParameters, Nested!IsFiniteSet, IsFiniteSet

LEMMA CallsTyped ==
  ScopeInv => /\ CallsMade \in [Scopes -> Nat] /\ \A s \in Scopes : CallsMade[s] = scope[s].calls
              /\ stack \in Seq(Scopes) /\ Len(stack) \in Nat /\ \A i \in 1..Len(stack) : stack[i] \in Scopes
              /\ \A s \in Scopes : scope[s].base \in Nat
              /\ FromOutside \in {0, 1}
<1> SUFFICES ASSUME ScopeInv
             PROVE  /\ CallsMade \in [Scopes -> Nat] /\ \A s \in Scopes : CallsMade[s] = scope[s].calls
                    /\ stack \in Seq(Scopes) /\ Len(stack) \in Nat /\ \A i \in 1..Len(stack) : stack[i] \in Scopes
                    /\ \A s \in Scopes : scope[s].base \in Nat
                    /\ FromOutside \in {0, 1}
  OBVIOUS
<1>1. /\ scope \in [Scopes -> [state : States, called : BOOLEAN, caught : BOOLEAN, calls : Nat, base : Nat]]
      /\ stack \in Seq(Scopes)
  BY DEF ScopeInv, ScopeTypes
<1>2. \A s \in Scopes : scope[s].calls \in Nat /\ scope[s].base \in Nat
  BY <1>1
<1>3. Len(stack) \in Nat /\ \A i \in 1..Len(stack) : stack[i] \in Scopes
  BY <1>1, LenProperties, ElementOfSeq
<1> QED BY <1>1, <1>2, <1>3 DEF CallsMade, FromOutside

LEMMA OwedInit == Nested!Init => RequestInv
<1> SUFFICES ASSUME Nested!Init PROVE RequestInv
  OBVIOUS
<1>1. /\ scope = [s \in Scopes |-> [state |-> "created", called |-> FALSE, caught |-> FALSE, calls |-> 0, base |-> 0]]
      /\ stack = <<>> /\ awaited = "done" /\ must = "no" /\ last = "no" /\ raising = "no" /\ delayed = "no"
      /\ cancelling = 0 /\ outside = "no"
  BY DEF Nested!Init
<1>2. \A s \in Scopes : scope[s].calls = 0
  BY <1>1
<1> DEFINE g == [T \in SUBSET Scopes |-> 0]
<1>3. Weights(g, CallsMade, Scopes)
  <2>1. \A s \in Scopes : CallsMade[s] = 0
    BY <1>2 DEF CallsMade
  <2>2. g \in [SUBSET Scopes -> Nat] /\ g[{}] = 0
    OBVIOUS
  <2>3. ASSUME NEW T \in SUBSET Scopes, NEW x \in T PROVE g[T] = g[T \ {x}] + CallsMade[x]
    <3>1. g[T] = 0 /\ g[T \ {x}] = 0 /\ CallsMade[x] = 0
      BY <2>1
    <3> HIDE DEF g
    <3> QED BY <3>1
  <2> HIDE DEF g
  <2> QED BY <2>2, <2>3 DEF Weights
<1>4. g[Scopes] = 0 /\ FromOutside = 0
  BY <1>1 DEF FromOutside
<1> HIDE DEF g
<1>5. OwedInv
  <2>1. Len(stack) = 0
    BY <1>1, EmptySeq
  <2>2. cancelling = g[Scopes] + FromOutside
    BY <1>1, <1>4
  <2>3. \A i \in 1..Len(stack) : scope[stack[i]].base <= g[Under(i)] + FromOutside
    BY <2>1
  <2> QED BY <1>3, <2>2, <2>3 DEF OwedInv
<1>6. OutsideInv
  BY <1>1 DEF OutsideInv
<1>7. CallsInv
  BY <1>2 DEF CallsInv
<1> QED BY <1>5, <1>6, <1>7 DEF RequestInv

\* A step that requests and withdraws nothing, in the same scopes.
LEMMA OwedSame ==
  ASSUME ScopeInv, ScopeInv', OwedInv, CallsInv, UNCHANGED <<stack, cancelling>>, FromOutside' = FromOutside,
         \A u \in Scopes : /\ scope'[u].calls = scope[u].calls /\ scope'[u].base = scope[u].base
                           /\ Cancelled(u) => Cancelled(u)'
  PROVE  OwedInv' /\ CallsInv'
<1>1. PICK g : /\ Weights(g, CallsMade, Scopes) /\ cancelling = g[Scopes] + FromOutside
               /\ \A i \in 1..Len(stack) : scope[stack[i]].base <= g[Under(i)] + FromOutside
  BY DEF OwedInv
<1>2. CallsMade' = CallsMade
  BY DEF CallsMade
<1>3. stack' = stack /\ cancelling' = cancelling /\ \A i \in 1..Len(stack) : Under(i)' = Under(i)
  BY DEF Under
<1>4. \A i \in 1..Len(stack) : scope'[stack[i]].base <= g[Under(i)] + FromOutside
  BY <1>1, CallsTyped
<1>5. OwedInv'
  BY <1>1, <1>2, <1>3, <1>4 DEF OwedInv
<1>6. CallsInv'
  BY DEF CallsInv
<1> QED BY <1>5, <1>6

\* A cancellation is requested by the scope s, which the task is in.
LEMMA OwedMore ==
  ASSUME ScopeInv, ScopeInv', OwedInv, CallsInv, UNCHANGED stack, FromOutside' = FromOutside, cancelling' = cancelling + 1,
         NEW s \in Scopes, Cancelled(s)', scope'[s].calls = scope[s].calls + 1,
         \A u \in Scopes : /\ u # s => scope'[u].calls = scope[u].calls
                           /\ scope'[u].base = scope[u].base
                           /\ Cancelled(u) => Cancelled(u)'
  PROVE  OwedInv' /\ CallsInv'
<1>1. PICK g : /\ Weights(g, CallsMade, Scopes) /\ cancelling = g[Scopes] + FromOutside
               /\ \A i \in 1..Len(stack) : scope[stack[i]].base <= g[Under(i)] + FromOutside
  BY DEF OwedInv
<1>2. /\ CallsMade \in [Scopes -> Nat] /\ CallsMade' \in [Scopes -> Nat]
      /\ CallsMade'[s] = CallsMade[s] + 1 /\ \A u \in Scopes : u # s => CallsMade'[u] = CallsMade[u]
  <2>1. CallsMade \in [Scopes -> Nat] /\ CallsMade' \in [Scopes -> Nat]
    <3>1. \A u \in Scopes : scope'[u].calls \in Nat
      BY DEF ScopeInv, ScopeTypes
    <3> QED BY <3>1, CallsTyped DEF CallsMade
  <2>2. \A u \in Scopes : CallsMade[u] = scope[u].calls /\ CallsMade'[u] = scope'[u].calls
    BY DEF CallsMade
  <2> QED BY <2>1, <2>2
<1>3. PICK f : f = CallsMade
  OBVIOUS
<1>4. PICK k : k = CallsMade'
  OBVIOUS
<1>5. PICK h : Reweighed(h, k, g, s, Scopes)
  <2>1. f \in [Scopes -> Nat] /\ k \in [Scopes -> Nat] /\ Weights(g, f, Scopes) /\ \A y \in Scopes : y # s => k[y] = f[y]
    BY <1>1, <1>2, <1>3, <1>4
  <2> QED BY <2>1, WeightsChange
<1>6. g \in [SUBSET Scopes -> Nat] /\ \A T \in SUBSET Scopes : s \in T => g[T] = g[T \ {s}] + f[s]
  BY <1>1, <1>3 DEF Weights
<1>7. ASSUME NEW T \in SUBSET Scopes PROVE g[T] \in Nat /\ h[T] = IF s \in T THEN g[T] + 1 ELSE g[T]
  <2>1. g[T] \in Nat /\ g[T \ {s}] \in Nat /\ k[s] = f[s] + 1 /\ f[s] \in Nat
    BY <1>2, <1>3, <1>4, <1>6
  <2>2. CASE s \in T
    <3>1. g[T] = g[T \ {s}] + f[s] /\ h[T] = g[T \ {s}] + k[s]
      BY <1>5, <1>6, <2>2 DEF Reweighed
    <3> QED BY <2>1, <2>2, <3>1
  <2>3. CASE s \notin T
    BY <1>5, <2>1, <2>3 DEF Reweighed
  <2> QED BY <2>2, <2>3
<1>8. cancelling' = h[Scopes] + FromOutside
  <2>1. h[Scopes] = g[Scopes] + 1 /\ g[Scopes] \in Nat /\ FromOutside \in {0, 1}
    BY <1>7, CallsTyped
  <2> QED BY <1>1, <2>1
<1>9. ASSUME NEW i \in 1..Len(stack) PROVE scope'[stack[i]].base <= h[Under(i)] + FromOutside
  <2>1. Under(i) \in SUBSET Scopes /\ stack[i] \in Scopes /\ scope[stack[i]].base \in Nat /\ FromOutside \in {0, 1}
    <3>1. \A j \in 1..Len(stack) : stack[j] \in Scopes /\ Len(stack) \in Nat
      BY CallsTyped
    <3>2. \A j \in (i + 1)..Len(stack) : j \in 1..Len(stack)
      BY CallsTyped
    <3> QED BY <3>1, <3>2, CallsTyped DEF Under
  <2>2. scope'[stack[i]].base = scope[stack[i]].base
    BY <2>1
  <2>3. g[Under(i)] \in Nat /\ h[Under(i)] \in {g[Under(i)], g[Under(i)] + 1}
    BY <1>7, <2>1
  <2>4. scope[stack[i]].base <= g[Under(i)] + FromOutside
    BY <1>1
  <2> QED BY <2>1, <2>2, <2>3, <2>4
<1>10. stack' = stack /\ \A i \in 1..Len(stack) : Under(i)' = Under(i)
  BY DEF Under
<1>11. OwedInv'
  BY <1>4, <1>5, <1>8, <1>9, <1>10 DEF OwedInv, Reweighed
<1>12. CallsInv'
  <2>1. \A u \in Scopes : u # s /\ scope'[u].calls # 0 => Cancelled(u)'
    <3>1. \A u \in Scopes : u # s /\ scope'[u].calls # 0 => scope[u].calls # 0
      OBVIOUS
    <3> QED BY <3>1 DEF CallsInv
  <2> QED BY <2>1, Zenon DEF CallsInv
<1> QED BY <1>11, <1>12

\* Somebody cancels the task itself.
LEMMA OwedOutside ==
  ASSUME ScopeInv, OwedInv, CallsInv, Nested!CancelTask
  PROVE  OwedInv' /\ CallsInv'
<1>1. outside = "no" /\ outside' = "requested" /\ cancelling' = cancelling + 1 /\ UNCHANGED <<scope, stack>>
  BY DEF Nested!CancelTask
<1>2. PICK g : /\ Weights(g, CallsMade, Scopes) /\ cancelling = g[Scopes] + FromOutside
               /\ \A i \in 1..Len(stack) : scope[stack[i]].base <= g[Under(i)] + FromOutside
  BY DEF OwedInv
<1>3. FromOutside = 0 /\ FromOutside' = 1
  BY <1>1 DEF FromOutside
<1>4. CallsMade' = CallsMade /\ stack' = stack /\ scope' = scope /\ \A i \in 1..Len(stack) : Under(i)' = Under(i)
  BY <1>1 DEF CallsMade, Under
<1>5. g \in [SUBSET Scopes -> Nat]
  BY <1>2 DEF Weights
<1>6. cancelling' = g[Scopes] + 1
  BY <1>1, <1>2, <1>3, <1>5
<1>7. ASSUME NEW i \in 1..Len(stack) PROVE scope[stack[i]].base <= g[Under(i)] + 1
  <2>1. Under(i) \in SUBSET Scopes
    BY CallsTyped DEF Under
  <2>2. g[Under(i)] \in Nat /\ scope[stack[i]].base \in Nat
    BY <1>5, <2>1, CallsTyped
  <2>3. scope[stack[i]].base <= g[Under(i)] + 0
    BY <1>2, <1>3
  <2> QED BY <2>2, <2>3
<1>8. OwedInv'
  BY <1>2, <1>3, <1>4, <1>6, <1>7 DEF OwedInv
<1>9. CallsInv'
  BY <1>1 DEF CallsInv, Cancelled
<1> QED BY <1>8, <1>9

\* A scope that is entered notes what the scopes it is nested in have requested.
LEMMA OwedEnter ==
  ASSUME ScopeInv, OwedInv, CallsInv, NEW s \in Scopes, Nested!Enter(s)
  PROVE  OwedInv' /\ CallsInv'
<1>1. /\ scope[s].state = "created" /\ scope' = [scope EXCEPT ![s].state = "entered", ![s].base = cancelling]
      /\ stack' = <<s>> \o stack /\ UNCHANGED <<cancelling, outside>>
  BY DEF Nested!Enter
<1>2. /\ scope'[s].base = cancelling /\ scope'[s].calls = scope[s].calls
      /\ \A u \in Scopes : u # s => scope'[u] = scope[u]
  BY <1>1 DEF ScopeInv, ScopeTypes
<1>3. PICK g : /\ Weights(g, CallsMade, Scopes) /\ cancelling = g[Scopes] + FromOutside
               /\ \A i \in 1..Len(stack) : scope[stack[i]].base <= g[Under(i)] + FromOutside
  BY DEF OwedInv
<1>4. CallsMade' = CallsMade /\ FromOutside' = FromOutside
  <2>1. \A u \in Scopes : scope'[u].calls = scope[u].calls
    BY <1>2
  <2>2. CallsMade' = CallsMade
    BY <2>1 DEF CallsMade
  <2> QED BY <1>1, <2>2 DEF FromOutside
<1>5. PICK T \in SUBSET Scopes : T = ToSet(stack)
  BY DEF ScopeInv, ScopeTypes
<1>6. PICK n \in Nat : n = Len(stack)
  BY CallsTyped
<1>7. PICK p : p = stack'
  OBVIOUS
<1>8. /\ Len(p) = n + 1 /\ p[1] = s
      /\ \A i \in 1..n : i + 1 \in 1..(n + 1) /\ p[i + 1] = stack[i] /\ stack[i] \in Scopes
  <2>1. <<s>> \in Seq(Scopes) /\ Len(<<s>>) = 1 /\ <<s>>[1] = s /\ stack \in Seq(Scopes)
    BY LenProperties DEF ScopeInv, ScopeTypes
  <2>2. p = <<s>> \o stack /\ Len(stack) = n
    BY <1>1, <1>6, <1>7
  <2>3. /\ Len(p) = 1 + n
        /\ \A i \in 1..(1 + n) : p[i] = IF i <= 1 THEN <<s>>[i] ELSE stack[i - 1]
    BY <2>1, <2>2, ConcatProperties
  <2>4. \A i \in 1..n : stack[i] \in Scopes
    BY <1>6, CallsTyped
  <2> QED BY <2>1, <2>3, <2>4
<1>9. g[Scopes] = g[T]
  <2>1. \A u \in Scopes \ T : CallsMade[u] = 0
    BY <1>5 DEF ScopeInv, ScopeTypes, CallsInv, Cancelled, CallsMade
  <2>2. T \in SUBSET Scopes /\ Scopes \in SUBSET Scopes /\ CallsMade \in [Scopes -> Nat] /\ IsFiniteSet(Scopes)
    BY CallsTyped, ScopesFinite
  <2>3. PICK f : f = CallsMade
    OBVIOUS
  <2> QED BY <1>3, <2>1, <2>2, <2>3, WeightsGrow
<1>10. ASSUME NEW i \in 1..(n + 1) PROVE scope'[p[i]].base <= g[Under(i)'] + FromOutside
  <2>1. CASE i = 1
    <3>1. Under(i)' = T
      <4>1. Under(i)' = {p[j] : j \in 2..(n + 1)}
        BY <1>7, <1>8, <2>1 DEF Under
      <4>2. \A j \in 2..(n + 1) : p[j] \in T
        <5>1. ASSUME NEW j \in 2..(n + 1) PROVE p[j] \in T
          <6>1. PICK k \in 1..n : j = k + 1
            <7>1. j - 1 \in 1..n /\ j = (j - 1) + 1
              OBVIOUS
            <7> QED BY <7>1
          <6>2. p[j] = stack[k]
            BY <1>8, <6>1
          <6> QED BY <1>5, <1>6, <6>2, CallsTyped, LenProperties DEF ToSet
        <5> QED BY <5>1
      <4>3. \A u \in T : \E j \in 2..(n + 1) : p[j] = u
        <5>1. ASSUME NEW u \in T PROVE \E j \in 2..(n + 1) : p[j] = u
          <6>1. PICK k \in 1..n : stack[k] = u
            BY <1>5, <1>6, CallsTyped, LenProperties DEF ToSet
          <6>2. k + 1 \in 2..(n + 1) /\ p[k + 1] = u
            BY <1>8, <6>1
          <6> QED BY <6>2
        <5> QED BY <5>1
      <4> QED BY <4>1, <4>2, <4>3
    <3>2. scope'[p[i]].base = g[T] + FromOutside /\ g[T] + FromOutside \in Nat
      <4>1. cancelling \in Nat
        BY DEF ScopeInv, ScopeTypes
      <4>2. scope'[p[i]].base = cancelling
        BY <1>2, <1>8, <2>1
      <4> QED BY <1>3, <1>9, <4>1, <4>2
    <3> QED BY <3>1, <3>2
  <2>2. CASE i # 1
    <3>1. PICK k \in 1..n : i = k + 1
      <4>1. i - 1 \in 1..n /\ i = (i - 1) + 1
        BY <2>2
      <4> QED BY <4>1
    <3>2. Under(i)' = Under(k)
      <4>1. Under(i)' = {p[j] : j \in (k + 2)..(n + 1)}
        <5>1. i + 1 = k + 2
          BY <3>1
        <5> QED BY <1>7, <1>8, <5>1 DEF Under
      <4>2. Under(k) = {stack[j] : j \in (k + 1)..n}
        BY <1>6 DEF Under
      <4>3. \A j \in (k + 2)..(n + 1) : j - 1 \in (k + 1)..n /\ p[j] = stack[j - 1]
        <5>1. \A j \in (k + 2)..(n + 1) : j - 1 \in (k + 1)..n /\ j - 1 \in 1..n /\ (j - 1) + 1 = j
          BY <3>1
        <5> QED BY <1>8, <5>1
      <4>4. \A j \in (k + 1)..n : j + 1 \in (k + 2)..(n + 1) /\ p[j + 1] = stack[j]
        <5>1. \A j \in (k + 1)..n : j + 1 \in (k + 2)..(n + 1) /\ j \in 1..n
          BY <3>1
        <5> QED BY <1>8, <5>1
      <4> QED BY <4>1, <4>2, <4>3, <4>4
    <3>3. scope'[p[i]].base = scope[stack[k]].base
      <4>1. p[i] = stack[k] /\ stack[k] \in Scopes /\ stack[k] \in ToSet(stack)
        BY <1>6, <1>8, <3>1, CallsTyped, LenProperties DEF ToSet
      <4>2. stack[k] # s
        BY <1>1, <4>1 DEF ScopeInv, ScopeTypes
      <4> QED BY <1>2, <4>1, <4>2
    <3>4. scope[stack[k]].base <= g[Under(k)] + FromOutside
      BY <1>3, <1>6, <3>1
    <3> QED BY <3>2, <3>3, <3>4
  <2> QED BY <2>1, <2>2
<1>11. OwedInv'
  <2>1. Weights(g, CallsMade', Scopes) /\ cancelling' = g[Scopes] + FromOutside'
    BY <1>1, <1>3, <1>4
  <2>2. \A i \in 1..Len(stack') : scope'[stack'[i]].base <= g[Under(i)'] + FromOutside'
    BY <1>4, <1>7, <1>8, <1>10
  <2> QED BY <2>1, <2>2 DEF OwedInv
<1>12. CallsInv'
  <2>1. scope[s].calls = 0
    BY <1>1 DEF CallsInv, Cancelled
  <2>2. \A u \in Scopes : u # s => Cancelled(u)' = Cancelled(u) /\ scope'[u].calls = scope[u].calls
    BY <1>2 DEF Cancelled
  <2> QED BY <1>2, <2>1, <2>2 DEF CallsInv
<1> QED BY <1>11, <1>12

\* A scope that is left withdraws the requests it made, and no other.
LEMMA OwedExit ==
  ASSUME ScopeInv, ScopeInv', OwedInv, CallsInv, Nested!Exit
  PROVE  OwedInv' /\ CallsInv'
<1>1. PICK s : s = Head(stack)
  OBVIOUS
<1>2. PICK c : c = (scope[s].called /\ raising = s)
  OBVIOUS
<1>3. /\ stack # <<>> /\ scope' = [scope EXCEPT ![s].state = "exited", ![s].caught = c, ![s].calls = 0]
      /\ cancelling' = IF scope[s].called THEN Nested!Uncancel(s) ELSE cancelling
      /\ stack' = Tail(stack) /\ outside' = outside
  BY <1>1, <1>2 DEF Nested!Exit
<1>4. PICK g : /\ Weights(g, CallsMade, Scopes) /\ cancelling = g[Scopes] + FromOutside
               /\ \A i \in 1..Len(stack) : scope[stack[i]].base <= g[Under(i)] + FromOutside
  BY DEF OwedInv
<1>5. PICK n \in Nat : n = Len(stack) - 1
  <2>1. Len(stack) \in Nat /\ Len(stack) # 0
    BY <1>3, CallsTyped, EmptySeq
  <2>2. Len(stack) - 1 \in Nat
    BY <2>1
  <2> QED BY <2>2
<1>6. PICK p : p = stack'
  OBVIOUS
<1>7. /\ Len(p) = n /\ stack[1] = s /\ Len(stack) = n + 1 /\ s \in Scopes
      /\ \A i \in 1..n : i + 1 \in 1..(n + 1) /\ p[i] = stack[i + 1] /\ stack[i + 1] \in Scopes /\ stack[i + 1] # s
  <2>1. stack \in Seq(Scopes) /\ IsInjective(stack) /\ Len(stack) = n + 1 /\ 1 \in 1..(n + 1)
    BY <1>5, CallsTyped DEF ScopeInv, ScopeTypes
  <2>2. DOMAIN stack = 1..(n + 1)
    BY <2>1, LenProperties
  <2>3. stack[1] = s /\ p = Tail(stack)
    BY <1>1, <1>3, <1>6, <2>1
  <2>4. Len(p) = n /\ \A i \in 1..n : p[i] = stack[i + 1]
    BY <1>3, <2>1, <2>3, HeadTailProperties
  <2>5. \A i \in 1..n : i + 1 \in 1..(n + 1) /\ i + 1 # 1
    OBVIOUS
  <2>6. \A i \in 1..(n + 1) : stack[i] \in Scopes
    BY <2>1, CallsTyped
  <2>7. \A i \in 1..(n + 1) : i # 1 => stack[i] # stack[1]
    BY <2>1, <2>2 DEF IsInjective
  <2> QED BY <2>1, <2>3, <2>4, <2>5, <2>6, <2>7
<1>8. /\ scope'[s].calls = 0 /\ scope'[s].base = scope[s].base
      /\ \A u \in Scopes : u # s => scope'[u] = scope[u]
  BY <1>3, <1>7 DEF ScopeInv, ScopeTypes
<1>9. PICK f \in [Scopes -> Nat] : f = CallsMade
  BY CallsTyped
<1>10. PICK k \in [Scopes -> Nat] : k = CallsMade'
  <2>1. \A u \in Scopes : scope'[u].calls \in Nat
    BY DEF ScopeInv, ScopeTypes
  <2> QED BY <2>1 DEF CallsMade
<1>11. k[s] = 0 /\ (\A u \in Scopes : u # s => k[u] = f[u]) /\ f[s] = scope[s].calls
  <2>1. \A u \in Scopes : f[u] = scope[u].calls
    BY <1>9 DEF CallsMade
  <2>2. \A u \in Scopes : k[u] = scope'[u].calls
    BY <1>10 DEF CallsMade
  <2>3. \A u \in Scopes : u # s => k[u] = f[u]
    BY <1>8, <2>1, <2>2
  <2> QED BY <1>7, <1>8, <2>1, <2>2, <2>3
<1>12. Weights(g, f, Scopes)
  BY <1>4, <1>9
<1>13. PICK h : Reweighed(h, k, g, s, Scopes)
  BY <1>7, <1>11, <1>12, WeightsChange
<1>14. g \in [SUBSET Scopes -> Nat] /\ \A T \in SUBSET Scopes : \A x \in T : g[T] = g[T \ {x}] + f[x]
  BY <1>12 DEF Weights
<1>15. PICK m \in Nat : m = g[Scopes \ {s}]
  BY <1>14
<1>16. g[Scopes] = m + f[s] /\ h[Scopes] = m /\ f[s] \in Nat
  <2>1. g[Scopes] = m + f[s]
    BY <1>7, <1>14, <1>15
  <2>2. h[Scopes] = m + 0
    BY <1>7, <1>11, <1>13, <1>15 DEF Reweighed
  <2> QED BY <1>7, <2>1, <2>2
<1>17. \A T \in SUBSET Scopes : s \notin T => h[T] = g[T]
  BY <1>13 DEF Reweighed
<1>18. ASSUME NEW i \in 1..(n + 1) PROVE Under(i) = {stack[j] : j \in (i + 1)..(n + 1)} /\ Under(i) \in SUBSET (Scopes \ {s})
  <2>1. Under(i) = {stack[j] : j \in (i + 1)..(n + 1)}
    BY <1>7 DEF Under
  <2>2. ASSUME NEW j \in (i + 1)..(n + 1) PROVE stack[j] \in Scopes \ {s}
    <3>1. j - 1 \in 1..n /\ (j - 1) + 1 = j
      OBVIOUS
    <3> QED BY <1>7, <3>1
  <2> QED BY <2>1, <2>2
<1>19. PICK o \in {0, 1} : o = FromOutside
  BY CallsTyped
<1>20. scope[s].base <= m + o /\ scope[s].base \in Nat
  <2>1. 1 \in 1..(n + 1)
    OBVIOUS
  <2>2. PICK T \in SUBSET (Scopes \ {s}) : T = Under(1)
    BY <1>18, <2>1
  <2>3. g[T] <= g[Scopes \ {s}] /\ g[T] \in Nat
    <3>1. Scopes \ {s} \in SUBSET Scopes /\ T \in SUBSET Scopes
      OBVIOUS
    <3> QED BY <1>12, <1>14, <3>1, ScopesFinite, WeightsGrow
  <2>4. scope[s].base <= g[T] + o
    BY <1>4, <1>7, <1>19, <2>1, <2>2
  <2>5. scope[s].base \in Nat
    BY <1>7, CallsTyped
  <2> QED BY <1>15, <2>3, <2>4, <2>5
<1>21. cancelling' = m + o
  <2>1. cancelling = (m + f[s]) + o
    BY <1>4, <1>16, <1>19
  <2>2. CASE scope[s].calls = 0
    <3>1. cancelling' = cancelling
      BY <1>3, <2>2 DEF Nested!Uncancel
    <3> QED BY <1>11, <2>1, <2>2, <3>1
  <2>3. CASE scope[s].calls # 0
    <3>1. scope[s].called
      BY <1>7, <2>3 DEF CallsInv, Cancelled
    <3>2. cancelling' = Nested!Max({scope[s].base, cancelling - scope[s].calls})
      BY <1>3, <2>3, <3>1 DEF Nested!Uncancel
    <3>3. cancelling - scope[s].calls = m + o
      BY <1>11, <1>16, <2>1
    <3>4. Nested!Max({scope[s].base, m + o}) = m + o
      <4>1. PICK v \in Nat : v = m + o
        OBVIOUS
      <4>2. PICK b \in Nat : b = scope[s].base
        BY <1>20
      <4>3. b <= v
        BY <1>20, <4>1, <4>2
      <4>4. v \in {b, v} /\ \A y \in {b, v} : v >= y
        BY <4>3
      <4>5. Nested!Max({b, v}) \in {b, v} /\ \A y \in {b, v} : Nested!Max({b, v}) >= y
        BY <4>4 DEF Nested!Max
      <4>6. Nested!Max({b, v}) = v
        BY <4>3, <4>5
      <4> QED BY <4>1, <4>2, <4>6
    <3> QED BY <3>2, <3>3, <3>4
  <2> QED BY <2>2, <2>3
<1>22. FromOutside' = o
  BY <1>3, <1>19 DEF FromOutside
<1>23. ASSUME NEW i \in 1..n PROVE scope'[p[i]].base <= h[Under(i)'] + o
  <2>1. PICK j \in 1..(n + 1) : j = i + 1
    BY <1>7
  <2>2. Under(i)' = Under(j)
    <3>1. Under(i)' = {p[l] : l \in (i + 1)..n}
      BY <1>6, <1>7 DEF Under
    <3>2. Under(j) = {stack[l] : l \in (i + 2)..(n + 1)}
      <4>1. j + 1 = i + 2
        BY <2>1
      <4> QED BY <1>18, <4>1
    <3>3. \A l \in (i + 1)..n : l + 1 \in (i + 2)..(n + 1) /\ p[l] = stack[l + 1]
      <4>1. \A l \in (i + 1)..n : l + 1 \in (i + 2)..(n + 1) /\ l \in 1..n
        OBVIOUS
      <4> QED BY <1>7, <4>1
    <3>4. \A l \in (i + 2)..(n + 1) : l - 1 \in (i + 1)..n /\ stack[l] = p[l - 1]
      <4>1. \A l \in (i + 2)..(n + 1) : l - 1 \in (i + 1)..n /\ l - 1 \in 1..n /\ (l - 1) + 1 = l
        OBVIOUS
      <4> QED BY <1>7, <4>1
    <3> QED BY <3>1, <3>2, <3>3, <3>4
  <2>3. h[Under(j)] = g[Under(j)]
    <3>1. Under(j) \in SUBSET Scopes /\ s \notin Under(j)
      BY <1>18
    <3> QED BY <1>17, <3>1
  <2>4. scope'[p[i]].base = scope[stack[j]].base
    BY <1>7, <1>8, <2>1
  <2>5. scope[stack[j]].base <= g[Under(j)] + o
    BY <1>4, <1>7, <1>19
  <2> QED BY <2>2, <2>3, <2>4, <2>5
<1>24. OwedInv'
  <2>1. Weights(h, CallsMade', Scopes) /\ cancelling' = h[Scopes] + FromOutside'
    BY <1>10, <1>13, <1>16, <1>21, <1>22 DEF Reweighed
  <2>2. \A i \in 1..Len(stack') : scope'[stack'[i]].base <= h[Under(i)'] + FromOutside'
    BY <1>6, <1>7, <1>22, <1>23
  <2> QED BY <2>1, <2>2 DEF OwedInv
<1>25. CallsInv'
  <2>1. \A u \in Scopes : u # s => Cancelled(u)' = Cancelled(u) /\ scope'[u].calls = scope[u].calls
    BY <1>8 DEF Cancelled
  <2> QED BY <1>8, <2>1 DEF CallsInv
<1> QED BY <1>24, <1>25

\* A cancellation that is delivered in a callback is counted, or not delivered at all.
LEMMA OwedDeliver ==
  ASSUME ScopeInv, ScopeInv', OwedInv, CallsInv, UNCHANGED <<stack, outside>>, NEW s \in Scopes, NEW q, NEW scopes,
         Nested!Deliver(s, q, scopes), Cancelled(s)', \A u \in Scopes : Cancelled(u) => Cancelled(u)',
         scopes \in [Scopes -> [state : States, called : BOOLEAN, caught : BOOLEAN, calls : Nat, base : Nat]],
         \A u \in Scopes : scopes[u].calls = scope[u].calls /\ scopes[u].base = scope[u].base
  PROVE  OwedInv' /\ CallsInv'
<1>1. FromOutside' = FromOutside
  BY DEF FromOutside
<1>2. CASE delayed = "no" /\ must = "no"
  <2>1. scope' = [scopes EXCEPT ![s].calls = @ + 1] /\ cancelling' = cancelling + 1
    BY <1>2 DEF Nested!Deliver
  <2>2. scope'[s].calls = scope[s].calls + 1
    BY <2>1
  <2>3. \A u \in Scopes : /\ u # s => scope'[u].calls = scope[u].calls
                          /\ scope'[u].base = scope[u].base
    BY <2>1
  <2> QED BY <1>1, <2>1, <2>2, <2>3, OwedMore
<1>3. CASE ~(delayed = "no" /\ must = "no")
  <2>1. scope' = scopes /\ cancelling' = cancelling
    BY <1>3 DEF Nested!Deliver
  <2>2. \A u \in Scopes : scope'[u].calls = scope[u].calls /\ scope'[u].base = scope[u].base
    BY <2>1
  <2> QED BY <1>1, <2>1, <2>2, OwedSame
<1> QED BY <1>2, <1>3

LEMMA OwedCancelCalled ==
  ASSUME ScopeInv, ScopeInv', OwedInv, CallsInv, NEW s \in Scopes, Nested!CancelCalled(s)
  PROVE  OwedInv' /\ CallsInv'
<1>1. PICK called : called = [scope EXCEPT ![s].called = TRUE]
  OBVIOUS
<1>2. /\ UNCHANGED <<stack, outside>>
      /\ IF scope[s].state = "entered" THEN Nested!Deliver(s, ready, called) ELSE scope' = called /\ UNCHANGED cancelling
  BY <1>1 DEF Nested!CancelCalled
<1>3. /\ called \in [Scopes -> [state : States, called : BOOLEAN, caught : BOOLEAN, calls : Nat, base : Nat]]
      /\ called[s].called /\ \A u \in Scopes : u # s => called[u] = scope[u]
      /\ \A u \in Scopes : /\ called[u].calls = scope[u].calls /\ called[u].base = scope[u].base
                           /\ called[u].state = scope[u].state
  BY <1>1 DEF ScopeInv, ScopeTypes
<1>4. CASE scope[s].state = "entered"
  <2>1. Nested!Deliver(s, ready, called)
    BY <1>2, <1>4
  <2>2. \A u \in Scopes : scope'[u].called = called[u].called /\ scope'[u].state = called[u].state
    BY <1>3, <2>1 DEF Nested!Deliver
  <2>3. Cancelled(s)' /\ \A u \in Scopes : Cancelled(u) => Cancelled(u)'
    BY <1>3, <1>4, <2>2 DEF Cancelled
  <2> QED BY <1>2, <1>3, <2>1, <2>3, OwedDeliver
<1>5. CASE scope[s].state # "entered"
  <2>1. scope' = called /\ UNCHANGED cancelling
    BY <1>2, <1>5
  <2>2. \A u \in Scopes : Cancelled(u) => Cancelled(u)'
    BY <1>3, <1>5, <2>1 DEF Cancelled
  <2>3. FromOutside' = FromOutside
    BY <1>2 DEF FromOutside
  <2>4. \A u \in Scopes : scope'[u].calls = scope[u].calls /\ scope'[u].base = scope[u].base
    BY <1>3, <2>1
  <2> QED BY <1>2, <2>1, <2>2, <2>3, <2>4, OwedSame
<1> QED BY <1>4, <1>5

LEMMA OwedRetryRuns ==
  ASSUME ScopeInv, ScopeInv', OwedInv, CallsInv, Nested!RetryRuns
  PROVE  OwedInv' /\ CallsInv'
<1>1. PICK s \in Scopes : Head(ready) = Nested!Retry(s) /\ Nested!Deliver(s, Tail(ready), scope)
  BY DEF Nested!RetryRuns
<1>2. ready # <<>> /\ UNCHANGED <<stack, outside>>
  BY DEF Nested!RetryRuns
<1>3. Cancelled(s)
  <2>1. ready \in Seq(Callbacks) /\ IsInjective(ready)
    BY DEF ScopeInv, ReadyInv, Orderly
  <2>2. Head(ready) \in ToSet(ready)
    BY <1>2, <2>1, TailProperties
  <2> QED BY <1>1, <2>2 DEF ScopeInv, ReadyInv
<1>4. scope \in [Scopes -> [state : States, called : BOOLEAN, caught : BOOLEAN, calls : Nat, base : Nat]]
  BY DEF ScopeInv, ScopeTypes
<1>5. \A u \in Scopes : scope'[u].called = scope[u].called /\ scope'[u].state = scope[u].state
  BY <1>1, <1>4 DEF Nested!Deliver
<1>6. Cancelled(s)' /\ \A u \in Scopes : Cancelled(u) => Cancelled(u)'
  BY <1>3, <1>5 DEF Cancelled
<1> QED BY <1>1, <1>2, <1>4, <1>6, OwedDeliver

\* The other steps neither request nor withdraw anything.
LEMMA OwedOthers ==
  ASSUME ScopeInv, ScopeInv', RequestInv,
         \/ \E s \in Scopes : Nested!CancelHere(s)
         \/ Nested!Finish \/ Nested!AwaitsUnshielded \/ Nested!AwaitsShielded
         \/ Nested!FutureDone \/ Nested!TaskSteps \/ Nested!DelayedRuns
  PROVE  OwedInv' /\ CallsInv'
<1>1. CASE \E s \in Scopes : Nested!CancelHere(s)
  <2>1. PICK s \in Scopes : scope' = [scope EXCEPT ![s].called = TRUE] /\ UNCHANGED <<stack, cancelling, outside>>
    BY <1>1 DEF Nested!CancelHere
  <2>2. \A u \in Scopes : /\ scope'[u].calls = scope[u].calls /\ scope'[u].base = scope[u].base
                          /\ scope'[u].state = scope[u].state /\ (scope[u].called => scope'[u].called)
    BY <2>1 DEF ScopeInv, ScopeTypes
  <2>3. \A u \in Scopes : Cancelled(u) => Cancelled(u)'
    BY <2>2 DEF Cancelled
  <2>4. FromOutside' = FromOutside
    BY <2>1 DEF FromOutside
  <2> QED BY <2>1, <2>2, <2>3, <2>4, OwedSame DEF RequestInv
<1>2. CASE \/ Nested!Finish \/ Nested!AwaitsUnshielded \/ Nested!AwaitsShielded
           \/ Nested!FutureDone \/ Nested!TaskSteps \/ Nested!DelayedRuns
  <2>1. UNCHANGED <<scope, stack, cancelling>>
    BY <1>2 DEF Nested!Finish, Nested!AwaitsUnshielded, Nested!AwaitsShielded, Nested!Await, Nested!FutureDone,
                Nested!TaskSteps, Nested!DelayedRuns
  <2>2. FromOutside' = FromOutside
    <3>1. outside' = outside \/ (Nested!Thrown = "task.cancel()" /\ outside' = "thrown")
      BY <1>2 DEF Nested!Finish, Nested!AwaitsUnshielded, Nested!AwaitsShielded, Nested!Await, Nested!FutureDone,
                  Nested!TaskSteps, Nested!StepWaiting, Nested!StepYielding, Nested!StepIgnoring, Nested!DelayedRuns
    <3>2. Nested!Thrown \in {awaited, must}
      BY DEF Nested!Thrown
    <3>3. Nested!Thrown = "task.cancel()" => outside # "no"
      BY <3>2 DEF RequestInv, OutsideInv
    <3> QED BY <3>1, <3>3 DEF FromOutside
  <2>3. \A u \in Scopes : Cancelled(u) => Cancelled(u)'
    BY <2>1 DEF Cancelled
  <2> QED BY <2>1, <2>2, <2>3, OwedSame DEF RequestInv
<1> QED BY <1>1, <1>2

\* What a step keeps was kept before, or is a scope.
LEMMA OutsideKept ==
  ASSUME OutsideInv, outside' = "no" => outside = "no",
         {must', last', raising', delayed', awaited'} \subseteq
           {must, last, raising, delayed, awaited} \cup Scopes \cup {"no", "pending", "done"}
  PROVE  OutsideInv'
<1>1. "task.cancel()" \notin Scopes \cup {"no", "pending", "done"}
  BY ScopeNames
<1> QED BY <1>1 DEF OutsideInv

LEMMA OutsideStep ==
  ASSUME OutsideInv, Nested!Next
  PROVE  OutsideInv'
<1>1. ASSUME NEW s \in Scopes, Nested!Enter(s) \/ Nested!CancelHere(s) PROVE OutsideInv'
  BY <1>1 DEF Nested!Enter, Nested!CancelHere, Nested!taskVars, OutsideInv
<1>2. ASSUME NEW s \in Scopes, NEW q, NEW scopes, Nested!Deliver(s, q, scopes)
      PROVE  /\ must' \in {must} \cup Scopes /\ awaited' \in {awaited} \cup Scopes
  BY <1>2 DEF Nested!Deliver, Nested!TaskCancel
<1>3. ASSUME NEW s \in Scopes, Nested!CancelCalled(s) PROVE OutsideInv'
  <2>1. must' \in {must} \cup Scopes /\ awaited' \in {awaited} \cup Scopes
    BY <1>2, <1>3 DEF Nested!CancelCalled
  <2>2. UNCHANGED <<last, raising, delayed, outside>>
    BY <1>3 DEF Nested!CancelCalled
  <2> QED BY <2>1, <2>2, OutsideKept
<1>4. CASE Nested!RetryRuns
  <2>1. must' \in {must} \cup Scopes /\ awaited' \in {awaited} \cup Scopes
    BY <1>2, <1>4 DEF Nested!RetryRuns
  <2>2. UNCHANGED <<last, raising, delayed, outside>>
    BY <1>4 DEF Nested!RetryRuns
  <2> QED BY <2>1, <2>2, OutsideKept
<1>5. CASE Nested!Exit
  <2>1. /\ delayed' \in {"no", delayed} /\ raising' \in {"no", raising}
        /\ UNCHANGED <<awaited, must, last, outside>>
    BY <1>5 DEF Nested!Exit
  <2> QED BY <2>1, OutsideKept
<1>6. CASE Nested!Finish \/ Nested!AwaitsUnshielded \/ Nested!AwaitsShielded \/ Nested!FutureDone
  <2>1. /\ raising' \in {"no", raising} /\ awaited' \in {"pending", "done", awaited}
        /\ UNCHANGED <<must, last, delayed, outside>>
    BY <1>6 DEF Nested!Finish, Nested!AwaitsUnshielded, Nested!AwaitsShielded, Nested!Await, Nested!FutureDone
  <2> QED BY <2>1, OutsideKept
<1>7. CASE Nested!TaskSteps
  <2>1. must' = "no" /\ Nested!Thrown \in {awaited, must}
    BY <1>7 DEF Nested!TaskSteps, Nested!Thrown
  <2>2. CASE Nested!StepWaiting
    <3>1. /\ raising' = Nested!Thrown /\ UNCHANGED <<awaited, last, delayed>> /\ (outside' = "no" => outside = "no")
      BY <2>2 DEF Nested!StepWaiting
    <3> QED BY <2>1, <3>1, OutsideKept
  <2>3. CASE Nested!StepYielding
    <3>1. delayed' \in {delayed, Nested!Thrown} /\ UNCHANGED <<awaited, last, raising, outside>>
      BY <2>3 DEF Nested!StepYielding, Nested!Reschedule
    <3> QED BY <2>1, <3>1, OutsideKept
  <2>4. CASE Nested!StepIgnoring
    <3>1. /\ awaited' \in {"pending", "done", awaited} /\ last' \in {"no", last, Nested!Thrown}
          /\ delayed' \in {delayed, last, Nested!Thrown} /\ UNCHANGED <<raising, outside>>
      BY <2>4 DEF Nested!StepIgnoring, Nested!Reschedule
    <3> QED BY <2>1, <3>1, OutsideKept
  <2> QED BY <1>7, <2>2, <2>3, <2>4 DEF Nested!TaskSteps
<1>8. CASE Nested!DelayedRuns
  <2>1. /\ delayed' = "no" /\ must' \in {must, delayed} /\ awaited' \in {awaited, delayed}
        /\ UNCHANGED <<last, raising, outside>>
    BY <1>8 DEF Nested!DelayedRuns, Nested!TaskCancel
  <2> QED BY <2>1, OutsideKept
<1>9. CASE Nested!CancelTask
  BY <1>9 DEF Nested!CancelTask, OutsideInv
<1> QED BY <1>1, <1>3, <1>4, <1>5, <1>6, <1>7, <1>8, <1>9 DEF Nested!Next, Nested!Leaves, Nested!LoopRuns

LEMMA RequestStep ==
  ASSUME ScopeInv, ScopeInv', RequestInv, Nested!Next \/ TaskLeft \/ UNCHANGED scopeVars
  PROVE  RequestInv'
<1>1. CASE UNCHANGED scopeVars
  <2>1. /\ UNCHANGED <<scope, stack, cancelling, outside>>
        /\ UNCHANGED <<must, last, raising, delayed, awaited>>
    BY <1>1 DEF scopeVars
  <2>2. FromOutside' = FromOutside /\ \A s \in Scopes : Cancelled(s)' = Cancelled(s)
    BY <2>1 DEF FromOutside, Cancelled
  <2>3. OwedInv' /\ CallsInv'
    BY <2>1, <2>2, OwedSame DEF RequestInv
  <2>4. OutsideInv'
    BY <2>1 DEF RequestInv, OutsideInv
  <2> QED BY <2>3, <2>4 DEF RequestInv
<1>2. CASE Nested!Next
  <2>1. OutsideInv'
    BY <1>2, OutsideStep DEF RequestInv
  <2>2. OwedInv' /\ CallsInv'
    <3>1. ASSUME NEW s \in Scopes, Nested!Enter(s) \/ Nested!CancelHere(s) \/ Nested!CancelCalled(s)
          PROVE  OwedInv' /\ CallsInv'
      <4>1. CASE Nested!Enter(s)
        BY <4>1, OwedEnter DEF RequestInv
      <4>2. CASE Nested!CancelHere(s)
        BY <4>2, OwedOthers
      <4>3. CASE Nested!CancelCalled(s)
        BY <4>3, OwedCancelCalled DEF RequestInv
      <4> QED BY <3>1, <4>1, <4>2, <4>3
    <3>2. CASE Nested!Leaves
      BY <3>2, OwedExit, OwedOthers DEF Nested!Leaves, RequestInv
    <3>3. CASE Nested!AwaitsUnshielded \/ Nested!AwaitsShielded
      BY <3>3, OwedOthers
    <3>4. CASE Nested!FutureDone \/ Nested!LoopRuns
      BY <3>4, OwedOthers, OwedRetryRuns DEF Nested!LoopRuns, RequestInv
    <3>5. CASE Nested!CancelTask
      BY <3>5, OwedOutside DEF RequestInv
    <3> QED BY <1>2, <3>1, <3>2, <3>3, <3>4, <3>5 DEF Nested!Next
  <2> QED BY <2>1, <2>2 DEF RequestInv
<1> QED BY <1>1, <1>2 DEF TaskLeft

\* The sum that the property takes is the one of the invariant.
LEMMA RequestProperty == ScopeInv /\ RequestInv => Nested!RequestsWithdrawn
<1> SUFFICES ASSUME ScopeInv, RequestInv PROVE Nested!RequestsWithdrawn
  OBVIOUS
<1>1. PICK g : Weights(g, CallsMade, Scopes) /\ cancelling = g[Scopes] + FromOutside
  BY DEF RequestInv, OwedInv
<1>2. PICK f \in [Scopes -> Nat] : f = CallsMade
  BY CallsTyped
<1>3. PICK h : Weights(h, f, Scopes) /\ SumOver(f, Scopes) = h[Scopes]
  BY ScopesFinite, WeightsExist
<1>4. g = h
  <2>1. Weights(g, f, Scopes)
    BY <1>1, <1>2
  <2> QED BY <1>3, <2>1, ScopesFinite, WeightsUnique
<1>5. Nested!MapThenSumSet(LAMBDA s : scope[s].calls, Scopes) = SumOver(f, Scopes)
  BY <1>2 DEF SumOver, CallsMade, Nested!MapThenSumSet, MapThenSumSet, Nested!MapThenFoldSet, MapThenFoldSet
<1>6. cancelling = SumOver(f, Scopes) + FromOutside
  BY <1>1, <1>3, <1>4
<1> QED BY <1>5, <1>6 DEF Nested!RequestsWithdrawn, FromOutside

-----------------------------------------------------------------------------
(***************************************************************************)
(* The whole                                                               *)
(***************************************************************************)

BackendInv == LockInv /\ ParkInv /\ PortalInv /\ ScopeInv /\ RequestInv /\ ExecutorInv

allVars == <<part, vars, lotVars, portalVars, scopeVars, executorVars>>

LEMMA BackendInitInv == BackendInit => BackendInv
BY LockInit, ParkInit, PortalInit, ScopeInit, OwedInit, ExecutorInit DEF BackendInit, BackendInv

\* A step is one of each part, or leaves the part alone.
LEMMA BackendParts ==
  ASSUME [BackendNext]_allVars
  PROVE  /\ Next \/ UNCHANGED vars
         /\ Parking!Next \/ UNCHANGED lotVars
         /\ Portal!Next \/ PortalLeft \/ UNCHANGED portalVars
         /\ Nested!Next \/ TaskLeft \/ UNCHANGED scopeVars
         /\ Executor!Next \/ CallsLeft \/ UNCHANGED executorVars
<1>1. CASE UNCHANGED allVars
  BY <1>1 DEF allVars
<1>2. CASE BackendNext
  BY <1>2, Zenon DEF BackendNext
<1> QED BY <1>1, <1>2

LEMMA BackendStep == BackendInv /\ [BackendNext]_allVars => BackendInv'
<1> SUFFICES ASSUME BackendInv, [BackendNext]_allVars PROVE BackendInv'
  OBVIOUS
<1>1. LockInv'
  BY BackendParts, LockStep DEF BackendInv
<1>2. ParkInv'
  BY BackendParts, ParkStep DEF BackendInv
<1>3. PortalInv'
  BY BackendParts, PortalStep DEF BackendInv
<1>4. ScopeInv'
  BY BackendParts, ScopeStep DEF BackendInv
<1>5. RequestInv'
  BY <1>4, BackendParts, RequestStep DEF BackendInv
<1>6. ExecutorInv'
  BY BackendParts, ExecutorStep DEF BackendInv
<1> QED BY <1>1, <1>2, <1>3, <1>4, <1>5, <1>6 DEF BackendInv

LEMMA BackendInvariance == BackendSpec => []BackendInv
BY BackendInitInv, BackendStep, PTL DEF BackendSpec, allVars

\* The locks, the scopes and the calls keep their types: in the queue of the lock is who
\* is in acquire(), and no callback of a scope is queued twice in the event loop.
THEOREM BackendTypes == BackendSpec => []BackendTypeOK
<1>1. BackendInv => BackendTypeOK
  BY ScopeProperties DEF BackendInv, LockInv, ExecutorInv, BackendTypeOK
<1> QED BY <1>1, BackendInvariance, PTL

\* FairLock has one holder at a time, and _locked says whether there is one.
THEOREM LockIsExclusive == BackendSpec => []MutualExclusion
<1>1. BackendInv => MutualExclusion
  BY DEF BackendInv, LockInv
<1> QED BY <1>1, BackendInvariance, PTL

\* ThreadsPortal is left with no call under way, AsyncExecutor with no call that may
\* still start, and neither lock is free while the tasks in its queue all sleep.
THEOREM NobodyIsLeftBehind == BackendSpec => []NothingLeftBehind
<1>1. BackendInv => NothingLeftBehind
  BY PortalProperty DEF BackendInv, LockInv, ParkInv, ExecutorInv, NothingLeftBehind
<1> QED BY <1>1, BackendInvariance, PTL

\* CancelScope raises a cancellation in its scope only, and no cancellation is delayed
\* while another one is: the assertion of _reschedule_delayed_task_cancel().
THEOREM CancelledOnlyInside == BackendSpec => []CancelledInItsScope
<1>1. BackendInv => CancelledInItsScope
  BY ScopeProperties DEF BackendInv, CancelledInItsScope
<1> QED BY <1>1, BackendInvariance, PTL

\* CancelScope.__exit__() takes back the cancellations that the scope requested, and none
\* of another: what task.cancelling() counts is always what the open scopes requested.
THEOREM RequestsAreWithdrawn == BackendSpec => []RequestsWithdrawn
<1>1. BackendInv => RequestsWithdrawn
  BY RequestProperty DEF BackendInv, RequestsWithdrawn
<1> QED BY <1>1, BackendInvariance, PTL

\* FairLock and FastFIFOLock implement the lock that create_fair_lock() promises.
THEOREM LocksAreFair == BackendSpec => BothAreFairMutexes
<1>1. BackendInit => Mutex!Init /\ Parking!Mutex!Init
  BY LockRefinedInit, ParkRefinedInit DEF BackendInit
<1>2. BackendInv /\ BackendInv' /\ [BackendNext]_allVars => [Mutex!Next]_(Mutex!vars)
  <2> SUFFICES ASSUME BackendInv, BackendInv', [BackendNext]_allVars PROVE [Mutex!Next]_(Mutex!vars)
    OBVIOUS
  <2>1. LockInv /\ LockInv' /\ [Next]_vars
    BY BackendParts DEF BackendInv
  <2> QED BY <2>1, LockSimulated
<1>3. BackendInv /\ BackendInv' /\ [BackendNext]_allVars => [Parking!Mutex!Next]_(Parking!Mutex!vars)
  <2> SUFFICES ASSUME BackendInv, BackendInv', [BackendNext]_allVars PROVE [Parking!Mutex!Next]_(Parking!Mutex!vars)
    OBVIOUS
  <2>1. ParkInv /\ ParkInv' /\ (Parking!Next \/ UNCHANGED lotVars)
    BY BackendParts DEF BackendInv
  <2> QED BY <2>1, ParkSimulated
<1> QED BY <1>1, <1>2, <1>3, BackendInvariance, PTL
        DEF BackendSpec, allVars, BothAreFairMutexes, ImplementsFairMutex, Mutex!Spec,
            Parking!ImplementsFairMutex, Parking!Mutex!Spec
=============================================================================
