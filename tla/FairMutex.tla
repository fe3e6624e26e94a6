------------------------------ MODULE FairMutex ------------------------------
(***************************************************************************)
(* What AsyncBackend.create_fair_lock() promises: a lock with one holder   *)
(* at a time, given to those who wait in the order they asked for it.      *)
(*   src/easynetwork/lowlevel/api_async/backend/abc.py                     *)
(***************************************************************************)
CONSTANT Tasks

VARIABLES
  holders,  \* the tasks that own the lock
  line      \* the tasks that wait for it, each with those that asked before it

vars == <<holders, line>>

Init == holders = {} /\ DOMAIN line = {}

First(t) == t \in DOMAIN line /\ line[t] = {}
Without(t) == [u \in DOMAIN line \ {t} |-> line[u] \ {t}]

Ask(t) ==
  /\ t \notin holders \cup DOMAIN line
  /\ line' = [u \in DOMAIN line \cup {t} |-> IF u = t THEN DOMAIN line ELSE line[u]]
  /\ UNCHANGED holders

Enter(t) ==
  /\ holders = {}
  /\ DOMAIN line = {} \/ First(t)
  /\ holders' = {t} /\ line' = Without(t)

\* The holder goes; a lock may be handed to the next in line at once.
Leave(t) ==
  /\ holders = {t}
  /\ \/ holders' = {} /\ UNCHANGED line
     \/ \E u \in DOMAIN line : First(u) /\ holders' = {u} /\ line' = Without(u)

GiveUp(t) ==
  /\ t \in DOMAIN line
  /\ line' = Without(t)
  /\ UNCHANGED holders

Next == \E t \in Tasks : Ask(t) \/ Enter(t) \/ Leave(t) \/ GiveUp(t)

Spec == Init /\ [][Next]_vars
=============================================================================
