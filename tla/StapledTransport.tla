-------------------------- MODULE StapledTransport --------------------------
(***************************************************************************)
(* Two transports used as one (api_async/transports/composite.py): one     *)
(* sends, the other receives.  Tasks close the pair, or the sending half   *)
(* when it has no send_eof(), while the close of a half may fail or be     *)
(* cancelled: either way that half is closed then, which is what aclose()  *)
(* promises in api_async/transports/abc.py.                                *)
(***************************************************************************)
CONSTANT Owners  \* the tasks that have the pair

VARIABLES
  fullDuplex,  \* whether the sending half can send_eof()
  half,        \* "open", "closing" or "closed"
  at,          \* the call of every task: what it waits for
  over         \* history: tasks whose aclose() ended

vars == <<fullDuplex, half, at, over>>

Halves == {"sending", "receiving"}

Init ==
  /\ fullDuplex \in BOOLEAN /\ half = [h \in Halves |-> "open"]
  /\ at = [t \in Owners |-> "idle"] /\ over = {}

\* The half that a task waits for.
Awaited(t) == IF at[t] \in {"eof", "sending"} THEN "sending" ELSE "receiving"

Begins(h, halves) == [halves EXCEPT ![h] = IF @ = "open" THEN "closing" ELSE @]

\* send_eof(), when the sending half has none: that half is closed.
SendEof(t) ==
  /\ at[t] = "idle" /\ ~fullDuplex
  /\ half' = Begins("sending", half) /\ at' = [at EXCEPT ![t] = "eof"]
  /\ UNCHANGED <<fullDuplex, over>>

\* aclose(): the exit stack closes the sending half first.
Aclose(t) ==
  /\ at[t] = "idle"
  /\ half' = Begins("sending", half) /\ at' = [at EXCEPT ![t] = "sending"]
  /\ UNCHANGED <<fullDuplex, over>>

\* After the sending half comes the receiving one: with aclose(), or by force when
\* the first close raised.
FaultAfterSending(error) == IF error THEN "idle" ELSE "receiving"
AfterSending(error) == IF error THEN "forced" ELSE "receiving"

\* The close of a half ends, with an error or without.
HalfCloses(t, error) ==
  /\ at[t] # "idle"
  /\ LET now == [half EXCEPT ![Awaited(t)] = "closed"]
         next == IF at[t] = "sending" THEN AfterSending(error) ELSE "idle"
     IN /\ half' = IF next = "idle" THEN now ELSE Begins("receiving", now)
        /\ at' = [at EXCEPT ![t] = next]
        /\ over' = IF next = "idle" /\ at[t] # "eof" THEN over \cup {t} ELSE over
  /\ UNCHANGED fullDuplex

Next == \E t \in Owners : SendEof(t) \/ Aclose(t) \/ \E error \in BOOLEAN : HalfCloses(t, error)

Spec == Init /\ [][Next]_vars
-----------------------------------------------------------------------------
TypeOK ==
  /\ half \in [Halves -> {"open", "closing", "closed"}]
  /\ at \in [Owners -> {"idle", "eof", "sending", "receiving", "forced"}]

\* _close_stapled_transports(): no half is left open by an aclose() that ended, whatever
\* failed or was cancelled on the way, nor by two tasks that close the pair together.
BothAreClosed == over # {} => \A h \in Halves : half[h] = "closed"
=============================================================================
