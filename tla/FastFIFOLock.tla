---------------------------- MODULE FastFIFOLock ----------------------------
(***************************************************************************)
(* The fair lock of the trio backend, on a parking lot.                    *)
(*   src/easynetwork/lowlevel/api_async/backend/_trio/_trio_utils.py       *)
(*                                                                         *)
(* trio removes a cancelled task from the lot at once, and never cancels a *)
(* task that was unparked: the lock is handed over, "granted", before the  *)
(* next holder runs.                                                       *)
(***************************************************************************)
EXTENDS Naturals, Sequences, SequencesExt

CONSTANT Tasks

VARIABLES
  locked,  \* _locked
  lot,     \* _lot: the parked tasks
  pc       \* "idle", "parked", "granted" or "holding"

vars == <<locked, lot, pc>>

Init ==
  /\ locked = FALSE
  /\ lot = <<>>
  /\ pc = [t \in Tasks |-> "idle"]

\* acquire() of a task that is not cancelled already.
Acquire(t) ==
  /\ pc[t] = "idle"
  /\ \/ /\ locked \/ lot # <<>>
        /\ lot' = Append(lot, t)
        /\ pc' = [pc EXCEPT ![t] = "parked"]
        /\ UNCHANGED locked
     \/ /\ ~locked /\ lot = <<>>
        /\ locked' = TRUE
        /\ pc' = [pc EXCEPT ![t] = "holding"]
        /\ UNCHANGED lot

\* park() returned: the lock is its own already.
Resume(t) ==
  /\ pc[t] = "granted"
  /\ pc' = [pc EXCEPT ![t] = "holding"]
  /\ UNCHANGED <<locked, lot>>

Unparked(t) == RemoveFirst(lot, t)
Cancel(t) ==
  /\ pc[t] = "parked"
  /\ lot' = Unparked(t)
  /\ pc' = [pc EXCEPT ![t] = "idle"]
  /\ UNCHANGED locked

\* The value release() leaves in _locked.
StaysLocked == lot # <<>>

\* The parked task unpark(count=1) takes.
NextOf(q) == Head(q)

Release(t) ==
  /\ pc[t] = "holding"
  /\ locked' = StaysLocked
  /\ \/ /\ lot # <<>>
        /\ lot' = Unparked(NextOf(lot))
        /\ pc' = [pc EXCEPT ![t] = "idle", ![NextOf(lot)] = "granted"]
     \/ /\ lot = <<>>
        /\ pc' = [pc EXCEPT ![t] = "idle"]
        /\ UNCHANGED lot

Next == \E t \in Tasks : Acquire(t) \/ Resume(t) \/ Cancel(t) \/ Release(t)

Spec == Init /\ [][Next]_vars

Fairness == \A t \in Tasks : WF_vars(Resume(t)) /\ WF_vars(Release(t))
FairSpec == Spec /\ Fairness

-----------------------------------------------------------------------------
(* Properties *)

Owners == {t \in Tasks : pc[t] \in {"granted", "holding"}}

\* Nobody is parked at an unlocked lock, whoever was cancelled meanwhile.
NobodyStranded == ~locked => lot = <<>>

Before(q, u, t) == \E i, j \in DOMAIN q : i < j /\ q[i] = u /\ q[j] = t
Line == [t \in ToSet(lot) |-> {u \in ToSet(lot) : Before(lot, u, t)}]

Mutex == INSTANCE FairMutex WITH holders <- Owners, line <- Line

\* The parking lot's lock is a fair mutex that hands over.
ImplementsFairMutex == Mutex!Spec
=============================================================================
