--------------------------- MODULE KernelMutexProofs ---------------------------
(***************************************************************************)
(* The mutex of synch.c, for any set of threads: its assertions hold, no   *)
(* waiter is left behind on a free mutex, and the code implements Monitor. *)
(***************************************************************************)
EXTENDS KernelMutex, TLAPS

TypeInv ==
  /\ current \in Thread \cup {NoThread}
  /\ ready \subseteq Thread /\ mutexQueue \subseteq Thread /\ condQueue \subseteq Thread
  /\ noPreempt \in BOOLEAN /\ held \in BOOLEAN
  /\ owner \in Thread \cup {NoThread}
  /\ pc \in [Thread -> Locations]

\* A thread is in one queue at most, and in none while it runs; in a wait queue it is
\* about to return from Wait().
Places ==
  /\ current \notin ready \cup mutexQueue \cup condQueue
  /\ ready \cap mutexQueue = {}
  /\ ready \cap condQueue = {}
  /\ mutexQueue \cap condQueue = {}
  /\ \A t \in mutexQueue \cup condQueue : pc[t] = "woken"

\* Where the flag protects a thread.
Guarded ==
  { "lock", "wait", "take", "locked", "unlock", "wake", "unlocked", "unlockC", "wakeC",
    "waitC" }

\* The flag is set for the thread that runs, and it is set wherever it has to be.
Flag ==
  /\ \A t \in Thread : pc[t] \in Guarded => current = t /\ noPreempt
  /\ noPreempt => current \in Thread /\ pc[current] \in Guarded

\* The mutex and its owner agree, and what a thread has tested is still so.
Ownership ==
  /\ held <=> owner # NoThread
  /\ \A t \in Thread :
       /\ owner = t <=> pc[t] \in {"locked", "in", "signalled", "unlock", "unlockC"}
       /\ pc[t] = "wait" => held
       /\ pc[t] = "take" => ~held

IInv == TypeInv /\ Places /\ Flag /\ Ownership /\ NoLostWake

-------------------------------------------------------------------------------
LEMMA InitIInv == Init => IInv
  <1>. SUFFICES ASSUME Init PROVE IInv
    OBVIOUS
  <1>. QED
    BY ThreadAssumption
    DEF Init, IInv, TypeInv, Places, Flag, Guarded, Ownership, NoLostWake, Locations

\* The invariant is preserved by the scheduler.
LEMMA DispatchIInv == ASSUME NEW t \in Thread, IInv, Dispatch(t) PROVE IInv'
  <1>. USE ThreadAssumption DEF IInv
  <1>1. TypeInv'
    BY DEF Dispatch, schedVars, TypeInv, Locations
  <1>2. Places'
    BY DEF Dispatch, schedVars, TypeInv, Places, Flag, Guarded, Ownership
  <1>3. Flag'
    BY DEF Dispatch, schedVars, TypeInv, Places, Flag, Guarded
  <1>4. Ownership'
    BY DEF Dispatch, schedVars, TypeInv, Flag, Guarded, Ownership
  <1>5. NoLostWake'
    BY DEF Dispatch, schedVars, TypeInv, Places, Flag, Guarded, Ownership, NoLostWake
  <1>. QED
    BY <1>1, <1>2, <1>3, <1>4, <1>5

\* The invariant is preserved by the timer.
LEMMA PreemptIInv == ASSUME NEW t \in Thread, IInv, Preempt(t) PROVE IInv'
  <1>. USE ThreadAssumption DEF IInv
  <1>1. TypeInv'
    BY DEF Preempt, schedVars, TypeInv, Locations
  <1>2. Places'
    BY DEF Preempt, schedVars, TypeInv, Places, Flag, Guarded, Ownership
  <1>3. Flag'
    BY DEF Preempt, schedVars, TypeInv, Places, Flag, Guarded
  <1>4. Ownership'
    BY DEF Preempt, schedVars, TypeInv, Flag, Guarded, Ownership
  <1>5. NoLostWake'
    BY DEF Preempt, schedVars, TypeInv, Places, Flag, Guarded, Ownership, NoLostWake
  <1>. QED
    BY <1>1, <1>2, <1>3, <1>4, <1>5

\* The invariant is preserved by a thread that begins to lock.
LEMMA LockIInv == ASSUME NEW t \in Thread, IInv, Lock(t) PROVE IInv'
  <1>. USE ThreadAssumption DEF IInv
  <1>1. TypeInv'
    BY DEF Lock, Runs, Goto, schedVars, TypeInv, Locations
  <1>2. Places'
    BY DEF Lock, Runs, Goto, schedVars, TypeInv, Places, Flag, Guarded, Ownership
  <1>3. Flag'
    BY DEF Lock, Runs, Goto, schedVars, TypeInv, Places, Flag, Guarded
  <1>4. Ownership'
    BY DEF Lock, Runs, Goto, schedVars, TypeInv, Flag, Guarded, Ownership
  <1>5. NoLostWake'
    BY DEF Lock, Runs, Goto, schedVars, TypeInv, Places, Flag, Guarded, Ownership, NoLostWake
  <1>. QED
    BY <1>1, <1>2, <1>3, <1>4, <1>5

\* The invariant is preserved by the test of the mutex.
LEMMA TestIInv == ASSUME NEW t \in Thread, IInv, Test(t) PROVE IInv'
  <1>. USE ThreadAssumption DEF IInv
  <1>1. TypeInv'
    BY DEF Test, Runs, Goto, schedVars, TypeInv, Locations
  <1>2. Places'
    BY DEF Test, Runs, Goto, schedVars, TypeInv, Places, Flag, Guarded, Ownership
  <1>3. Flag'
    BY DEF Test, Runs, Goto, schedVars, TypeInv, Places, Flag, Guarded
  <1>4. Ownership'
    BY DEF Test, Runs, Goto, schedVars, TypeInv, Flag, Guarded, Ownership
  <1>5. NoLostWake'
    BY DEF Test, Runs, Goto, schedVars, TypeInv, Places, Flag, Guarded, Ownership, NoLostWake
  <1>. QED
    BY <1>1, <1>2, <1>3, <1>4, <1>5

\* The invariant is preserved by a thread that goes to sleep for the mutex.
LEMMA MutexWaitIInv == ASSUME NEW t \in Thread, IInv, MutexWait(t) PROVE IInv'
  <1>. USE ThreadAssumption DEF IInv
  <1>1. TypeInv'
    BY DEF MutexWait, Runs, Goto, schedVars, TypeInv, Locations
  <1>2. Places'
    BY DEF MutexWait, Runs, Goto, schedVars, TypeInv, Places, Flag, Guarded, Ownership
  <1>3. Flag'
    BY DEF MutexWait, Runs, Goto, schedVars, TypeInv, Places, Flag, Guarded
  <1>4. Ownership'
    BY DEF MutexWait, Runs, Goto, schedVars, TypeInv, Flag, Guarded, Ownership
  <1>5. NoLostWake'
    BY DEF MutexWait, Runs, Goto, schedVars, TypeInv, Places, Flag, Guarded, Ownership, NoLostWake
  <1>. QED
    BY <1>1, <1>2, <1>3, <1>4, <1>5

\* The invariant is preserved by a thread that returns from Wait().
LEMMA WokenIInv == ASSUME NEW t \in Thread, IInv, Woken(t) PROVE IInv'
  <1>. USE ThreadAssumption DEF IInv
  <1>1. TypeInv'
    BY DEF Woken, Runs, Goto, schedVars, TypeInv, Locations
  <1>2. Places'
    BY DEF Woken, Runs, Goto, schedVars, TypeInv, Places, Flag, Guarded, Ownership
  <1>3. Flag'
    BY DEF Woken, Runs, Goto, schedVars, TypeInv, Places, Flag, Guarded
  <1>4. Ownership'
    BY DEF Woken, Runs, Goto, schedVars, TypeInv, Flag, Guarded, Ownership
  <1>5. NoLostWake'
    BY DEF Woken, Runs, Goto, schedVars, TypeInv, Places, Flag, Guarded, Ownership, NoLostWake
  <1>. QED
    BY <1>1, <1>2, <1>3, <1>4, <1>5

\* The invariant is preserved by a thread that takes the mutex.
LEMMA TakeIInv == ASSUME NEW t \in Thread, IInv, Take(t) PROVE IInv'
  <1>. USE ThreadAssumption DEF IInv
  <1>1. TypeInv'
    BY DEF Take, Runs, Goto, schedVars, TypeInv, Locations
  <1>2. Places'
    BY DEF Take, Runs, Goto, schedVars, TypeInv, Places, Flag, Guarded, Ownership
  <1>3. Flag'
    BY DEF Take, Runs, Goto, schedVars, TypeInv, Places, Flag, Guarded
  <1>4. Ownership'
    BY DEF Take, Runs, Goto, schedVars, TypeInv, Flag, Guarded, Ownership
  <1>5. NoLostWake'
    BY DEF Take, Runs, Goto, schedVars, TypeInv, Places, Flag, Guarded, Ownership, NoLostWake
  <1>. QED
    BY <1>1, <1>2, <1>3, <1>4, <1>5

\* The invariant is preserved by the end of a lock.
LEMMA LockedIInv == ASSUME NEW t \in Thread, IInv, Locked(t) PROVE IInv'
  <1>. USE ThreadAssumption DEF IInv
  <1>1. TypeInv'
    BY DEF Locked, Runs, Goto, schedVars, TypeInv, Locations
  <1>2. Places'
    BY DEF Locked, Runs, Goto, schedVars, TypeInv, Places, Flag, Guarded, Ownership
  <1>3. Flag'
    BY DEF Locked, Runs, Goto, schedVars, TypeInv, Places, Flag, Guarded
  <1>4. Ownership'
    BY DEF Locked, Runs, Goto, schedVars, TypeInv, Flag, Guarded, Ownership
  <1>5. NoLostWake'
    BY DEF Locked, Runs, Goto, schedVars, TypeInv, Places, Flag, Guarded, Ownership, NoLostWake
  <1>. QED
    BY <1>1, <1>2, <1>3, <1>4, <1>5

\* The invariant is preserved by a thread that begins to unlock.
LEMMA UnlockIInv == ASSUME NEW t \in Thread, IInv, Unlock(t) PROVE IInv'
  <1>. USE ThreadAssumption DEF IInv
  <1>1. TypeInv'
    BY DEF Unlock, Runs, Goto, schedVars, TypeInv, Locations
  <1>2. Places'
    BY DEF Unlock, Runs, Goto, schedVars, TypeInv, Places, Flag, Guarded, Ownership
  <1>3. Flag'
    BY DEF Unlock, Runs, Goto, schedVars, TypeInv, Places, Flag, Guarded
  <1>4. Ownership'
    BY DEF Unlock, Runs, Goto, schedVars, TypeInv, Flag, Guarded, Ownership
  <1>5. NoLostWake'
    BY DEF Unlock, Runs, Goto, schedVars, TypeInv, Places, Flag, Guarded, Ownership, NoLostWake
  <1>. QED
    BY <1>1, <1>2, <1>3, <1>4, <1>5

\* The invariant is preserved by a thread that begins to wait for the condition.
LEMMA CondWaitIInv == ASSUME NEW t \in Thread, IInv, CondWait(t) PROVE IInv'
  <1>. USE ThreadAssumption DEF IInv
  <1>1. TypeInv'
    BY DEF CondWait, Runs, Goto, schedVars, TypeInv, Locations
  <1>2. Places'
    BY DEF CondWait, Runs, Goto, schedVars, TypeInv, Places, Flag, Guarded, Ownership
  <1>3. Flag'
    BY DEF CondWait, Runs, Goto, schedVars, TypeInv, Places, Flag, Guarded
  <1>4. Ownership'
    BY DEF CondWait, Runs, Goto, schedVars, TypeInv, Flag, Guarded, Ownership
  <1>5. NoLostWake'
    BY DEF CondWait, Runs, Goto, schedVars, TypeInv, Places, Flag, Guarded, Ownership, NoLostWake
  <1>. QED
    BY <1>1, <1>2, <1>3, <1>4, <1>5

\* The invariant is preserved by the release of the mutex.
LEMMA ReleaseIInv == ASSUME NEW t \in Thread, IInv, Release(t) PROVE IInv'
  <1>. USE ThreadAssumption DEF IInv
  <1>1. TypeInv'
    BY DEF Release, Runs, Goto, schedVars, TypeInv, Locations
  <1>2. Places'
    BY DEF Release, Runs, Goto, schedVars, TypeInv, Places, Flag, Guarded, Ownership
  <1>3. Flag'
    BY DEF Release, Runs, Goto, schedVars, TypeInv, Places, Flag, Guarded
  <1>4. Ownership'
    BY DEF Release, Runs, Goto, schedVars, TypeInv, Flag, Guarded, Ownership
  <1>5. NoLostWake'
    BY DEF Release, Runs, Goto, schedVars, TypeInv, Places, Flag, Guarded, Ownership, NoLostWake
  <1>. QED
    BY <1>1, <1>2, <1>3, <1>4, <1>5

\* The invariant is preserved by the wake-up of one waiter.
LEMMA WakeIInv == ASSUME NEW t \in Thread, IInv, Wake(t) PROVE IInv'
  <1>. USE ThreadAssumption DEF IInv
  <1>1. TypeInv'
    BY DEF Wake, Runs, Goto, schedVars, TypeInv, Locations
  <1>2. Places'
    BY DEF Wake, Runs, Goto, schedVars, TypeInv, Places, Flag, Guarded, Ownership
  <1>3. Flag'
    BY DEF Wake, Runs, Goto, schedVars, TypeInv, Places, Flag, Guarded
  <1>4. Ownership'
    BY DEF Wake, Runs, Goto, schedVars, TypeInv, Flag, Guarded, Ownership
  <1>5. NoLostWake'
    BY DEF Wake, Runs, Goto, schedVars, TypeInv, Places, Flag, Guarded, Ownership, NoLostWake
  <1>. QED
    BY <1>1, <1>2, <1>3, <1>4, <1>5

\* The invariant is preserved by the end of an unlock.
LEMMA UnlockedIInv == ASSUME NEW t \in Thread, IInv, Unlocked(t) PROVE IInv'
  <1>. USE ThreadAssumption DEF IInv
  <1>1. TypeInv'
    BY DEF Unlocked, Runs, Goto, schedVars, TypeInv, Locations
  <1>2. Places'
    BY DEF Unlocked, Runs, Goto, schedVars, TypeInv, Places, Flag, Guarded, Ownership
  <1>3. Flag'
    BY DEF Unlocked, Runs, Goto, schedVars, TypeInv, Places, Flag, Guarded
  <1>4. Ownership'
    BY DEF Unlocked, Runs, Goto, schedVars, TypeInv, Flag, Guarded, Ownership
  <1>5. NoLostWake'
    BY DEF Unlocked, Runs, Goto, schedVars, TypeInv, Places, Flag, Guarded, Ownership, NoLostWake
  <1>. QED
    BY <1>1, <1>2, <1>3, <1>4, <1>5

\* The invariant is preserved by a thread that goes to sleep for the condition.
LEMMA CondBlockIInv == ASSUME NEW t \in Thread, IInv, CondBlock(t) PROVE IInv'
  <1>. USE ThreadAssumption DEF IInv
  <1>1. TypeInv'
    BY DEF CondBlock, Runs, Goto, schedVars, TypeInv, Locations
  <1>2. Places'
    BY DEF CondBlock, Runs, Goto, schedVars, TypeInv, Places, Flag, Guarded, Ownership
  <1>3. Flag'
    BY DEF CondBlock, Runs, Goto, schedVars, TypeInv, Places, Flag, Guarded
  <1>4. Ownership'
    BY DEF CondBlock, Runs, Goto, schedVars, TypeInv, Flag, Guarded, Ownership
  <1>5. NoLostWake'
    BY DEF CondBlock, Runs, Goto, schedVars, TypeInv, Places, Flag, Guarded, Ownership, NoLostWake
  <1>. QED
    BY <1>1, <1>2, <1>3, <1>4, <1>5

\* The invariant is preserved by a signal.
LEMMA SignalIInv == ASSUME NEW t \in Thread, IInv, Signal(t) PROVE IInv'
  <1>. USE ThreadAssumption DEF IInv
  <1>1. TypeInv'
    BY DEF Signal, Runs, Goto, schedVars, TypeInv, Locations
  <1>2. Places'
    BY DEF Signal, Runs, Goto, schedVars, TypeInv, Places, Flag, Guarded, Ownership
  <1>3. Flag'
    BY DEF Signal, Runs, Goto, schedVars, TypeInv, Places, Flag, Guarded
  <1>4. Ownership'
    BY DEF Signal, Runs, Goto, schedVars, TypeInv, Flag, Guarded, Ownership
  <1>5. NoLostWake'
    BY DEF Signal, Runs, Goto, schedVars, TypeInv, Places, Flag, Guarded, Ownership, NoLostWake
  <1>. QED
    BY <1>1, <1>2, <1>3, <1>4, <1>5

\* The invariant is preserved by a broadcast.
LEMMA BroadcastIInv == ASSUME NEW t \in Thread, IInv, Broadcast(t) PROVE IInv'
  <1>. USE ThreadAssumption DEF IInv
  <1>1. TypeInv'
    BY DEF Broadcast, Runs, Goto, schedVars, TypeInv, Locations
  <1>2. Places'
    BY DEF Broadcast, Runs, Goto, schedVars, TypeInv, Places, Flag, Guarded, Ownership
  <1>3. Flag'
    BY DEF Broadcast, Runs, Goto, schedVars, TypeInv, Places, Flag, Guarded
  <1>4. Ownership'
    BY DEF Broadcast, Runs, Goto, schedVars, TypeInv, Flag, Guarded, Ownership
  <1>5. NoLostWake'
    BY DEF Broadcast, Runs, Goto, schedVars, TypeInv, Places, Flag, Guarded, Ownership, NoLostWake
  <1>. QED
    BY <1>1, <1>2, <1>3, <1>4, <1>5

\* The invariant is preserved by the end of a signal.
LEMMA ReturnIInv == ASSUME NEW t \in Thread, IInv, Return(t) PROVE IInv'
  <1>. USE ThreadAssumption DEF IInv
  <1>1. TypeInv'
    BY DEF Return, Runs, Goto, schedVars, TypeInv, Locations
  <1>2. Places'
    BY DEF Return, Runs, Goto, schedVars, TypeInv, Places, Flag, Guarded, Ownership
  <1>3. Flag'
    BY DEF Return, Runs, Goto, schedVars, TypeInv, Places, Flag, Guarded
  <1>4. Ownership'
    BY DEF Return, Runs, Goto, schedVars, TypeInv, Flag, Guarded, Ownership
  <1>5. NoLostWake'
    BY DEF Return, Runs, Goto, schedVars, TypeInv, Places, Flag, Guarded, Ownership, NoLostWake
  <1>. QED
    BY <1>1, <1>2, <1>3, <1>4, <1>5

-------------------------------------------------------------------------------
LEMMA NextIInv == IInv /\ [Next]_vars => IInv'
  <1>. SUFFICES ASSUME IInv, [Next]_vars PROVE IInv'
    OBVIOUS
  <1>1. ASSUME NEW t \in Thread, Dispatch(t) \/ Preempt(t) \/ Step(t) \/ Call(t)
        PROVE  IInv'
    <2>1. CASE Dispatch(t) \/ Preempt(t)
      BY <2>1, DispatchIInv, PreemptIInv
    <2>2. CASE Step(t)
      BY <2>2, TestIInv, MutexWaitIInv, WokenIInv, TakeIInv, LockedIInv, ReleaseIInv,
         WakeIInv, UnlockedIInv, CondBlockIInv, ReturnIInv DEF Step
    <2>3. CASE Call(t)
      BY <2>3, LockIInv, UnlockIInv, CondWaitIInv, SignalIInv, BroadcastIInv DEF Call
    <2>. QED
      BY <1>1, <2>1, <2>2, <2>3
  <1>2. CASE UNCHANGED vars
    BY <1>2 DEF IInv, TypeInv, Places, Flag, Ownership, NoLostWake, vars, schedVars
  <1>. QED
    BY <1>1, <1>2 DEF Next, Idle

\* The flag, the owner and the queues agree in every reachable state.
THEOREM Invariant == Spec => []IInv
  BY InitIInv, NextIInv, PTL DEF Spec

\* Nobody sleeps for a mutex that is free, with nobody on the way to wake it.
THEOREM NoLostWakeHolds == Spec => []NoLostWake
  BY Invariant, PTL DEF IInv

\* The assertions of synch.c and of Schedule() hold.
THEOREM AssertionsHold == Spec => []KassertsHold
  <1>1. IInv => KassertsHold
    BY ThreadAssumption DEF IInv, TypeInv, Flag, Guarded, Ownership, KassertsHold
  <1>. QED
    BY <1>1, Invariant, PTL

-------------------------------------------------------------------------------
(* The refinement.                                                         *)

\* Nobody waits, owns or notifies at the start.
LEMMA InitRefines == Init => M!Init
  BY DEF Init, M!Init, Waiting, Notified

\* The last step of a lock is where the monitor is acquired: nobody has it.
LEMMA TakeRefines ==
  ASSUME NEW t \in Thread, IInv, Take(t) PROVE M!Acquire(t)
  <1>. USE ThreadAssumption DEF IInv, TypeInv, Take, Runs, Goto
  <1>1. owner = NoThread /\ t \notin Waiting
    BY DEF Ownership, Places, Waiting
  <1>2. UNCHANGED Waiting
    BY DEF Waiting
  <1>3. Notified = FALSE /\ Notified' = FALSE
    BY <1>1 DEF Notified
  <1>. QED
    BY <1>1, <1>2, <1>3 DEF M!Acquire

\* The release of the mutex is a release, or the whole of a wait.
LEMMA ReleaseRefines ==
  ASSUME NEW t \in Thread, IInv, Release(t) PROVE M!Release(t) \/ M!Wait(t)
  <1>. USE ThreadAssumption DEF IInv, TypeInv, Release, Runs, Goto
  <1>1. owner = t /\ Notified = FALSE /\ Notified' = FALSE
    BY DEF Ownership, Notified
  <1>2. CASE pc[t] = "unlock"
    <2>1. UNCHANGED Waiting
      BY <1>2 DEF Waiting
    <2>. QED
      BY <1>1, <2>1 DEF M!Release
  <1>3. CASE pc[t] = "unlockC"
    <2>1. Waiting' = Waiting \cup {t}
      BY <1>3 DEF Waiting
    <2>. QED
      BY <1>1, <2>1 DEF M!Wait
  <1>. QED
    BY <1>2, <1>3

\* While a thread runs with preemption enabled, nobody is on the way to the condition.
LEMMA NobodyBetween ==
  ASSUME NEW t \in Thread, IInv, Runs(t, "in")
  PROVE  \A u \in Thread : pc[u] \notin {"wakeC", "waitC"}
  BY DEF IInv, Flag, Guarded, Runs

\* A signal notifies one of those that wait, if any.
LEMMA SignalRefines ==
  ASSUME NEW t \in Thread, IInv, Signal(t) PROVE M!Notify(t)
  <1>. USE DEF IInv, TypeInv, Signal, Runs, Goto
  <1>1. owner = t /\ Notified = FALSE /\ Notified' = TRUE
    BY DEF Ownership, Notified, Locations
  <1>2. /\ \A u \in Thread : pc[u] \notin {"wakeC", "waitC"}
        /\ \A u \in Thread : pc'[u] \notin {"wakeC", "waitC"}
    BY NobodyBetween
  <1>3. Waiting = condQueue /\ Waiting' = condQueue'
    BY <1>2 DEF Waiting
  <1>. QED
    BY <1>1, <1>2, <1>3 DEF M!Notify

\* A broadcast notifies all that wait.
LEMMA BroadcastRefines ==
  ASSUME NEW t \in Thread, IInv, Broadcast(t) PROVE M!NotifyAll(t)
  <1>. USE DEF IInv, TypeInv, Broadcast, Runs, Goto
  <1>1. owner = t /\ Notified = FALSE /\ Notified' = TRUE
    BY DEF Ownership, Notified, Locations
  <1>2. /\ \A u \in Thread : pc[u] \notin {"wakeC", "waitC"}
        /\ \A u \in Thread : pc'[u] \notin {"wakeC", "waitC"}
    BY NobodyBetween
  <1>3. Waiting = condQueue /\ Waiting' = {}
    BY <1>2 DEF Waiting
  <1>. QED
    BY <1>1, <1>3 DEF M!NotifyAll

\* Both calls return to the owner.
LEMMA ReturnRefines ==
  ASSUME NEW t \in Thread, IInv, Return(t) PROVE M!Return(t)
  <1>. USE DEF IInv, TypeInv, Return, Runs, Goto, schedVars
  <1>1. owner = t /\ Notified = TRUE /\ Notified' = FALSE
    BY DEF Ownership, Notified
  <1>2. UNCHANGED Waiting
    BY DEF Waiting
  <1>. QED
    BY <1>1, <1>2 DEF M!Return

\* No other step of a call is seen: among them the wake-up of a waiter for the mutex,
\* and the step into the queue of the condition, which the wait already did.
LEMMA StepStutters ==
  ASSUME NEW t \in Thread, IInv,
         \/ Lock(t) \/ Test(t) \/ MutexWait(t) \/ Woken(t) \/ Locked(t)
         \/ Unlock(t) \/ CondWait(t) \/ Wake(t) \/ Unlocked(t) \/ CondBlock(t)
  PROVE  UNCHANGED M!vars
  <1>. USE DEF IInv, TypeInv, Runs, Goto, schedVars, Lock, Test, MutexWait, Woken,
               Locked, Unlock, CondWait, Wake, Unlocked, CondBlock
  <1>1. UNCHANGED owner
    OBVIOUS
  <1>2. UNCHANGED Waiting
    BY DEF Waiting
  <1>3. UNCHANGED Notified
    BY DEF Notified
  <1>. QED
    BY <1>1, <1>2, <1>3 DEF M!vars

\* Every step is one of the monitor, or is not seen.
LEMMA NextRefines == IInv /\ [Next]_vars => [M!Next]_(M!vars)
  <1>. SUFFICES ASSUME IInv, [Next]_vars PROVE [M!Next]_(M!vars)
    OBVIOUS
  <1>1. ASSUME NEW t \in Thread, Dispatch(t) \/ Preempt(t)
        PROVE  UNCHANGED M!vars
    BY <1>1 DEF Dispatch, Preempt, M!vars, Waiting, Notified
  <1>2. ASSUME NEW t \in Thread, Step(t) \/ Call(t)
        PROVE  M!Next \/ UNCHANGED M!vars
    <2>1. CASE Take(t) \/ Release(t) \/ Signal(t) \/ Broadcast(t) \/ Return(t)
      BY <2>1, TakeRefines, ReleaseRefines, SignalRefines, BroadcastRefines,
         ReturnRefines DEF M!Next
    <2>2. CASE \/ Lock(t) \/ Test(t) \/ MutexWait(t) \/ Woken(t) \/ Locked(t)
               \/ Unlock(t) \/ CondWait(t) \/ Wake(t) \/ Unlocked(t) \/ CondBlock(t)
      BY <2>2, StepStutters
    <2>. QED
      BY <1>2, <2>1, <2>2 DEF Step, Call
  <1>3. CASE UNCHANGED vars
    BY <1>3 DEF vars, schedVars, M!vars, Waiting, Notified
  <1>. QED
    BY <1>1, <1>2, <1>3 DEF Next, Idle

\* The mutex and the condition of synch.c implement the monitor.
THEOREM Refinement == Spec => ImplementsMonitor
  BY InitRefines, NextRefines, Invariant, PTL DEF Spec, M!Spec, ImplementsMonitor

===============================================================================
