------------------------------ MODULE KernelMutex ------------------------------
(***************************************************************************)
(* The mutex and the condition variable of GeekOS (synch.c), which are     *)
(* built on one global flag that keeps the timer from taking the processor *)
(* away: kernel threads that lock, unlock, wait, signal and broadcast, the *)
(* flag, the two wait queues, and a scheduler that may pick any of the     *)
(* runnable threads.                                                       *)
(*                                                                         *)
(* A step is a statement of the code on shared state; the processor may be *)
(* taken between two of them unless the flag is set or interrupts are      *)
(* disabled.                                                               *)
(***************************************************************************)

CONSTANTS Thread, NoThread

ASSUME ThreadAssumption == NoThread \notin Thread

VARIABLES
  current,      \* g_currentThread, or NoThread: in Schedule(), or the idle thread
  ready,        \* s_runQueue, without the idle thread
  noPreempt,    \* g_preemptionDisabled
  held, owner,  \* state and owner of the mutex
  mutexQueue,   \* its waitQueue
  condQueue,    \* waitQueue of the condition
  pc

schedVars == <<current, ready>>
vars == <<schedVars, noPreempt, held, owner, mutexQueue, condQueue, pc>>

Locations ==
  { "out", "lock", "wait", "take", "locked", "in", "signalled", "woken",
    "unlock", "wake", "unlocked", "unlockC", "wakeC", "waitC" }

Runs(t, l) == current = t /\ pc[t] = l
Goto(t, l) == pc' = [pc EXCEPT ![t] = l]

\* Mutex_Init() and Cond_Init(), and threads that have been started.
Init ==
  /\ current = NoThread /\ ready = Thread
  /\ noPreempt = FALSE
  /\ held = FALSE /\ owner = NoThread
  /\ mutexQueue = {} /\ condQueue = {}
  /\ pc = [t \in Thread |-> "out"]

-------------------------------------------------------------------------------
(* The scheduler.                                                          *)

\* Get_Next_Runnable(), whatever the priorities are.
Dispatch(t) ==
  /\ current = NoThread /\ t \in ready
  /\ current' = t
  /\ ready' = ready \ {t}
  /\ UNCHANGED <<noPreempt, held, owner, mutexQueue, condQueue, pc>>

\* The return from an interrupt, which sees to it that preemption is not disabled;
\* Wait() returns with interrupts disabled.
Preempt(t) ==
  /\ current = t /\ ~noPreempt /\ pc[t] # "woken"
  /\ current' = NoThread
  /\ ready' = ready \cup {t}
  /\ UNCHANGED <<noPreempt, held, owner, mutexQueue, condQueue, pc>>

\* The idle thread, with nobody else to run.
Idle ==
  /\ current = NoThread /\ ready = {}
  /\ UNCHANGED vars

-------------------------------------------------------------------------------
(* Mutex_Lock().                                                           *)

\* Mutant: the flag is not set.
LockPreemptible(t) ==
  /\ Runs(t, "out")
  /\ Goto(t, "lock")
  /\ UNCHANGED <<schedVars, noPreempt, held, owner, mutexQueue, condQueue>>
\* Mutex_Lock() disables preemption.
Lock(t) ==
  /\ Runs(t, "out")
  /\ noPreempt' = TRUE
  /\ Goto(t, "lock")
  /\ UNCHANGED <<schedVars, held, owner, mutexQueue, condQueue>>

\* Mutex_Lock_Imp(): while (mutex->state == MUTEX_LOCKED)
Test(t) ==
  /\ Runs(t, "lock")
  /\ Goto(t, IF held THEN "wait" ELSE "take")
  /\ UNCHANGED <<schedVars, noPreempt, held, owner, mutexQueue, condQueue>>

\* Mutex_Wait(), with interrupts disabled up to Schedule().
MutexWait(t) ==
  /\ Runs(t, "wait")
  /\ noPreempt' = FALSE
  /\ mutexQueue' = mutexQueue \cup {t}
  /\ current' = NoThread
  /\ Goto(t, "woken")
  /\ UNCHANGED <<ready, held, owner, condQueue>>

\* Wait() returns in Mutex_Wait() or Cond_Wait(); the test of the mutex comes next.
Woken(t) ==
  /\ Runs(t, "woken")
  /\ noPreempt' = TRUE
  /\ Goto(t, "lock")
  /\ UNCHANGED <<schedVars, held, owner, mutexQueue, condQueue>>

\* "Now it's ours!"
Take(t) ==
  /\ Runs(t, "take")
  /\ held' = TRUE /\ owner' = t
  /\ Goto(t, "locked")
  /\ UNCHANGED <<schedVars, noPreempt, mutexQueue, condQueue>>

\* Mutex_Lock() or Cond_Wait() enables preemption and returns.
Locked(t) ==
  /\ Runs(t, "locked")
  /\ noPreempt' = FALSE
  /\ Goto(t, "in")
  /\ UNCHANGED <<schedVars, held, owner, mutexQueue, condQueue>>

-------------------------------------------------------------------------------
(* Mutex_Unlock() and Cond_Wait(), which share Mutex_Unlock_Imp().         *)

\* Mutex_Unlock() disables preemption.
Unlock(t) ==
  /\ Runs(t, "in")
  /\ noPreempt' = TRUE
  /\ Goto(t, "unlock")
  /\ UNCHANGED <<schedVars, held, owner, mutexQueue, condQueue>>

\* Mutant: scheduling is not turned off.
CondWaitPreemptible(t) ==
  /\ Runs(t, "in")
  /\ Goto(t, "unlockC")
  /\ UNCHANGED <<schedVars, noPreempt, held, owner, mutexQueue, condQueue>>
\* Cond_Wait() disables preemption.
CondWait(t) ==
  /\ Runs(t, "in")
  /\ noPreempt' = TRUE
  /\ Goto(t, "unlockC")
  /\ UNCHANGED <<schedVars, held, owner, mutexQueue, condQueue>>

\* Mutex_Unlock_Imp(): the mutex is free.
Release(t) ==
  /\ \/ Runs(t, "unlock") /\ Goto(t, "wake")
     \/ Runs(t, "unlockC") /\ Goto(t, "wakeC")
  /\ held' = FALSE /\ owner' = NoThread
  /\ UNCHANGED <<schedVars, noPreempt, mutexQueue, condQueue>>

\* Mutex_Unlock_Imp(): Wake_Up_One() if the queue is not empty.
Wake(t) ==
  /\ \/ Runs(t, "wake") /\ Goto(t, "unlocked")
     \/ Runs(t, "wakeC") /\ Goto(t, "waitC")
  /\ \/ mutexQueue = {} /\ UNCHANGED <<ready, mutexQueue>>
     \/ \E u \in mutexQueue :
          mutexQueue' = mutexQueue \ {u} /\ ready' = ready \cup {u}
  /\ UNCHANGED <<current, noPreempt, held, owner, condQueue>>

\* Mutant: preemption stays disabled.
UnlockedKeepsFlag(t) ==
  /\ Runs(t, "unlocked")
  /\ Goto(t, "out")
  /\ UNCHANGED <<schedVars, noPreempt, held, owner, mutexQueue, condQueue>>
\* Mutex_Unlock() enables preemption and returns.
Unlocked(t) ==
  /\ Runs(t, "unlocked")
  /\ noPreempt' = FALSE
  /\ Goto(t, "out")
  /\ UNCHANGED <<schedVars, held, owner, mutexQueue, condQueue>>

\* Cond_Wait(), with interrupts disabled up to Schedule().
CondBlock(t) ==
  /\ Runs(t, "waitC")
  /\ noPreempt' = FALSE
  /\ condQueue' = condQueue \cup {t}
  /\ current' = NoThread
  /\ Goto(t, "woken")
  /\ UNCHANGED <<ready, held, owner, mutexQueue>>

-------------------------------------------------------------------------------
(* Cond_Signal() and Cond_Broadcast(), with interrupts disabled; "the mutex *)
(* guarding the condition should be held".                                  *)

Signal(t) ==
  /\ Runs(t, "in")
  /\ \/ condQueue = {} /\ UNCHANGED <<ready, condQueue>>
     \/ \E u \in condQueue : condQueue' = condQueue \ {u} /\ ready' = ready \cup {u}
  /\ Goto(t, "signalled")
  /\ UNCHANGED <<current, noPreempt, held, owner, mutexQueue>>

Broadcast(t) ==
  /\ Runs(t, "in")
  /\ condQueue' = {} /\ ready' = ready \cup condQueue
  /\ Goto(t, "signalled")
  /\ UNCHANGED <<current, noPreempt, held, owner, mutexQueue>>

Return(t) ==
  /\ Runs(t, "signalled")
  /\ Goto(t, "in")
  /\ UNCHANGED <<schedVars, noPreempt, held, owner, mutexQueue, condQueue>>

-------------------------------------------------------------------------------
\* A thread in one of the calls.
Step(t) ==
  \/ Test(t) \/ MutexWait(t) \/ Woken(t) \/ Take(t) \/ Locked(t)
  \/ Release(t) \/ Wake(t) \/ Unlocked(t) \/ CondBlock(t) \/ Return(t)
\* What it calls is its own affair.
Call(t) == Lock(t) \/ Unlock(t) \/ CondWait(t) \/ Signal(t) \/ Broadcast(t)

Next ==
  \/ \E t \in Thread : Dispatch(t) \/ Preempt(t) \/ Step(t) \/ Call(t)
  \/ Idle

Spec == Init /\ [][Next]_vars

\* A thread that is runnable gets the processor in its turn (the run queue is first in,
\* first out among equals), the timer takes it back, and a thread that has it goes on.
Fairness ==
  \A t \in Thread :
    SF_vars(Dispatch(t)) /\ WF_vars(Preempt(t)) /\ SF_vars(Step(t))
FairSpec == Spec /\ Fairness

-------------------------------------------------------------------------------
(* Correctness.                                                            *)

\* Nobody sleeps for a mutex that is free: it is held, or a thread is on its way to
\* test it or to wake one of those that wait for it.
NoLostWake ==
  mutexQueue # {} =>
    \/ held
    \/ \E t \in Thread :
         \/ pc[t] \in {"lock", "take", "wake", "wakeC"}
         \/ pc[t] = "woken" /\ t \notin mutexQueue \cup condQueue

\* Who waits for a notification: in the queue, or already without the mutex on the way
\* there ("this thread will not miss the eventual notification on the condition").
Waiting == condQueue \cup {t \in Thread : pc[t] \in {"wakeC", "waitC"}}
Notified == \E t \in Thread : owner = t /\ pc[t] = "signalled"
M == INSTANCE Monitor WITH waiting <- Waiting, notified <- Notified

\* The flag makes a monitor of it: one owner at a time, a wait that releases and enters
\* at once, and no notification that misses a waiting thread.
ImplementsMonitor == M!Spec

\* A free mutex that threads wait for is taken, and a thread that wants it, or was
\* woken, has it or sleeps until it is released.
MutexPasses ==
  /\ (mutexQueue # {} /\ ~held) ~> held
  /\ \A t \in Thread :
       (pc[t] = "lock") ~> (pc[t] = "in" \/ t \in mutexQueue)

\* What the KASSERTs of synch.c and of Schedule() state.
KassertsHold ==
  /\ current = NoThread => ~noPreempt
  /\ \A t \in Thread :
       /\ pc[t] \in {"lock", "wait", "unlock", "unlockC"} => noPreempt
       /\ pc[t] = "wait" => held
       /\ pc[t] = "lock" => owner # t
       /\ pc[t] \in {"unlock", "unlockC"} => held /\ owner = t

===============================================================================
