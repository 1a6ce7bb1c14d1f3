-------------------------------- MODULE Monitor --------------------------------
(***************************************************************************)
(* What a mutex and a condition variable promise (the comments of synch.c):*)
(* the mutex has one owner, waiting gives it up and enters the condition   *)
(* in one step, so that no notification is missed, and a notification      *)
(* reaches one of the waiting threads, or all of them.                     *)
(***************************************************************************)
CONSTANTS Thread, NoThread

VARIABLES
  owner,     \* who has the mutex
  waiting,   \* who waits for a notification
  notified   \* the owner is in a call that notifies

vars == <<owner, waiting, notified>>

Init == owner = NoThread /\ waiting = {} /\ notified = FALSE

Acquire(t) ==
  /\ owner = NoThread /\ t \notin waiting
  /\ owner' = t
  /\ UNCHANGED <<waiting, notified>>

Release(t) ==
  /\ owner = t /\ ~notified
  /\ owner' = NoThread
  /\ UNCHANGED <<waiting, notified>>

Wait(t) ==
  /\ owner = t /\ ~notified
  /\ owner' = NoThread
  /\ waiting' = waiting \cup {t}
  /\ UNCHANGED notified

Notify(t) ==
  /\ owner = t /\ ~notified
  /\ \/ waiting = {} /\ UNCHANGED waiting
     \/ \E u \in waiting : waiting' = waiting \ {u}
  /\ notified' = TRUE
  /\ UNCHANGED owner

NotifyAll(t) ==
  /\ owner = t /\ ~notified
  /\ waiting' = {}
  /\ notified' = TRUE
  /\ UNCHANGED owner

Return(t) ==
  /\ owner = t /\ notified
  /\ notified' = FALSE
  /\ UNCHANGED <<owner, waiting>>

Next ==
  \E t \in Thread :
    Acquire(t) \/ Release(t) \/ Wait(t) \/ Notify(t) \/ NotifyAll(t) \/ Return(t)

Spec == Init /\ [][Next]_vars

===============================================================================
