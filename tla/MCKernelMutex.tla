----------------------------- MODULE MCKernelMutex -----------------------------
(***************************************************************************)
(* KernelMutex with four threads: one that holds the mutex, one that was   *)
(* woken for it, one that barges in and one that waits on the condition.   *)
(***************************************************************************)
EXTENDS KernelMutex

CONSTANTS k1, k2, k3, k4

MCThread == {k1, k2, k3, k4}

===============================================================================
