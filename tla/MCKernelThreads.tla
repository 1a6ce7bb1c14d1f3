---------------------------- MODULE MCKernelThreads ----------------------------
(***************************************************************************)
(* KernelThreads with room for three processes, the first of which may     *)
(* leave children that outlive it and whose pages are used again.          *)
(***************************************************************************)
EXTENDS KernelThreads

CONSTANTS p1, p2, p3

MCProcess == {p1, p2, p3}

===============================================================================
